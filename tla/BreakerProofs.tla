---------------------------- MODULE BreakerProofs ---------------------------
(***************************************************************************)
(* Theorems about the breakers of ProviderManager, for every set of        *)
(* providers, every configuration and any number of concurrent callers.    *)
(*                                                                         *)
(* TypeOK /\ BreakerInv is inductive.  BreakerInv speaks of each breaker   *)
(* apart, so the lemmas say what one operation does to one breaker, and    *)
(* the steps of ProviderManager only say which operation meets which.      *)
(*                                                                         *)
(* The second part is that ProviderManager implements BreakerContract.     *)
(***************************************************************************)
EXTENDS BreakerHistory, TLAPS

\* A breaker that is well formed under its configuration.
Good(b, c) == b \in Breaker /\ Stamped(b, c) /\ Counting(b, c)

\* CircuitBreaker::new makes a well formed breaker.
LEMMA NewBreakerGood ==
    ASSUME NEW c \in BreakerConfig
    PROVE  Good(NewBreaker, c)
    BY DEF Good, NewBreaker, Breaker, BreakerStates, Stamped, Counting

\* record_success keeps a breaker well formed: it may close it, but only by
\* resetting both counters.
LEMMA RecordSuccessGood ==
    ASSUME NEW c \in BreakerConfig, NEW b, Good(b, c)
    PROVE  Good(RecordSuccess(b, c), c)
<1> USE NoneAssumption DEF Good, Breaker, BreakerStates, BreakerConfig, Stamped, Counting
<1>1. CASE b.state = "Closed"
    BY <1>1 DEF RecordSuccess
<1>2. CASE b.state = "HalfOpen" /\ b.success_count + 1 >= c.success_threshold
    <2>1. ~(b.success_count + 1 < c.success_threshold)
        BY <1>2
    <2> DEFINE d == [b EXCEPT !.state = "Closed", !.failure_count = 0, !.success_count = 0]
    <2>2. RecordSuccess(b, c) = d
        BY <1>2, <2>1 DEF RecordSuccess
    <2>3. /\ d \in Breaker
          /\ d.state = "Closed" /\ d.failure_count = 0 /\ d.success_count = 0
          /\ d.last_failure = b.last_failure
        OBVIOUS
    <2> QED
        BY <1>2, <2>2, <2>3
<1>3. CASE b.state = "HalfOpen" /\ b.success_count + 1 < c.success_threshold
    <2>1. RecordSuccess(b, c) = [b EXCEPT !.success_count = @ + 1]
        BY <1>3 DEF RecordSuccess
    <2> QED
        BY <1>3, <2>1
<1>4. CASE b.state = "Open"
    BY <1>4 DEF RecordSuccess
<1> QED
    BY <1>1, <1>2, <1>3, <1>4

\* record_failure keeps a breaker well formed: every failure it counts is
\* stamped, and the failure that reaches the threshold opens the breaker.
LEMMA RecordFailureGood ==
    ASSUME NEW c \in BreakerConfig, NEW b, Good(b, c)
    PROVE  Good(RecordFailure(b, c), c)
<1> USE NoneAssumption DEF Good, Breaker, BreakerStates, BreakerConfig, Stamped, Counting
<1>1. CASE b.state = "Closed" /\ b.failure_count + 1 >= c.failure_threshold
    <2>1. RecordFailure(b, c) =
            [state |-> "Open", failure_count |-> b.failure_count + 1,
             success_count |-> b.success_count, last_failure |-> 0]
        BY <1>1 DEF RecordFailure
    <2> QED
        BY <1>1, <2>1
<1>2. CASE b.state = "Closed" /\ ~(b.failure_count + 1 >= c.failure_threshold)
    <2>1. RecordFailure(b, c) =
            [state |-> "Closed", failure_count |-> b.failure_count + 1,
             success_count |-> b.success_count, last_failure |-> 0]
        BY <1>2 DEF RecordFailure
    <2> QED
        BY <1>2, <2>1
<1>3. CASE b.state = "HalfOpen"
    <2>1. RecordFailure(b, c) =
            [state |-> "Open", failure_count |-> 1, success_count |-> 0,
             last_failure |-> 0]
        BY <1>3 DEF RecordFailure
    <2> QED
        BY <1>3, <2>1
<1>4. CASE b.state = "Open"
    BY <1>4 DEF RecordFailure
<1> QED
    BY <1>1, <1>2, <1>3, <1>4

\* can_attempt keeps a breaker well formed: an open breaker has counted no
\* success, and half-open it starts from none.
LEMMA AfterCanAttemptGood ==
    ASSUME NEW c \in BreakerConfig, NEW b, Good(b, c)
    PROVE  Good(AfterCanAttempt(b, c), c)
    BY NoneAssumption
    DEF Good, Breaker, BreakerStates, BreakerConfig, Stamped, Counting,
        AfterCanAttempt, CooledDown

\* The passing of time keeps a breaker well formed.
LEMMA AgedGood ==
    ASSUME NEW c \in BreakerConfig, NEW b, Good(b, c)
    PROVE  Good(Aged(b, c), c)
    BY NoneAssumption
    DEF Good, Breaker, BreakerStates, BreakerConfig, Stamped, Counting, Aged

-----------------------------------------------------------------------------

\* The inductive invariant of ProviderManager.
IInv == TypeOK /\ BreakerInv

\* It is the counts of callers, and every breaker well formed.
LEMMA IInvByBreaker ==
    IInv <=> /\ inflight \in [Registered -> Nat]
             /\ breakers \in [Registered -> Breaker]
             /\ \A p \in Registered : Good(breakers[p], Config[p])
    BY DEF IInv, TypeOK, BreakerInv, Good

\* ProviderManager::new establishes it.
LEMMA InitIInv == Init => IInv
<1> SUFFICES ASSUME Init PROVE IInv
    OBVIOUS
<1>1. \A p \in Registered : Good(NewBreaker, Config[p])
    BY NewBreakerGood, ConfigAssumption
<1>2. NewBreaker \in Breaker
    BY DEF NewBreaker, Breaker, BreakerStates
<1> QED
    BY <1>1, <1>2, IInvByBreaker DEF Init

\* Replacing one breaker by a well formed one keeps the invariant.
LEMMA ReplaceGood ==
    ASSUME IInv, NEW p \in Registered, NEW b, Good(b, Config[p]),
           breakers' = [breakers EXCEPT ![p] = b],
           inflight' \in [Registered -> Nat]
    PROVE  IInv'
<1>1. b \in Breaker
    BY DEF Good
<1>2. breakers' \in [Registered -> Breaker]
    BY <1>1 DEF IInv, TypeOK
<1>3. \A q \in Registered : Good(breakers'[q], Config[q])
    BY IInvByBreaker DEF IInv, TypeOK
<1> QED
    BY <1>2, <1>3 DEF IInv, TypeOK, BreakerInv, Good

\* Every step of ProviderManager keeps it.
LEMMA NextIInv == IInv /\ [Next]_vars => IInv'
<1> SUFFICES ASSUME IInv, [Next]_vars PROVE IInv'
    OBVIOUS
<1>0. /\ inflight \in [Registered -> Nat]
      /\ breakers \in [Registered -> Breaker]
      /\ \A p \in Registered : Good(breakers[p], Config[p])
      /\ \A p \in Registered : Config[p] \in BreakerConfig
    BY IInvByBreaker, ConfigAssumption
<1>1. ASSUME NEW p \in Registered, Admit(p) PROVE IInv'
    <2>1. Good(AfterCanAttempt(breakers[p], Config[p]), Config[p])
        BY <1>0, AfterCanAttemptGood
    <2>2. inflight' \in [Registered -> Nat]
        BY <1>0, <1>1 DEF Admit
    <2> QED
        BY <1>1, <2>1, <2>2, ReplaceGood DEF Admit
<1>2. ASSUME NEW n \in Names, Refuse(n) PROVE IInv'
    BY <1>2 DEF Refuse, vars, IInv, TypeOK, BreakerInv
<1>3. ASSUME NEW p \in Registered, NEW is_success \in BOOLEAN, Report(p, is_success)
      PROVE  IInv'
    <2> DEFINE b == IF is_success THEN RecordSuccess(breakers[p], Config[p])
                                  ELSE RecordFailure(breakers[p], Config[p])
    <2>1. Good(b, Config[p])
        BY <1>0, RecordSuccessGood, RecordFailureGood
    <2>2. inflight' \in [Registered -> Nat]
        BY <1>0, <1>3 DEF Report
    <2>3. breakers' = [breakers EXCEPT ![p] = b]
        BY <1>3 DEF Report
    <2> QED
        BY <2>1, <2>2, <2>3, ReplaceGood
<1>4. ASSUME NEW p \in Registered, Abandon(p) PROVE IInv'
    BY <1>0, <1>4 DEF Abandon, IInv, TypeOK, BreakerInv
<1>5. CASE Elapse
    <2>1. \A p \in Registered : Good(Aged(breakers[p], Config[p]), Config[p])
        BY <1>0, AgedGood
    <2>2. \A p \in Registered : breakers'[p] = Aged(breakers[p], Config[p])
        BY <1>5 DEF Elapse
    <2>3. breakers' \in [Registered -> Breaker]
        BY <1>5, <2>1 DEF Elapse, Good
    <2> QED
        BY <1>0, <1>5, <2>1, <2>2, <2>3 DEF Elapse, IInv, TypeOK, BreakerInv, Good
<1>6. CASE UNCHANGED vars
    BY <1>6 DEF vars, IInv, TypeOK, BreakerInv
<1> QED
    BY <1>1, <1>2, <1>3, <1>4, <1>5, <1>6 DEF Next

\* The breakers and the counts of callers have their types: no count of
\* callers goes below zero, however calls are reported and abandoned.
THEOREM TypeCorrect == Spec => []TypeOK
<1>1. IInv => TypeOK
    BY DEF IInv
<1> QED
    BY InitIInv, NextIInv, <1>1, PTL DEF Spec

\* The fields of every breaker agree with each other and with its thresholds
\* in every reachable state of get_provider and report_result.
THEOREM BreakersConsistent == Spec => []BreakerInv
<1>1. IInv => BreakerInv
    BY DEF IInv
<1> QED
    BY InitIInv, NextIInv, <1>1, PTL DEF Spec

-----------------------------------------------------------------------------
(* The refinement.  The counters of a breaker summarise the reports it has *)
(* heard since its state last changed: CountersTellHistory.  From that and *)
(* BreakerInv each operation on a breaker is the contract's step or no     *)
(* step at all.                                                            *)

HInv ==
    /\ IInv
    /\ window \in [Registered -> Seq(Contract!Outcomes)]
    /\ CountersTellHistory

\* The window is never empty and holds the larger of the two thresholds.
LEMMA WidthBounds ==
    ASSUME NEW p \in Registered
    PROVE  /\ Contract!Width(p) \in Nat \ {0}
           /\ Contract!Width(p) >= Config[p].failure_threshold
           /\ Contract!Width(p) >= Config[p].success_threshold
    BY ConfigAssumption DEF Contract!Width, Contract!AtLeastOne, BreakerConfig

\* Recent puts the report last and shifts what was before it by one place
\* when the window was full.
LEMMA RecentReports ==
    ASSUME NEW p \in Registered, NEW w \in Seq(Contract!Outcomes), NEW x \in Contract!Outcomes,
           Len(w) <= Contract!Width(p)
    PROVE  LET v == Contract!Recent(p, w, x) IN
           /\ v \in Seq(Contract!Outcomes)
           /\ Len(v) # 0 /\ Len(v) <= Contract!Width(p)
           /\ v[Len(v)] = x
           /\ Len(w) < Contract!Width(p) => Len(v) = Len(w) + 1
           /\ Len(w) = Contract!Width(p) => Len(v) = Len(w)
           /\ \A i \in 1 .. Len(v) - 1 : v[i] = w[i + (Len(w) + 1 - Len(v))]
<1> DEFINE n == Contract!Width(p)
<1>1. n \in Nat \ {0}
    BY WidthBounds
<1> HIDE DEF n
<1>2. CASE Len(w) < n
    <2>1. Contract!Recent(p, w, x) = Append(w, x)
        BY <1>2 DEF Contract!Recent, n
    <2> QED
        BY <1>1, <1>2, <2>1 DEF n
<1>3. CASE Len(w) = n
    <2>1. Contract!Recent(p, w, x) = Append(Tail(w), x)
        BY <1>3, <1>1 DEF Contract!Recent, n
    <2>2. w # <<>> /\ Tail(w) \in Seq(Contract!Outcomes) /\ Len(Tail(w)) = Len(w) - 1
        BY <1>1, <1>3
    <2>3. \A i \in 1 .. Len(w) - 1 : Tail(w)[i] = w[i + 1]
        BY <2>2
    <2> QED
        BY <1>1, <1>3, <2>1, <2>2, <2>3 DEF n
<1> QED
    BY <1>1, <1>2, <1>3 DEF n

-----------------------------------------------------------------------------

\* The fields record_success and record_failure leave behind, by state.
LEMMA Recorded ==
    ASSUME NEW c \in BreakerConfig, NEW b \in Breaker
    PROVE  LET s == RecordSuccess(b, c)
               f == RecordFailure(b, c)
           IN /\ b.state = "Closed" =>
                    /\ s.state = "Closed" /\ s.failure_count = 0
                    /\ f.state = IF b.failure_count + 1 >= c.failure_threshold
                                 THEN "Open" ELSE "Closed"
                    /\ f.failure_count = b.failure_count + 1 /\ f.last_failure = 0
              /\ b.state = "HalfOpen" =>
                    /\ b.success_count + 1 >= c.success_threshold =>
                        s.state = "Closed" /\ s.failure_count = 0
                    /\ b.success_count + 1 < c.success_threshold =>
                        s.state = "HalfOpen" /\ s.success_count = b.success_count + 1
                    /\ f.state = "Open" /\ f.last_failure = 0
              /\ b.state = "Open" => s = b /\ f = b
<1> USE DEF Breaker, BreakerStates, BreakerConfig
<1>1. CASE b.state = "Closed"
    BY <1>1 DEF RecordSuccess, RecordFailure
<1>2. CASE b.state = "HalfOpen"
    <2>1. ASSUME b.success_count + 1 >= c.success_threshold
          PROVE  RecordSuccess(b, c).state = "Closed" /\ RecordSuccess(b, c).failure_count = 0
        <3>1. ~(b.success_count + 1 < c.success_threshold)
            BY <2>1
        <3>2. RecordSuccess(b, c) =
                [b EXCEPT !.state = "Closed", !.failure_count = 0, !.success_count = 0]
            BY <1>2, <2>1, <3>1 DEF RecordSuccess
        <3> QED
            BY <3>2
    <2>2. ASSUME b.success_count + 1 < c.success_threshold
          PROVE  /\ RecordSuccess(b, c).state = "HalfOpen"
                 /\ RecordSuccess(b, c).success_count = b.success_count + 1
        BY <1>2, <2>2 DEF RecordSuccess
    <2>3. RecordFailure(b, c).state = "Open" /\ RecordFailure(b, c).last_failure = 0
        BY <1>2 DEF RecordFailure
    <2>4. b.state # "Closed" /\ b.state # "Open"
        BY <1>2
    <2> HIDE DEF Breaker, BreakerStates, BreakerConfig
    <2> QED
        BY <2>1, <2>2, <2>3, <2>4
<1>3. CASE b.state = "Open"
    BY <1>3 DEF RecordSuccess, RecordFailure
<1> QED
    BY <1>1, <1>2, <1>3

\* A failure makes the run of failures at the end of the window one longer,
\* whether or not the oldest report falls out of the window.
LEMMA RunGrows ==
    ASSUME NEW w \in Seq(Contract!Outcomes), NEW v \in Seq(Contract!Outcomes), NEW k \in Nat,
           FailuresAtTheEnd(w, k),
           Len(v) = Len(w) + 1 \/ (Len(v) = Len(w) /\ k < Len(w)),
           v[Len(v)] = "failure",
           \A i \in 1 .. Len(v) - 1 : v[i] = w[i + (Len(w) + 1 - Len(v))]
    PROVE  FailuresAtTheEnd(v, k + 1)
<1>1. PICK a \in Nat, e \in Nat, s \in Nat :
            /\ a = Len(w) /\ e = Len(v)
            /\ e + s = a + 1 /\ (s = 0 \/ (s = 1 /\ k < a))
    <2>1. CASE Len(v) = Len(w) + 1
        BY <2>1
    <2>2. CASE Len(v) = Len(w) /\ k < Len(w)
        BY <2>2
    <2> QED
        BY <2>1, <2>2
<1>2. k <= a /\ (\A i \in (a - k + 1) .. a : w[i] = "failure") /\ (k = a \/ w[a - k] = "success")
    BY <1>1 DEF FailuresAtTheEnd
<1>3. \A i \in 1 .. e - 1 : v[i] = w[i + s]
    <2>1. a + 1 - e = s
        BY <1>1
    <2> QED
        BY <1>1, <2>1
<1>4. k + 1 <= e
    BY <1>1, <1>2
<1>5. ASSUME NEW i \in (e - (k + 1) + 1) .. e
      PROVE  v[i] = "failure"
    <2>1. CASE i = e
        BY <1>1, <2>1
    <2>2. CASE i < e
        <3>1. i \in 1 .. e - 1 /\ i + s \in (a - k + 1) .. a
            BY <1>1, <1>4, <2>2
        <3> QED
            BY <1>2, <1>3, <3>1
    <2>3. i = e \/ i < e
        OBVIOUS
    <2> QED
        BY <2>1, <2>2, <2>3
<1>6. ASSUME k + 1 # e
      PROVE  v[e - (k + 1)] = "success"
    <2>1. e - (k + 1) \in 1 .. e - 1
        BY <1>4, <1>6
    <2>2. (e - (k + 1)) + s = a - k
        BY <1>1
    <2>3. k # a
        BY <1>1, <1>4, <1>6
    <2>4. w[a - k] = "success"
        BY <1>2, <2>3
    <2> QED
        BY <1>3, <2>1, <2>2, <2>4
<1> QED
    BY <1>1, <1>4, <1>5, <1>6 DEF FailuresAtTheEnd

\* A window that ends in exactly k failures, at most n of them, ends in a
\* streak of n failures exactly when k is n.
LEMMA RunIsStreak ==
    ASSUME NEW v \in Seq(Contract!Outcomes), NEW k \in Nat, NEW t \in Nat, NEW x, x = "failure",
           FailuresAtTheEnd(v, k), k <= Contract!AtLeastOne(t)
    PROVE  Contract!Streak(v, x, t) <=> k = Contract!AtLeastOne(t)
<1>0. PICK n \in Nat \ {0} : n = Contract!AtLeastOne(t)
    BY DEF Contract!AtLeastOne
<1>1. PICK a \in Nat : a = Len(v)
    OBVIOUS
<1>2. k <= a /\ (\A i \in (a - k + 1) .. a : v[i] = "failure") /\ (k = a \/ v[a - k] = "success")
    BY <1>1 DEF FailuresAtTheEnd
<1>3. Contract!Streak(v, x, t) <=> n <= a /\ \A i \in (a - n + 1) .. a : v[i] = "failure"
    BY <1>0, <1>1 DEF Contract!Streak
<1>4. CASE k = n
    BY <1>0, <1>2, <1>3, <1>4
<1>5. CASE k < n /\ n <= a
    <2>1. v[a - k] = "success"
        BY <1>2, <1>5
    <2>2. a - k \in (a - n + 1) .. a
        BY <1>5
    <2>3. k # n
        BY <1>5
    <2> QED
        BY <1>0, <1>3, <2>1, <2>2, <2>3
<1>6. CASE k < n /\ ~(n <= a)
    BY <1>0, <1>3, <1>6
<1>7. k = n \/ (k < n /\ n <= a) \/ (k < n /\ ~(n <= a))
    BY <1>0
<1> QED
    BY <1>0, <1>4, <1>5, <1>6, <1>7

\* A closed breaker hears a failure: its count reaches the threshold exactly
\* when the window ends in a streak of failures.
LEMMA ClosedHearsFailure ==
    ASSUME NEW p \in Registered, NEW b, Good(b, Config[p]), b.state = "Closed",
           NEW w \in Seq(Contract!Outcomes), CountsTheRun(p, b, w),
           NEW x \in Contract!Outcomes, x = "failure", NEW v, v = Contract!Recent(p, w, x),
           NEW d, d = RecordFailure(b, Config[p])
    PROVE  /\ v \in Seq(Contract!Outcomes)
           /\ Contract!Streak(v, x, Config[p].failure_threshold) <=> d.state = "Open"
           /\ d.state # "Open" => d.state = "Closed" /\ CountsTheRun(p, d, v)
<1>1. PICK c \in BreakerConfig : c = Config[p]
    BY ConfigAssumption
<1>2. PICK t \in Nat : t = c.failure_threshold
    BY DEF BreakerConfig
<1>3. PICK n \in Nat \ {0} : n = Contract!AtLeastOne(t) /\ n = IF t = 0 THEN 1 ELSE t
    BY DEF Contract!AtLeastOne
<1>4. PICK k \in Nat : k = b.failure_count
    BY DEF Good, Breaker
<1>5. k < n
    BY <1>1, <1>2, <1>3, <1>4 DEF Good, Counting
<1>6. d.state = (IF k + 1 >= t THEN "Open" ELSE "Closed") /\ d.failure_count = k + 1
    BY <1>1, <1>2, <1>4, Recorded DEF Good
<1>7. d.state = IF k + 1 = n THEN "Open" ELSE "Closed"
    BY <1>3, <1>5, <1>6
<1>8. PICK m \in Nat \ {0} : m = Contract!Width(p) /\ m >= n
    BY <1>1, <1>2, <1>3, WidthBounds
<1>9. Len(w) <= Contract!Width(p) /\ FailuresAtTheEnd(w, k)
    BY <1>4 DEF CountsTheRun
<1>10. /\ v \in Seq(Contract!Outcomes) /\ Len(v) <= Contract!Width(p) /\ v[Len(v)] = "failure"
       /\ \A i \in 1 .. Len(v) - 1 : v[i] = w[i + (Len(w) + 1 - Len(v))]
    <2>1. /\ v \in Seq(Contract!Outcomes) /\ Len(v) <= Contract!Width(p) /\ v[Len(v)] = x
          /\ \A i \in 1 .. Len(v) - 1 : v[i] = w[i + (Len(w) + 1 - Len(v))]
        BY <1>9, RecentReports
    <2>2. x = "failure"
        OBVIOUS
    <2> QED
        BY <2>1, <2>2
<1>11. Len(v) = Len(w) + 1 \/ (Len(v) = Len(w) /\ k < Len(w))
    <2>1. /\ Len(w) < Contract!Width(p) => Len(v) = Len(w) + 1
          /\ Len(w) = Contract!Width(p) => Len(v) = Len(w)
        BY <1>9, RecentReports
    <2>2. Len(w) < m \/ Len(w) = m
        BY <1>8, <1>9
    <2>3. k < m
        BY <1>5, <1>8
    <2> QED
        BY <1>8, <2>1, <2>2, <2>3
<1>12. FailuresAtTheEnd(v, k + 1)
    BY <1>9, <1>10, <1>11, RunGrows
<1>13. Contract!Streak(v, x, t) <=> k + 1 = n
    <2>1. PICK j \in Nat : j = k + 1 /\ j <= n
        BY <1>5
    <2>2. FailuresAtTheEnd(v, j) /\ v \in Seq(Contract!Outcomes)
        BY <1>10, <1>12, <2>1
    <2>3. j <= Contract!AtLeastOne(t)
        BY <1>3, <2>1
    <2>4. Contract!Streak(v, x, t) <=> j = Contract!AtLeastOne(t)
        BY <2>2, <2>3, RunIsStreak
    <2> QED
        BY <1>3, <2>1, <2>4
<1>14. d.state # "Open" => CountsTheRun(p, d, v)
    <2>1. Len(v) <= Contract!Width(p)
        BY <1>8, <1>10
    <2> QED
        BY <1>6, <1>12, <2>1 DEF CountsTheRun
<1> QED
    BY <1>1, <1>2, <1>7, <1>10, <1>13, <1>14

\* A report of the other kind at the end breaks every streak.
LEMMA LastBreaksStreak ==
    ASSUME NEW v \in Seq(Contract!Outcomes), Len(v) # 0, NEW x, v[Len(v)] # x,
           NEW t \in Nat
    PROVE  ~Contract!Streak(v, x, t)
<1>1. PICK e \in Nat \ {0} : e = Len(v)
    OBVIOUS
<1>2. PICK n \in Nat \ {0} : n = Contract!AtLeastOne(t)
    BY DEF Contract!AtLeastOne
<1>3. e \in (e - n + 1) .. e
    OBVIOUS
<1>4. Contract!Streak(v, x, t) => \A i \in (e - n + 1) .. e : v[i] = x
    BY <1>1, <1>2 DEF Contract!Streak
<1> QED
    BY <1>1, <1>3, <1>4

\* After a success no failure is at the end.
LEMMA NoRun ==
    ASSUME NEW v \in Seq(Contract!Outcomes), Len(v) # 0, v[Len(v)] = "success"
    PROVE  FailuresAtTheEnd(v, 0)
    BY DEF FailuresAtTheEnd

\* A closed breaker hears a success: it stays closed and counts from nothing.
LEMMA ClosedHearsSuccess ==
    ASSUME NEW p \in Registered, NEW b, Good(b, Config[p]), b.state = "Closed",
           NEW w \in Seq(Contract!Outcomes), CountsTheRun(p, b, w),
           NEW x \in Contract!Outcomes, x = "success", NEW v, v = Contract!Recent(p, w, x),
           NEW d, d = RecordSuccess(b, Config[p])
    PROVE  /\ v \in Seq(Contract!Outcomes) /\ Len(v) # 0 /\ v[Len(v)] = "success"
           /\ d.state = "Closed" /\ CountsTheRun(p, d, v)
<1>1. d.state = "Closed" /\ d.failure_count = 0
    <2>1. Config[p] \in BreakerConfig
        BY ConfigAssumption
    <2> QED
        BY <2>1, Recorded DEF Good
<1>2. Len(w) <= Contract!Width(p)
    BY DEF CountsTheRun
<1>3. v \in Seq(Contract!Outcomes) /\ Len(v) # 0 /\ Len(v) <= Contract!Width(p) /\ v[Len(v)] = "success"
    BY <1>2, RecentReports
<1>4. FailuresAtTheEnd(v, 0)
    BY <1>3, NoRun
<1>5. CountsTheRun(p, d, v)
    BY <1>1, <1>3, <1>4 DEF CountsTheRun
<1> QED
    BY <1>1, <1>3, <1>5

\* A half-open breaker hears a success: it closes exactly when the window is a
\* streak of successes.
LEMMA HalfOpenHearsSuccess ==
    ASSUME NEW p \in Registered, NEW b, Good(b, Config[p]), b.state = "HalfOpen",
           NEW w \in Seq(Contract!Outcomes), CountsTheRun(p, b, w),
           NEW x \in Contract!Outcomes, x = "success", NEW v, v = Contract!Recent(p, w, x),
           NEW d, d = RecordSuccess(b, Config[p])
    PROVE  /\ v \in Seq(Contract!Outcomes)
           /\ Contract!Streak(v, x, Config[p].success_threshold) <=> d.state = "Closed"
           /\ d.state # "Closed" => d.state = "HalfOpen" /\ CountsTheRun(p, d, v)
<1>1. PICK c \in BreakerConfig : c = Config[p]
    BY ConfigAssumption
<1>2. PICK t \in Nat : t = c.success_threshold
    BY DEF BreakerConfig
<1>3. PICK n \in Nat \ {0} : n = Contract!AtLeastOne(t) /\ n = IF t = 0 THEN 1 ELSE t
    BY DEF Contract!AtLeastOne
<1>4. PICK k \in Nat : k = b.success_count
    BY DEF Good, Breaker
<1>5. k < n
    BY <1>1, <1>2, <1>3, <1>4 DEF Good, Counting
<1>6. /\ k + 1 >= t => d.state = "Closed"
      /\ k + 1 < t => d.state = "HalfOpen" /\ d.success_count = k + 1
    BY <1>1, <1>2, <1>4, Recorded DEF Good
<1>7. /\ k + 1 = n => d.state = "Closed"
      /\ k + 1 # n => d.state = "HalfOpen" /\ d.success_count = k + 1
    BY <1>3, <1>5, <1>6
<1>8. PICK m \in Nat \ {0} : m = Contract!Width(p) /\ m >= n
    BY <1>1, <1>2, <1>3, WidthBounds
<1>9. k = Len(w) /\ \A i \in 1 .. k : w[i] = "success"
    BY <1>4 DEF CountsTheRun
<1>10. /\ v \in Seq(Contract!Outcomes) /\ Len(v) = k + 1 /\ v[k + 1] = "success"
       /\ \A i \in 1 .. k : v[i] = w[i]
    <2>1. k < m
        BY <1>5, <1>8
    <2>2. Len(w) <= Contract!Width(p) /\ Len(w) < Contract!Width(p)
        BY <1>8, <1>9, <2>1
    <2>3. v \in Seq(Contract!Outcomes) /\ Len(v) = Len(w) + 1 /\ v[Len(v)] = "success"
        BY <2>2, RecentReports
    <2>4. \A i \in 1 .. Len(v) - 1 : v[i] = w[i + (Len(w) + 1 - Len(v))]
        BY <2>2, RecentReports
    <2>5. Len(v) - 1 = k /\ Len(w) + 1 - Len(v) = 0 /\ Len(v) = k + 1
        BY <1>9, <2>3
    <2>6. ASSUME NEW i \in 1 .. k PROVE v[i] = w[i]
        <3>1. i \in 1 .. Len(v) - 1 /\ i + (Len(w) + 1 - Len(v)) = i
            BY <2>5
        <3> QED
            BY <2>4, <3>1
    <2> QED
        BY <2>3, <2>5, <2>6
<1>11. ASSUME NEW i \in 1 .. k + 1 PROVE v[i] = "success"
    <2>1. i \in 1 .. k \/ i = k + 1
        OBVIOUS
    <2> QED
        BY <1>9, <1>10, <2>1
<1>12. Contract!Streak(v, x, t) <=> k + 1 = n
    <2>1. CASE k + 1 = n
        <3>1. Len(v) - n + 1 = 1 /\ n <= Len(v) /\ Len(v) = k + 1
            BY <1>10, <2>1
        <3> QED
            BY <1>3, <1>11, <2>1, <3>1 DEF Contract!Streak
    <2>2. CASE k + 1 # n
        <3>1. ~(n <= Len(v))
            BY <1>5, <1>10, <2>2
        <3> QED
            BY <1>3, <2>2, <3>1 DEF Contract!Streak
    <2> QED
        BY <2>1, <2>2
<1>13. k + 1 # n => CountsTheRun(p, d, v)
    <2>1. Len(v) <= Contract!Width(p)
        BY <1>5, <1>8, <1>10
    <2> QED
        BY <1>7, <1>10, <1>11, <2>1 DEF CountsTheRun
<1> QED
    BY <1>1, <1>2, <1>7, <1>10, <1>12, <1>13

-----------------------------------------------------------------------------

\* What the contract sees when one breaker is replaced.
LEMMA OneBreaker ==
    ASSUME breakers \in [Registered -> Breaker], NEW p \in Registered, NEW b,
           breakers' = [breakers EXCEPT ![p] = b]
    PROVE  /\ Gates' = [Gates EXCEPT ![p] = b.state]
           /\ Waits' = [Waits EXCEPT ![p] = WaitOf(b)]
    BY DEF Gates, Waits

\* An empty history agrees with a breaker that has just changed state.
LEMMA FreshHistory ==
    ASSUME NEW p \in Registered, NEW b,
           \/ b.state = "Open"
           \/ b.state = "HalfOpen" /\ b.success_count = 0
           \/ b.state = "Closed" /\ b.failure_count = 0
    PROVE  CountsTheRun(p, b, <<>>)
<1>1. Len(<<>>) <= Contract!Width(p)
    BY WidthBounds
<1>2. FailuresAtTheEnd(<<>>, 0)
    BY DEF FailuresAtTheEnd
<1> QED
    BY <1>1, <1>2 DEF CountsTheRun

\* ProviderManager::new starts both the history and the contract.
LEMMA HInitInv == HInit => HInv
<1> SUFFICES ASSUME HInit PROVE HInv
    OBVIOUS
<1>1. IInv
    BY InitIInv DEF HInit
<1>2. window \in [Registered -> Seq(Contract!Outcomes)]
    BY DEF HInit
<1>3. ASSUME NEW p \in Registered PROVE CountsTheRun(p, breakers[p], window[p])
    <2>1. breakers[p].state = "Closed" /\ breakers[p].failure_count = 0
        BY DEF HInit, Init, NewBreaker
    <2>2. window[p] = <<>>
        BY DEF HInit
    <2> QED
        BY <2>1, <2>2, FreshHistory
<1> QED
    BY <1>1, <1>2, <1>3 DEF HInv, CountersTellHistory

LEMMA HInitContract == HInit => Contract!Init
    BY DEF HInit, Init, NewBreaker, Contract!Init, Gates, Waits, WaitOf

\* A step that changes one breaker, and at most its history, keeps HInv if the
\* two still agree.
LEMMA OneHistory ==
    ASSUME HInv, IInv', NEW p \in Registered, NEW b, NEW v \in Seq(Contract!Outcomes),
           breakers' = [breakers EXCEPT ![p] = b],
           window' = [window EXCEPT ![p] = v],
           CountsTheRun(p, b, v)
    PROVE  HInv'
<1>1. window' \in [Registered -> Seq(Contract!Outcomes)]
    BY DEF HInv
<1>2. ASSUME NEW q \in Registered PROVE CountsTheRun(q, breakers'[q], window'[q])
    <2>1. CASE q = p
        BY <2>1 DEF HInv, IInv, TypeOK
    <2>2. CASE q # p
        BY <2>2 DEF HInv, IInv, TypeOK, CountersTellHistory
    <2> QED
        BY <2>1, <2>2
<1>3. CountersTellHistory'
    BY <1>2 DEF CountersTellHistory, CountsTheRun
<1> QED
    BY <1>1, <1>3 DEF HInv

LEMMA AtOneBreaker ==
    ASSUME HInv, NEW p \in Registered
    PROVE  /\ breakers \in [Registered -> Breaker]
           /\ Good(breakers[p], Config[p])
           /\ window \in [Registered -> Seq(Contract!Outcomes)]
           /\ CountsTheRun(p, breakers[p], window[p])
    BY IInvByBreaker DEF HInv, CountersTellHistory

\* The contract makes a step or sees nothing.
ContractStep == Contract!Next \/ UNCHANGED <<Gates, window, Waits>>

\* A step that leaves the breakers and the history alone.
LEMMA NothingSeen ==
    ASSUME HInv, IInv', breakers' = breakers, UNCHANGED window
    PROVE  HInv' /\ ContractStep
    BY DEF HInv, CountersTellHistory, CountsTheRun, ContractStep, Gates, Waits

\* get_provider returns Some: the contract's Probe when it makes an open
\* breaker half-open, nothing otherwise.
LEMMA AdmitStep ==
    ASSUME HInv, IInv', NEW p \in Registered, HAdmit(p)
    PROVE  HInv' /\ ContractStep
<1> DEFINE b == AfterCanAttempt(breakers[p], Config[p])
<1>1. /\ breakers \in [Registered -> Breaker]
      /\ Good(breakers[p], Config[p])
      /\ window \in [Registered -> Seq(Contract!Outcomes)]
      /\ Config[p] \in BreakerConfig
    BY AtOneBreaker, ConfigAssumption
<1>2. breakers' = [breakers EXCEPT ![p] = b]
    BY DEF HAdmit, Admit
<1>3. breakers'[p] = b
    BY <1>1, <1>2
<1> HIDE DEF b
<1>4. CASE breakers[p].state = "Open" /\ CooledDown(breakers[p], Config[p])
    <2>1. b.state = "HalfOpen" /\ b.success_count = 0
        BY <1>1, <1>4 DEF b, AfterCanAttempt, Good, Breaker
    <2>2. window' = [window EXCEPT ![p] = <<>>]
        BY <1>3, <1>4, <2>1 DEF HAdmit, Forget
    <2>3. CountsTheRun(p, b, <<>>)
        BY <2>1, FreshHistory
    <2>4. HInv'
        <3>1. <<>> \in Seq(Contract!Outcomes)
            OBVIOUS
        <3> QED
            BY <1>2, <2>2, <2>3, <3>1, OneHistory
    <2>5. Gates[p] = "Open" /\ Waits[p] = Config[p].timeout_secs
        <3>1. breakers[p].last_failure = Config[p].timeout_secs
            BY <1>1, <1>4, NoneAssumption
            DEF CooledDown, Good, Stamped, Breaker, BreakerConfig
        <3> QED
            BY <1>4, <3>1 DEF Gates, Waits, WaitOf
    <2>6. Gates' = [Gates EXCEPT ![p] = "HalfOpen"] /\ Waits' = [Waits EXCEPT ![p] = 0]
        <3>1. WaitOf(b) = 0
            BY <2>1 DEF WaitOf
        <3>2. Gates' = [Gates EXCEPT ![p] = b.state] /\ Waits' = [Waits EXCEPT ![p] = WaitOf(b)]
            BY <1>1, <1>2, OneBreaker
        <3> QED
            BY <2>1, <3>1, <3>2
    <2>7. Contract!Probe(p)
        BY <2>2, <2>5, <2>6 DEF Contract!Probe, Contract!Turn
    <2> QED
        BY <2>4, <2>7 DEF ContractStep, Contract!Next
<1>5. CASE ~(breakers[p].state = "Open" /\ CooledDown(breakers[p], Config[p]))
    <2>1. b = breakers[p]
        BY <1>5 DEF b, AfterCanAttempt
    <2>2. breakers' = breakers
        BY <1>1, <1>2, <2>1
    <2>3. UNCHANGED window
        BY <2>2 DEF HAdmit
    <2> QED
        BY <2>2, <2>3, NothingSeen
<1> QED
    BY <1>4, <1>5

\* report_result reaches a closed breaker: the contract hears it too.
LEMMA ClosedReportStep ==
    ASSUME HInv, IInv', NEW p \in Registered, NEW is_success \in BOOLEAN,
           HReport(p, is_success), breakers[p].state = "Closed"
    PROVE  HInv' /\ ContractStep
<1> DEFINE b == breakers[p]
           x == Outcome(is_success)
           d == IF is_success THEN RecordSuccess(b, Config[p])
                              ELSE RecordFailure(b, Config[p])
           v == Contract!Recent(p, window[p], x)
<1>1. /\ breakers \in [Registered -> Breaker]
      /\ Good(b, Config[p])
      /\ window \in [Registered -> Seq(Contract!Outcomes)] /\ window[p] \in Seq(Contract!Outcomes)
      /\ CountsTheRun(p, b, window[p])
      /\ Config[p].failure_threshold \in Nat
    BY AtOneBreaker, ConfigAssumption DEF BreakerConfig
<1>2. breakers' = [breakers EXCEPT ![p] = d] /\ breakers'[p] = d
    BY <1>1 DEF HReport, Report
<1>3. /\ x \in Contract!Outcomes
      /\ \/ x = "success" /\ d = RecordSuccess(b, Config[p])
         \/ x = "failure" /\ d = RecordFailure(b, Config[p])
    BY DEF Outcome, Contract!Outcomes
<1>4. v = Contract!Recent(p, window[p], x)
    OBVIOUS
<1> HIDE DEF d, v, x
<1>5. /\ v \in Seq(Contract!Outcomes)
      /\ Contract!Streak(v, "failure", Config[p].failure_threshold) <=> d.state = "Open"
      /\ d.state # "Open" => d.state = "Closed" /\ CountsTheRun(p, d, v)
      /\ d.state = "Open" => x = "failure" /\ d = RecordFailure(b, Config[p])
    <2>1. CASE x = "success" /\ d = RecordSuccess(b, Config[p])
        <3>1. /\ v \in Seq(Contract!Outcomes) /\ Len(v) # 0 /\ v[Len(v)] = "success"
              /\ d.state = "Closed" /\ CountsTheRun(p, d, v)
            BY <1>1, <1>3, <1>4, <2>1, ClosedHearsSuccess
        <3>2. v[Len(v)] # "failure"
            BY <3>1
        <3>3. ~Contract!Streak(v, "failure", Config[p].failure_threshold)
            BY <1>1, <3>1, <3>2, LastBreaksStreak
        <3> QED
            BY <3>1, <3>3
    <2>2. CASE x = "failure" /\ d = RecordFailure(b, Config[p])
        <3>1. /\ v \in Seq(Contract!Outcomes)
              /\ Contract!Streak(v, x, Config[p].failure_threshold) <=> d.state = "Open"
              /\ d.state # "Open" => d.state = "Closed" /\ CountsTheRun(p, d, v)
            BY <1>1, <1>3, <1>4, <2>2, ClosedHearsFailure
        <3> QED
            BY <2>2, <3>1
    <2> QED
        BY <1>3, <2>1, <2>2
<1>6. Gates[p] = "Closed" /\ Waits[p] = 0
    BY DEF Gates, Waits, WaitOf
<1>7. CASE d.state = "Open"
    <2>1. window' = [window EXCEPT ![p] = <<>>]
        BY <1>2, <1>7 DEF HReport, Forget
    <2>2. HInv'
        <3>1. <<>> \in Seq(Contract!Outcomes) /\ CountsTheRun(p, d, <<>>)
            BY <1>7, FreshHistory
        <3> QED
            BY <1>2, <2>1, <3>1, OneHistory
    <2>3. WaitOf(d) = 0
        <3>1. d.last_failure = 0
            BY <1>1, <1>5, <1>7, ConfigAssumption, Recorded DEF Good
        <3> QED
            BY <3>1 DEF WaitOf
    <2>4. Gates' = [Gates EXCEPT ![p] = "Open"] /\ Waits' = [Waits EXCEPT ![p] = 0]
        <3>1. Gates' = [Gates EXCEPT ![p] = d.state] /\ Waits' = [Waits EXCEPT ![p] = WaitOf(d)]
            BY <1>1, <1>2, OneBreaker
        <3> QED
            BY <1>7, <2>3, <3>1
    <2>5. Contract!HearWhileClosed(p, x)
        BY <1>4, <1>5, <1>6, <1>7, <2>1, <2>4 DEF Contract!HearWhileClosed, Contract!Turn
    <2> QED
        BY <1>3, <2>2, <2>5 DEF ContractStep, Contract!Next
<1>8. CASE d.state # "Open"
    <2>1. d.state = "Closed" /\ CountsTheRun(p, d, v)
        BY <1>5, <1>8
    <2>2. window' = [window EXCEPT ![p] = v]
        BY <1>2, <1>4, <2>1 DEF HReport, x
    <2>3. HInv'
        BY <1>2, <1>5, <2>1, <2>2, OneHistory
    <2>4. Gates' = Gates /\ Waits' = Waits
        <3>1. WaitOf(d) = 0
            BY <2>1 DEF WaitOf
        <3>2. Gates' = [Gates EXCEPT ![p] = d.state] /\ Waits' = [Waits EXCEPT ![p] = WaitOf(d)]
            BY <1>1, <1>2, OneBreaker
        <3>3. Gates' = [Gates EXCEPT ![p] = "Closed"] /\ Waits' = [Waits EXCEPT ![p] = 0]
            BY <2>1, <3>1, <3>2
        <3> QED
            BY <1>6, <3>3 DEF Gates, Waits
    <2>5. Contract!HearWhileClosed(p, x)
        BY <1>4, <1>5, <1>6, <1>8, <2>2, <2>4 DEF Contract!HearWhileClosed, Contract!Stay
    <2> QED
        BY <1>3, <2>3, <2>5 DEF ContractStep, Contract!Next
<1> QED
    BY <1>7, <1>8

\* report_result reaches a half-open breaker: the contract hears it too.
LEMMA HalfOpenReportStep ==
    ASSUME HInv, IInv', NEW p \in Registered, NEW is_success \in BOOLEAN,
           HReport(p, is_success), breakers[p].state = "HalfOpen"
    PROVE  HInv' /\ ContractStep
<1> DEFINE b == breakers[p]
           x == Outcome(is_success)
           d == IF is_success THEN RecordSuccess(b, Config[p])
                              ELSE RecordFailure(b, Config[p])
           v == Contract!Recent(p, window[p], x)
<1>1. /\ breakers \in [Registered -> Breaker]
      /\ Good(b, Config[p])
      /\ window \in [Registered -> Seq(Contract!Outcomes)] /\ window[p] \in Seq(Contract!Outcomes)
      /\ CountsTheRun(p, b, window[p])
      /\ Config[p] \in BreakerConfig
    BY AtOneBreaker, ConfigAssumption
<1>2. breakers' = [breakers EXCEPT ![p] = d] /\ breakers'[p] = d
    BY <1>1 DEF HReport, Report
<1>3. /\ x \in Contract!Outcomes
      /\ \/ x = "success" /\ d = RecordSuccess(b, Config[p])
         \/ x = "failure" /\ d = RecordFailure(b, Config[p])
    BY DEF Outcome, Contract!Outcomes
<1>4. v = Contract!Recent(p, window[p], x)
    OBVIOUS
<1> HIDE DEF d, v, x
<1>5. Gates[p] = "HalfOpen" /\ Waits[p] = 0
    BY DEF Gates, Waits, WaitOf
<1>6. Gates' = [Gates EXCEPT ![p] = d.state] /\ Waits' = [Waits EXCEPT ![p] = WaitOf(d)]
    BY <1>1, <1>2, OneBreaker
<1>7. CASE x = "failure" /\ d = RecordFailure(b, Config[p])
    <2>1. d.state = "Open" /\ d.last_failure = 0
        BY <1>1, <1>7, Recorded DEF Good
    <2>2. window' = [window EXCEPT ![p] = <<>>]
        BY <1>2, <2>1 DEF HReport, Forget
    <2>3. HInv'
        <3>1. <<>> \in Seq(Contract!Outcomes) /\ CountsTheRun(p, d, <<>>)
            BY <2>1, FreshHistory
        <3> QED
            BY <1>2, <2>2, <3>1, OneHistory
    <2>4. WaitOf(d) = 0
        BY <2>1 DEF WaitOf
    <2>5. Contract!HearWhileHalfOpen(p, x)
        BY <1>5, <1>6, <1>7, <2>1, <2>2, <2>4 DEF Contract!HearWhileHalfOpen, Contract!Turn
    <2> QED
        BY <1>3, <2>3, <2>5 DEF ContractStep, Contract!Next
<1>8. CASE x = "success" /\ d = RecordSuccess(b, Config[p])
    <2>1. /\ v \in Seq(Contract!Outcomes)
          /\ Contract!Streak(v, x, Config[p].success_threshold) <=> d.state = "Closed"
          /\ d.state # "Closed" => d.state = "HalfOpen" /\ CountsTheRun(p, d, v)
        BY <1>1, <1>3, <1>4, <1>8, HalfOpenHearsSuccess
    <2>2. WaitOf(d) = 0
        BY <2>1 DEF WaitOf
    <2>3. CASE d.state = "Closed"
        <3>1. window' = [window EXCEPT ![p] = <<>>]
            BY <1>2, <2>3 DEF HReport, Forget
        <3>2. d.failure_count = 0
            <4>1. ~(b.success_count + 1 < Config[p].success_threshold)
                BY <1>1, <1>8, <2>3, Recorded DEF Good
            <4>2. b.success_count + 1 >= Config[p].success_threshold
                BY <1>1, <4>1 DEF Good, Breaker, BreakerConfig
            <4> QED
                BY <1>1, <1>8, <4>2, Recorded DEF Good
        <3>3. HInv'
            <4>1. <<>> \in Seq(Contract!Outcomes) /\ CountsTheRun(p, d, <<>>)
                BY <2>3, <3>2, FreshHistory
            <4> QED
                BY <1>2, <3>1, <4>1, OneHistory
        <3>4. Contract!HearWhileHalfOpen(p, x)
            BY <1>4, <1>5, <1>6, <1>8, <2>1, <2>2, <2>3, <3>1
            DEF Contract!HearWhileHalfOpen, Contract!Turn
        <3> QED
            BY <1>3, <3>3, <3>4 DEF ContractStep, Contract!Next
    <2>4. CASE d.state # "Closed"
        <3>1. d.state = "HalfOpen" /\ CountsTheRun(p, d, v)
            BY <2>1, <2>4
        <3>2. window' = [window EXCEPT ![p] = v]
            BY <1>2, <1>4, <3>1 DEF HReport, x
        <3>3. HInv'
            BY <1>2, <2>1, <3>1, <3>2, OneHistory
        <3>4. Gates' = Gates /\ Waits' = Waits
            <4>1. Gates' = [Gates EXCEPT ![p] = "HalfOpen"] /\ Waits' = [Waits EXCEPT ![p] = 0]
                BY <1>6, <2>2, <3>1
            <4> QED
                BY <1>5, <4>1 DEF Gates, Waits
        <3>5. Contract!HearWhileHalfOpen(p, x)
            BY <1>4, <1>5, <1>8, <2>1, <2>4, <3>2, <3>4
            DEF Contract!HearWhileHalfOpen, Contract!Stay
        <3> QED
            BY <1>3, <3>3, <3>5 DEF ContractStep, Contract!Next
    <2> QED
        BY <2>3, <2>4
<1> QED
    BY <1>3, <1>7, <1>8

\* report_result finds the breaker open: the late report changes nothing.
LEMMA OpenReportStep ==
    ASSUME HInv, IInv', NEW p \in Registered, NEW is_success \in BOOLEAN,
           HReport(p, is_success), breakers[p].state = "Open"
    PROVE  HInv' /\ ContractStep
<1>1. /\ breakers \in [Registered -> Breaker]
      /\ Config[p] \in BreakerConfig
    BY AtOneBreaker, ConfigAssumption
<1>2. /\ RecordSuccess(breakers[p], Config[p]) = breakers[p]
      /\ RecordFailure(breakers[p], Config[p]) = breakers[p]
    BY <1>1, Recorded
<1>3. breakers' = breakers
    BY <1>1, <1>2 DEF HReport, Report
<1>4. UNCHANGED window
    BY <1>3 DEF HReport
<1> QED
    BY <1>3, <1>4, NothingSeen

\* Time passes for the contract as it does for the breakers.
LEMMA ElapseStep ==
    ASSUME HInv, IInv', Elapse, UNCHANGED window
    PROVE  HInv' /\ ContractStep
<1>1. ASSUME NEW p \in Registered
      PROVE  /\ breakers'[p].state = breakers[p].state
             /\ breakers'[p].failure_count = breakers[p].failure_count
             /\ breakers'[p].success_count = breakers[p].success_count
             /\ WaitOf(breakers'[p]) =
                    IF breakers[p].state = "Open"
                       /\ WaitOf(breakers[p]) < Config[p].timeout_secs
                    THEN WaitOf(breakers[p]) + 1 ELSE WaitOf(breakers[p])
    <2>1. Good(breakers[p], Config[p]) /\ Config[p] \in BreakerConfig
        BY AtOneBreaker, ConfigAssumption
    <2>2. breakers'[p] = Aged(breakers[p], Config[p])
        BY DEF Elapse
    <2> QED
        BY <2>1, <2>2, NoneAssumption
        DEF Aged, WaitOf, Good, Stamped, Breaker, BreakerConfig
<1>2. HInv'
    <2>1. ASSUME NEW p \in Registered PROVE CountsTheRun(p, breakers'[p], window'[p])
        BY <1>1, AtOneBreaker DEF CountsTheRun
    <2> QED
        BY <2>1 DEF HInv, CountersTellHistory, CountsTheRun
<1>3. Gates' = Gates
    BY <1>1 DEF Gates
<1>4. Waits' = [p \in Registered |->
                    IF Gates[p] = "Open" /\ Waits[p] < Config[p].timeout_secs
                    THEN Waits[p] + 1 ELSE Waits[p]]
    BY <1>1 DEF Gates, Waits
<1>5. Contract!Pass
    BY <1>3, <1>4 DEF Contract!Pass
<1> QED
    BY <1>2, <1>5 DEF ContractStep, Contract!Next

\* Every step of the breakers with their history keeps HInv, and is a step of
\* the contract or invisible to it.
LEMMA HNextStep ==
    ASSUME HInv, [HNext]_hvars
    PROVE  HInv' /\ ContractStep
<1>1. IInv'
    BY NextIInv DEF HInv, HNext, HAdmit, HReport, Next, hvars, vars
<1>2. ASSUME NEW p \in Registered, HAdmit(p) PROVE HInv' /\ ContractStep
    BY <1>1, <1>2, AdmitStep
<1>3. ASSUME NEW n \in Names, Refuse(n), UNCHANGED window PROVE HInv' /\ ContractStep
    BY <1>1, <1>3, NothingSeen DEF Refuse, vars
<1>4. ASSUME NEW p \in Registered, NEW is_success \in BOOLEAN, HReport(p, is_success)
      PROVE  HInv' /\ ContractStep
    <2>1. breakers[p].state \in {"Closed", "Open", "HalfOpen"}
        BY AtOneBreaker DEF Breaker, BreakerStates
    <2> QED
        BY <1>1, <1>4, <2>1, ClosedReportStep, HalfOpenReportStep, OpenReportStep
<1>5. ASSUME NEW p \in Registered, Abandon(p), UNCHANGED window
      PROVE  HInv' /\ ContractStep
    BY <1>1, <1>5, NothingSeen DEF Abandon
<1>6. CASE Elapse /\ UNCHANGED window
    BY <1>1, <1>6, ElapseStep
<1>7. CASE UNCHANGED hvars
    BY <1>1, <1>7, NothingSeen DEF hvars
<1> QED
    BY <1>2, <1>3, <1>4, <1>5, <1>6, <1>7 DEF HNext

\* The counters of every breaker agree with what was reported to it since its
\* state last changed.
THEOREM CountersAgree == HSpec => []CountersTellHistory
<1>1. HInv /\ [HNext]_hvars => HInv'
    BY HNextStep
<1>2. HInv => CountersTellHistory
    BY DEF HInv
<1> QED
    BY HInitInv, <1>1, <1>2, PTL DEF HSpec

\* ProviderManager's breakers implement the contract: they trip on a run of
\* failures only, stay shut for the whole wait and close on a run of successes
\* only, whatever order concurrent callers ask, answer and vanish in.
THEOREM Refinement == HSpec => ImplementsContract
<1>1. HInv /\ [HNext]_hvars => HInv'
    BY HNextStep
<1>2. HInv /\ [HNext]_hvars => [Contract!Next]_(Contract!vars)
    BY HNextStep DEF ContractStep, Contract!vars
<1> QED
    BY HInitInv, HInitContract, <1>1, <1>2, PTL
    DEF HSpec, ImplementsContract, Contract!Spec

=============================================================================
