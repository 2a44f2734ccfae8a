----------------------------- MODULE ChatProofs -----------------------------
(***************************************************************************)
(* What holds of the chat route for any providers, prices, breaker         *)
(* configurations and any number of concurrent requests.                   *)
(*                                                                         *)
(* First the ranking: that it is a sorted selection of the candidates is   *)
(* the one fact about prices that the route depends on.  Then the requests *)
(* one by one: how far each is says what is written of it, and the books   *)
(* are sums of that.  Then the words: what a request was sent and what its *)
(* answer became, for chats of any length.  Last the streams: what of a    *)
(* body has been given to the client, for bodies of any length that are    *)
(* cut into any reads.                                                     *)
(***************************************************************************)
EXTENDS ApiServer, WireProperties, ClientProofs

-----------------------------------------------------------------------------
(* The ranking.                                                            *)

LEMMA CostType ==
    ASSUME NEW k
    PROVE  CalculateCost(k) \in Nat
<1> DEFINE matching == {i \in 1 .. Len(Tiers) : k \in Tiers[i].keys}
           first == CHOOSE i \in matching : \A j \in matching : i <= j
<1>0. \A i \in 1 .. Len(Tiers) : Tiers[i].cost \in Nat
    <2> DEFINE Tier == [keys : SUBSET Keys, cost : Nat]
    <2>1. \A i \in 1 .. Len(Tiers) : Tiers[i] \in Tier
        <3>1. Tiers \in Seq(Tier)
            BY TiersAssumption
        <3> HIDE DEF Tier
        <3> QED
            BY <3>1
    <2> QED
        BY <2>1
<1>1. CASE matching = {}
    BY <1>1 DEF CalculateCost
<1>2. CASE matching # {}
    <2>1. matching \in SUBSET Nat
        OBVIOUS
    <2>2. \E i \in matching : \A j \in matching : i <= j
        BY ONLY <1>2, <2>1, LeastPlace
    <2>3. first \in matching
        BY <2>2
    <2>4. first \in 1 .. Len(Tiers)
        BY <2>3
    <2>5. Tiers[first].cost \in Nat
        BY <1>0, <2>4
    <2> QED
        BY <1>2, <2>5 DEF CalculateCost
<1> QED
    BY <1>1, <1>2

\* Who is left of the candidates, and who of them comes before one.
Kept(candidates, stats) ==
    {i \in 1 .. Len(candidates) : ~Excluded(stats[candidates[i]])}

Ahead(candidates, stats, i) ==
    {j \in Kept(candidates, stats) : RanksBefore(candidates, j, i)}

RankOf(candidates, stats, i) == 1 + Cardinality(Ahead(candidates, stats, i))

\* The ranking is a strict total order.
LEMMA RankingIsAnOrder ==
    ASSUME NEW candidates, NEW i \in Nat, NEW j \in Nat, NEW k \in Nat
    PROVE  /\ ~RanksBefore(candidates, i, i)
           /\ i # j => RanksBefore(candidates, i, j) \/ RanksBefore(candidates, j, i)
           /\ RanksBefore(candidates, i, j) /\ RanksBefore(candidates, j, k)
                => RanksBefore(candidates, i, k)
<1>1. /\ CalculateCost(candidates[i]) \in Nat
      /\ CalculateCost(candidates[j]) \in Nat
      /\ CalculateCost(candidates[k]) \in Nat
    BY CostType
<1> QED
    BY <1>1 DEF RanksBefore

\* The candidates that the error filter keeps are finitely many.
LEMMA KeptFinite ==
    ASSUME NEW candidates \in Seq(Keys), NEW stats
    PROVE  /\ Kept(candidates, stats) \subseteq 1 .. Len(candidates)
           /\ Kept(candidates, stats) \subseteq Nat
           /\ IsFiniteSet(Kept(candidates, stats))
           /\ Cardinality(Kept(candidates, stats)) \in Nat
           /\ \A i : /\ IsFiniteSet(Ahead(candidates, stats, i))
                     /\ Cardinality(Ahead(candidates, stats, i)) \in Nat
<1>1. Kept(candidates, stats) \subseteq 1 .. Len(candidates)
    BY DEF Kept
<1>2. Len(candidates) \in Nat
    OBVIOUS
<1>3. IsFiniteSet(1 .. Len(candidates))
    BY <1>2, FS_Interval
<1>4. IsFiniteSet(Kept(candidates, stats))
    BY <1>1, <1>3, FS_Subset
<1>5. \A i : Ahead(candidates, stats, i) \in SUBSET Kept(candidates, stats)
    BY DEF Ahead
<1>6. \A i : IsFiniteSet(Ahead(candidates, stats, i))
    BY <1>4, <1>5, FS_Subset
<1> QED
    BY <1>1, <1>2, <1>4, <1>6, FS_CardinalityType

\* Who comes before another has the lower rank.
LEMMA RankFollowsOrder ==
    ASSUME NEW candidates \in Seq(Keys), NEW stats,
           NEW i \in Kept(candidates, stats), NEW j \in Kept(candidates, stats),
           RanksBefore(candidates, i, j)
    PROVE  RankOf(candidates, stats, i) < RankOf(candidates, stats, j)
<1> DEFINE A == Ahead(candidates, stats, i)
           B == Ahead(candidates, stats, j)
<1>1. i \in Nat /\ j \in Nat /\ Kept(candidates, stats) \subseteq Nat
    BY KeptFinite
<1>2. IsFiniteSet(A) /\ IsFiniteSet(B) /\ Cardinality(A) \in Nat /\ Cardinality(B) \in Nat
    BY KeptFinite
<1>3. A \subseteq B
    BY <1>1, RankingIsAnOrder DEF Ahead
<1>4. i \in B /\ i \notin A
    BY <1>1, RankingIsAnOrder DEF Ahead
<1>5. Cardinality(A) <= Cardinality(B) /\ Cardinality(A) # Cardinality(B)
    BY <1>2, <1>3, <1>4, FS_Subset
<1> QED
    BY <1>2, <1>5 DEF RankOf

\* A rank is a place in the ranking.
LEMMA RankInRange ==
    ASSUME NEW candidates \in Seq(Keys), NEW stats, NEW i \in Kept(candidates, stats)
    PROVE  RankOf(candidates, stats, i) \in 1 .. Cardinality(Kept(candidates, stats))
<1> DEFINE K == Kept(candidates, stats)
<1>1. K \subseteq Nat /\ IsFiniteSet(K) /\ Cardinality(K) \in Nat
    BY KeptFinite
<1>2. i \notin Ahead(candidates, stats, i)
    BY <1>1, RankingIsAnOrder DEF Ahead
<1>3. Ahead(candidates, stats, i) \subseteq K
    BY DEF Ahead
<1>4. /\ Cardinality(Ahead(candidates, stats, i)) <= Cardinality(K)
      /\ Cardinality(Ahead(candidates, stats, i)) # Cardinality(K)
    BY <1>1, <1>2, <1>3, FS_Subset
<1>5. Cardinality(Ahead(candidates, stats, i)) \in Nat
    BY KeptFinite
<1> QED
    BY <1>1, <1>4, <1>5 DEF RankOf

\* No two candidates have the same rank.
LEMMA RankTellsApart ==
    ASSUME NEW candidates \in Seq(Keys), NEW stats,
           NEW i \in Kept(candidates, stats), NEW j \in Kept(candidates, stats),
           RankOf(candidates, stats, i) = RankOf(candidates, stats, j)
    PROVE  i = j
<1> SUFFICES ASSUME i # j PROVE FALSE
    OBVIOUS
<1>1. i \in Nat /\ j \in Nat
    BY KeptFinite
<1>2. RanksBefore(candidates, i, j) \/ RanksBefore(candidates, j, i)
    BY <1>1, RankingIsAnOrder
<1>3. \/ RankOf(candidates, stats, i) < RankOf(candidates, stats, j)
      \/ RankOf(candidates, stats, j) < RankOf(candidates, stats, i)
    BY <1>2, RankFollowsOrder
<1>4. Cardinality(Kept(candidates, stats)) \in Nat
    BY KeptFinite
<1>5. RankOf(candidates, stats, i) \in Nat
    BY <1>4, RankInRange
<1> QED
    BY <1>3, <1>5

\* Every place is taken, by one candidate.
LEMMA RanksAreTaken ==
    ASSUME NEW candidates \in Seq(Keys), NEW stats,
           NEW n \in 1 .. Cardinality(Kept(candidates, stats))
    PROVE  \E i \in Kept(candidates, stats) : RankOf(candidates, stats, i) = n
<1> DEFINE K == Kept(candidates, stats)
           N == 1 .. Cardinality(K)
           f == [i \in K |-> RankOf(candidates, stats, i)]
<1>1. IsFiniteSet(K) /\ Cardinality(K) \in Nat
    BY KeptFinite
<1>2. \A i \in K : RankOf(candidates, stats, i) \in N
    BY RankInRange
<1>3. \A i, j \in K : f[i] = f[j] => i = j
    BY RankTellsApart
<1>4. f \in Injection(K, N)
    BY <1>2, <1>3 DEF Injection, IsInjective
<1>5. IsFiniteSet(N) /\ Cardinality(N) = Cardinality(K)
    BY <1>1, FS_Interval
<1>6. f \in Surjection(K, N)
    BY <1>4, <1>5, FS_Injection
<1> QED
    BY <1>6 DEF Surjection

LEMMA PlaceOf ==
    ASSUME NEW candidates \in Seq(Keys), NEW stats,
           NEW n \in 1 .. Cardinality(Kept(candidates, stats))
    PROVE  \E i \in Kept(candidates, stats) :
                /\ RankOf(candidates, stats, i) = n
                /\ SelectCandidates(candidates, stats)[n] = candidates[i]
<1> DEFINE place == CHOOSE i \in Kept(candidates, stats) :
                        RankOf(candidates, stats, i) = n
<1>1. place \in Kept(candidates, stats) /\ RankOf(candidates, stats, place) = n
    BY RanksAreTaken
<1>2. SelectCandidates(candidates, stats)[n] = candidates[place]
    BY DEF SelectCandidates, Kept, Ahead, RankOf
<1> QED
    BY <1>1, <1>2

\* What select_candidates returns: all candidates that are not excluded, none
\* that is, and no one dearer before one cheaper.
THEOREM CheapestFirst ==
    ASSUME NEW candidates \in Seq(Keys), NEW stats
    PROVE  LET ranked == SelectCandidates(candidates, stats) IN
           /\ ranked \in Seq({k \in Keys : ~Excluded(stats[k])})
           /\ \A n \in 1 .. Len(ranked) :
                \E i \in 1 .. Len(candidates) : ranked[n] = candidates[i]
           /\ \A i \in 1 .. Len(candidates) :
                ~Excluded(stats[candidates[i]]) =>
                    \E n \in 1 .. Len(ranked) : ranked[n] = candidates[i]
           /\ \A m, n \in 1 .. Len(ranked) :
                m < n => CalculateCost(ranked[m]) <= CalculateCost(ranked[n])
<1> DEFINE K == Kept(candidates, stats)
           N == Cardinality(K)
           ranked == SelectCandidates(candidates, stats)
           Good == {k \in Keys : ~Excluded(stats[k])}
<1>1. K \subseteq 1 .. Len(candidates) /\ K \subseteq Nat /\ IsFiniteSet(K) /\ N \in Nat
    BY KeptFinite
<1>2. \A i \in K : candidates[i] \in Good
    BY <1>1 DEF Kept
<1>3. ranked = [n \in 1 .. N |-> ranked[n]]
    BY DEF SelectCandidates, Kept
<1>4. \A n \in 1 .. N : \E i \in K :
            RankOf(candidates, stats, i) = n /\ ranked[n] = candidates[i]
    BY PlaceOf
<1> HIDE DEF K, N, ranked, Good
<1>5. \A n \in 1 .. N : ranked[n] \in Good
    BY <1>2, <1>4
<1>6. ranked \in Seq(Good) /\ Len(ranked) = N
    BY <1>1, <1>3, <1>5
<1>7. \A n \in 1 .. Len(ranked) :
        \E i \in 1 .. Len(candidates) : ranked[n] = candidates[i]
    BY <1>1, <1>4, <1>6
<1>8. ASSUME NEW i \in 1 .. Len(candidates), ~Excluded(stats[candidates[i]])
      PROVE  \E n \in 1 .. Len(ranked) : ranked[n] = candidates[i]
    <2>1. i \in K
        BY <1>8 DEF K, Kept
    <2>2. PICK n \in 1 .. N : RankOf(candidates, stats, i) = n
        BY <2>1, RankInRange DEF K, N
    <2>3. PICK j \in K : RankOf(candidates, stats, j) = n /\ ranked[n] = candidates[j]
        BY <1>4
    <2>4. i = j
        BY <2>1, <2>2, <2>3, RankTellsApart DEF K
    <2> QED
        BY <1>6, <2>3, <2>4
<1>9. ASSUME NEW m \in 1 .. Len(ranked), NEW n \in 1 .. Len(ranked), m < n
      PROVE  CalculateCost(ranked[m]) <= CalculateCost(ranked[n])
    <2>1. PICK i \in K : RankOf(candidates, stats, i) = m /\ ranked[m] = candidates[i]
        BY <1>4, <1>6
    <2>2. PICK j \in K : RankOf(candidates, stats, j) = n /\ ranked[n] = candidates[j]
        BY <1>4, <1>6
    <2>3. i # j /\ i \in Nat /\ j \in Nat /\ m \in Nat /\ n \in Nat
        BY <1>1, <1>6, <1>9, <2>1, <2>2
    <2>4. ~RanksBefore(candidates, j, i)
        <3> SUFFICES ASSUME RanksBefore(candidates, j, i) PROVE FALSE
            OBVIOUS
        <3>1. RankOf(candidates, stats, j) < RankOf(candidates, stats, i)
            BY RankFollowsOrder DEF K
        <3> QED
            BY <1>9, <2>1, <2>2, <2>3, <3>1
    <2>5. RanksBefore(candidates, i, j)
        BY <2>3, <2>4, RankingIsAnOrder
    <2>6. CalculateCost(candidates[i]) \in Nat /\ CalculateCost(candidates[j]) \in Nat
        BY CostType
    <2> QED
        BY <2>1, <2>2, <2>5, <2>6 DEF RanksBefore
<1> QED
    BY <1>6, <1>7, <1>8, <1>9 DEF ranked, Good

-----------------------------------------------------------------------------
(* The breakers.                                                           *)

LEMMA NewBreakerType == NewBreaker \in Breaker
    BY DEF NewBreaker, Breaker, BreakerStates

\* The operations of a breaker keep it a breaker.
LEMMA BreakerTypes ==
    ASSUME NEW b \in Breaker, NEW c \in BreakerConfig
    PROVE  /\ RecordSuccess(b, c) \in Breaker
           /\ RecordFailure(b, c) \in Breaker
           /\ AfterCanAttempt(b, c) \in Breaker
           /\ Aged(b, c) \in Breaker
<1> USE NoneAssumption DEF Breaker, BreakerStates
<1>1. RecordSuccess(b, c) \in Breaker
    <2>1. PICK d \in {b, [b EXCEPT !.failure_count = 0],
                      [b EXCEPT !.state = "Closed", !.failure_count = 0, !.success_count = 0],
                      [b EXCEPT !.success_count = @ + 1]} : RecordSuccess(b, c) = d
        <3>1. CASE b.state = "Closed"
            BY <3>1 DEF RecordSuccess
        <3>2. CASE b.state = "HalfOpen"
            <4>1. b.success_count \in Nat /\ c.success_threshold \in Nat
                BY DEF BreakerConfig
            <4>2. CASE b.success_count + 1 >= c.success_threshold
                BY <3>2, <4>1, <4>2 DEF RecordSuccess
            <4>3. CASE b.success_count + 1 < c.success_threshold
                <5>1. ~(b.success_count + 1 >= c.success_threshold)
                    BY <4>1, <4>3
                <5> QED
                    BY <3>2, <4>3, <5>1 DEF RecordSuccess
            <4> QED
                BY <4>1, <4>2, <4>3
        <3>3. CASE b.state = "Open"
            BY <3>3 DEF RecordSuccess
        <3> QED
            BY <3>1, <3>2, <3>3
    <2>2. [b EXCEPT !.state = "Closed", !.failure_count = 0, !.success_count = 0] \in Breaker
        <3> DEFINE e == [b EXCEPT !.state = "Closed", !.failure_count = 0, !.success_count = 0]
        <3>1. /\ e = [k \in DOMAIN b |-> e[k]]
              /\ DOMAIN b = {"state", "failure_count", "success_count", "last_failure"}
            OBVIOUS
        <3>2. /\ e.state = "Closed" /\ e.failure_count = 0 /\ e.success_count = 0
              /\ e.last_failure = b.last_failure
            OBVIOUS
        <3> HIDE DEF e
        <3> QED
            BY <3>1, <3>2
    <2>3. CASE d = b \/ d = [b EXCEPT !.failure_count = 0]
        BY <2>1, <2>3
    <2>4. CASE d = [b EXCEPT !.success_count = @ + 1]
        BY <2>1, <2>4
    <2>5. CASE d = [b EXCEPT !.state = "Closed", !.failure_count = 0, !.success_count = 0]
        BY <2>1, <2>2, <2>5
    <2> QED
        BY <2>1, <2>3, <2>4, <2>5
<1>2. RecordFailure(b, c) \in Breaker
    <2>1. CASE b.state = "Closed"
        <3> DEFINE state == IF b.failure_count + 1 >= c.failure_threshold
                            THEN "Open" ELSE "Closed"
        <3>1. RecordFailure(b, c) =
                [state |-> state, failure_count |-> b.failure_count + 1,
                 success_count |-> b.success_count, last_failure |-> 0]
            BY <2>1 DEF RecordFailure
        <3>2. state \in BreakerStates
            OBVIOUS
        <3> HIDE DEF state
        <3> QED
            BY <3>1, <3>2
    <2>2. CASE b.state = "HalfOpen"
        <3>1. RecordFailure(b, c) =
                [state |-> "Open", failure_count |-> 1, success_count |-> 0, last_failure |-> 0]
            BY <2>2 DEF RecordFailure
        <3> QED
            BY <3>1
    <2>3. CASE b.state = "Open"
        BY <2>3 DEF RecordFailure
    <2> QED
        BY <2>1, <2>2, <2>3
<1>3. AfterCanAttempt(b, c) \in Breaker
    BY DEF AfterCanAttempt
<1>4. Aged(b, c) \in Breaker
    BY DEF Aged
<1> QED
    BY <1>1, <1>2, <1>3, <1>4

-----------------------------------------------------------------------------
(* The inductive invariant.                                                *)

\* How far a request is, against what was written and told of it.
Fits(r) ==
    /\ req[r].phase \in {"new", "routing", "sending", "reporting", "answered", "auditing"} =>
        client[r] = "waiting" /\ audit[r] = << >>
    /\ req[r].phase \in {"sending", "reporting", "answered"} =>
        req[r].pos \in 1 .. Len(req[r].ranked)
    /\ req[r].phase \in {"sending", "reporting"} => Key(r).provider \in Registered
    /\ req[r].phase \in {"answered", "auditing", "audited", "orphaned"} => ~req[r].stream
    /\ req[r].phase = "answered" => req[r].ok
    /\ req[r].phase = "streaming" =>
        req[r].stream /\ client[r] = "sse" /\ audit[r] = << >>
    /\ req[r].phase = "audited" => client[r] = "waiting"
    /\ req[r].phase = "orphaned" => client[r] = "gone" /\ audit[r] = << >>
    /\ req[r].phase = "done" => client[r] # "waiting"
    /\ req[r].phase \in {"audited", "done"} =>
        audit[r] = << >> \/ (audit[r] = <<Row(r)>> /\ ~req[r].stream)

\* Counted, and what comes of it is still to be seen.
Pending(r) == req[r].phase \in {"auditing", "audited", "orphaned"}

Succeeded(r) ==
    /\ ~req[r].stream
    /\ \/ Pending(r) /\ req[r].ok
       \/ client[r] = "response"
       \/ audit[r] = <<"ResponseSent">>

Erred(r) ==
    /\ ~req[r].stream
    /\ \/ Pending(r) /\ ~req[r].ok
       \/ client[r] = "error"
       \/ audit[r] = <<"RequestFailed">>

Counted(r) == ~req[r].stream /\ (Pending(r) \/ req[r].phase = "done")

Successes(l) == {r \in AskedFor(l) : Succeeded(r)}
Failures(l) == {r \in AskedFor(l) : Erred(r)}
Settled(l) == {r \in AskedFor(l) : Counted(r)}

\* A request is counted before it is written or told of, and only once.
BooksFit ==
    \A l \in Labels :
        /\ Cardinality(Successes(l)) <= requests_total[l].success
        /\ Cardinality(Failures(l)) <= requests_total[l].error
        /\ requests_total[l].success + requests_total[l].error <= Cardinality(Settled(l))

IInv == TypeOK /\ BooksFit /\ \A r \in Requests : Fits(r)

\* What the books count is finite.
LEMMA SetsFinite ==
    ASSUME NEW l
    PROVE  /\ IsFiniteSet(Successes(l)) /\ IsFiniteSet(Failures(l)) /\ IsFiniteSet(Settled(l))
           /\ Cardinality(Successes(l)) \in Nat
           /\ Cardinality(Failures(l)) \in Nat
           /\ Cardinality(Settled(l)) \in Nat
<1>1. /\ Successes(l) \subseteq Requests /\ Failures(l) \subseteq Requests
      /\ Settled(l) \subseteq Requests
    BY DEF Successes, Failures, Settled, AskedFor
<1>2. IsFiniteSet(Requests)
    BY ChatAssumption
<1>3. IsFiniteSet(Successes(l)) /\ IsFiniteSet(Failures(l)) /\ IsFiniteSet(Settled(l))
    BY <1>1, <1>2, FS_Subset
<1> QED
    BY <1>3, FS_CardinalityType

\* The invariant holds at the start.
LEMMA InitIInv == Init => IInv
<1> SUFFICES ASSUME Init PROVE IInv
    OBVIOUS
<1>1. TypeOK
    <2>1. breakers \in [Registered -> Breaker]
        BY NewBreakerType DEF Init
    <2>2. qos \in [Keys -> QosStats]
        BY DEF Init, QosStats, NoStats
    <2>3. req \in [Requests -> Request]
        BY DEF Init, Request, Asks, Phases
    <2>4. /\ requests_total \in [Labels -> [success : Nat, error : Nat]]
          /\ client \in [Requests -> {"waiting", "response", "sse", "error", "gone", "limited"}]
        BY DEF Init
    <2>5. audit \in [Requests -> Seq({"ResponseSent", "RequestFailed"})]
        BY DEF Init
    <2> QED
        BY <2>1, <2>2, <2>3, <2>4, <2>5 DEF TypeOK
<1>2. \A r \in Requests : Fits(r)
    BY DEF Init, Fits
<1>3. ASSUME NEW l \in Labels
      PROVE  Successes(l) = {} /\ Failures(l) = {} /\ Settled(l) = {}
    BY DEF Init, AskedFor, Successes, Failures, Settled
<1>4. BooksFit
    <2>1. Cardinality({}) = 0
        BY FS_EmptySet
    <2>2. \A l \in Labels : requests_total[l].success = 0 /\ requests_total[l].error = 0
        BY DEF Init
    <2>3. \A l \in Labels :
            /\ Cardinality(Successes(l)) = 0 /\ Cardinality(Failures(l)) = 0
            /\ Cardinality(Settled(l)) = 0
        BY <1>3, <2>1
    <2> QED
        BY <2>2, <2>3 DEF BooksFit
<1> QED
    BY <1>1, <1>2, <1>4 DEF IInv

\* A step that counts nothing.
LEMMA BooksKept ==
    ASSUME IInv, NEW r \in Requests, UNCHANGED requests_total,
           \A q \in Requests : q # r => /\ req'[q] = req[q] /\ client'[q] = client[q]
                                        /\ audit'[q] = audit[q],
           \/ req[r].phase = "new" /\ ~Succeeded(r)' /\ ~Erred(r)'
           \/ /\ req[r].phase # "new" /\ req'[r].phase # "new"
              /\ client[r] # "limited" /\ client'[r] # "limited"
              /\ req'[r].ask = req[r].ask
              /\ Succeeded(r)' => Succeeded(r)
              /\ Erred(r)' => Erred(r)
              /\ Counted(r) => Counted(r)'
    PROVE  BooksFit'
<1>1. ASSUME NEW l \in Labels
      PROVE  /\ Successes(l)' \subseteq Successes(l)
             /\ Failures(l)' \subseteq Failures(l)
             /\ Settled(l) \subseteq Settled(l)'
    <2>1. \A q \in Requests : q # r =>
            /\ q \in AskedFor(l)' <=> q \in AskedFor(l)
            /\ Succeeded(q)' <=> Succeeded(q)
            /\ Erred(q)' <=> Erred(q)
            /\ Counted(q)' <=> Counted(q)
        BY DEF AskedFor, Succeeded, Erred, Counted, Pending
    <2>2. /\ r \in Successes(l)' => r \in Successes(l)
          /\ r \in Failures(l)' => r \in Failures(l)
          /\ r \in Settled(l) => r \in Settled(l)'
        BY DEF AskedFor, Successes, Failures, Settled
    <2> QED
        BY <2>1, <2>2 DEF AskedFor, Successes, Failures, Settled
<1> SUFFICES ASSUME NEW l \in Labels
             PROVE  /\ Cardinality(Successes(l)') <= requests_total[l].success
                    /\ Cardinality(Failures(l)') <= requests_total[l].error
                    /\ requests_total[l].success + requests_total[l].error
                          <= Cardinality(Settled(l)')
    BY DEF BooksFit
<1>2. IsFiniteSet(Successes(l)) /\ IsFiniteSet(Failures(l)) /\ IsFiniteSet(Settled(l)')
    <2>1. Settled(l)' \subseteq Requests
        BY DEF Settled, AskedFor
    <2>2. IsFiniteSet(Requests)
        BY ChatAssumption
    <2>3. IsFiniteSet(Settled(l)')
        BY <2>1, <2>2, FS_Subset
    <2> QED
        BY <2>3, SetsFinite
<1>3. IsFiniteSet(Successes(l)') /\ IsFiniteSet(Failures(l)') /\ IsFiniteSet(Settled(l))
    BY <1>1, <1>2, FS_Subset
<1>4. /\ Cardinality(Successes(l)') <= Cardinality(Successes(l))
      /\ Cardinality(Failures(l)') <= Cardinality(Failures(l))
      /\ Cardinality(Settled(l)) <= Cardinality(Settled(l)')
    BY <1>1, <1>2, FS_Subset
<1>5. /\ Cardinality(Successes(l)') \in Nat /\ Cardinality(Successes(l)) \in Nat
      /\ Cardinality(Failures(l)') \in Nat /\ Cardinality(Failures(l)) \in Nat
      /\ Cardinality(Settled(l)') \in Nat /\ Cardinality(Settled(l)) \in Nat
    BY <1>2, <1>3, FS_CardinalityType
<1>6. requests_total[l].success \in Nat /\ requests_total[l].error \in Nat
    BY DEF IInv, TypeOK
<1>7. /\ Cardinality(Successes(l)) <= requests_total[l].success
      /\ Cardinality(Failures(l)) <= requests_total[l].error
      /\ requests_total[l].success + requests_total[l].error <= Cardinality(Settled(l))
    BY DEF IInv, BooksFit
<1> HIDE DEF Successes, Failures, Settled
<1> QED
    BY <1>4, <1>5, <1>6, <1>7

-----------------------------------------------------------------------------
(* What each step does to its request; one lemma per action.               *)

\* Nothing of another request.
Alone(r) ==
    \A q \in Requests : q # r => /\ req'[q] = req[q] /\ client'[q] = client[q]
                                 /\ audit'[q] = audit[q]

\* The request is still the same request.
SameAsk(r) ==
    /\ req'[r].ask = req[r].ask /\ req'[r].stream = req[r].stream
    /\ req'[r].ranked = req[r].ranked

LEMMA AloneFits ==
    ASSUME IInv, NEW r \in Requests, Alone(r), Fits(r)'
    PROVE  \A q \in Requests : Fits(q)'
<1> SUFFICES ASSUME NEW q \in Requests, q # r PROVE Fits(q)'
    OBVIOUS
<1>1. Fits(q) /\ req'[q] = req[q] /\ client'[q] = client[q] /\ audit'[q] = audit[q]
    BY DEF IInv, Alone
<1> QED
    BY <1>1 DEF Fits, Key, Row

LEMMA ReceiveStep ==
    ASSUME IInv, NEW r \in Requests, NEW ask \in Asks, NEW stream \in BOOLEAN,
           Receive(r, ask, stream)
    PROVE  /\ UNCHANGED <<breakers, qos, requests_total, audit, client>>
           /\ Alone(r) /\ req[r].phase = "new"
           /\ req'[r].phase = "routing" /\ req'[r].pos = req[r].pos
           /\ req'[r].ask = ask /\ req'[r].stream = stream
           /\ req'[r].ranked =
                SelectCandidates(IF ask = AutoName THEN AutoChain ELSE <<ask>>, qos)
           /\ req' \in [Requests -> Request]
<1> DEFINE candidates == IF ask = AutoName THEN AutoChain ELSE <<ask>>
           ranked == SelectCandidates(candidates, qos)
<1>1. TypeOK
    BY DEF IInv
<1>2. candidates \in Seq(Keys)
    BY ChatAssumption DEF Asks
<1>3. ranked \in Seq(Keys)
    <2>1. ranked \in Seq({k \in Keys : ~Excluded(qos[k])})
        BY <1>2, CheapestFirst
    <2> HIDE DEF ranked
    <2> QED
        BY <2>1
<1>4. /\ UNCHANGED <<breakers, qos, requests_total, audit, client>>
      /\ req[r].phase = "new"
      /\ req' = [req EXCEPT ![r] =
                    [@ EXCEPT !.phase = "routing", !.ask = ask, !.stream = stream,
                              !.ranked = ranked]]
    BY DEF Receive
<1> HIDE DEF ranked
<1>5. req \in [Requests -> Request]
    BY <1>1 DEF TypeOK
<1>6. /\ req'[r].phase = "routing" /\ req'[r].pos = req[r].pos
      /\ req'[r].ask = ask /\ req'[r].stream = stream
      /\ req'[r].ranked = ranked
      /\ req' \in [Requests -> Request]
    BY <1>3, <1>4, <1>5 DEF Request, Phases
<1>7. Alone(r)
    BY <1>4, <1>5 DEF Alone
<1> QED
    BY <1>4, <1>6, <1>7 DEF ranked

LEMMA RefuseStep ==
    ASSUME IInv, NEW r \in Requests, Refuse(r)
    PROVE  /\ UNCHANGED <<breakers, qos, requests_total, audit>>
           /\ Alone(r) /\ SameAsk(r) /\ req[r].phase = "new"
           /\ req'[r].phase = "done" /\ req'[r].pos = req[r].pos
           /\ client'[r] = "limited"
           /\ TypeOK'
<1>1. req \in [Requests -> Request] /\ client \in [Requests -> {"waiting", "response",
        "sse", "error", "gone", "limited"}] /\ TypeOK
    BY DEF IInv, TypeOK
<1>2. /\ req' \in [Requests -> Request] /\ SameAsk(r) /\ req'[r].phase = "done"
      /\ req'[r].pos = req[r].pos
    BY <1>1 DEF Refuse, Request, Phases, SameAsk
<1>3. /\ UNCHANGED <<breakers, qos, requests_total, audit>>
      /\ Alone(r) /\ req[r].phase = "new" /\ client'[r] = "limited"
      /\ client' \in [Requests -> {"waiting", "response", "sse", "error", "gone", "limited"}]
    BY <1>1 DEF Refuse, Alone
<1> QED
    BY <1>1, <1>2, <1>3 DEF TypeOK

LEMMA CallStep ==
    ASSUME IInv, NEW r \in Requests, Call(r)
    PROVE  /\ UNCHANGED <<qos, requests_total, audit, client>>
           /\ Alone(r) /\ SameAsk(r) /\ req[r].phase = "routing"
           /\ req'[r].phase = "sending" /\ req'[r].pos = req[r].pos
           /\ req[r].pos \in 1 .. Len(req[r].ranked)
           /\ Key(r).provider \in Registered
           /\ TypeOK'
<1>1. /\ req \in [Requests -> Request] /\ breakers \in [Registered -> Breaker] /\ TypeOK
      /\ Config \in [Registered -> BreakerConfig]
    BY ChatAssumption DEF IInv, TypeOK
<1>2. /\ req' \in [Requests -> Request] /\ SameAsk(r) /\ req'[r].phase = "sending"
      /\ req'[r].pos = req[r].pos /\ Alone(r)
    BY <1>1 DEF Call, Request, Phases, SameAsk, Alone
<1>3. /\ req[r].pos \in Nat \ {0} /\ Len(req[r].ranked) \in Nat
      /\ ~(req[r].pos > Len(req[r].ranked))
    BY <1>1 DEF Request, Call, Exhausted
<1>4. breakers' \in [Registered -> Breaker]
    <2>1. PICK p \in Registered :
            breakers' = [breakers EXCEPT ![p] = AfterCanAttempt(breakers[p], Config[p])]
        BY DEF Call
    <2>2. AfterCanAttempt(breakers[p], Config[p]) \in Breaker
        BY <1>1, BreakerTypes
    <2> QED
        BY <1>1, <2>1, <2>2
<1>5. /\ UNCHANGED <<qos, requests_total, audit, client>>
      /\ req[r].phase = "routing" /\ Key(r).provider \in Registered
    BY DEF Call
<1> QED
    BY <1>1, <1>2, <1>3, <1>4, <1>5 DEF TypeOK

LEMMA SkipStep ==
    ASSUME IInv, NEW r \in Requests, Skip(r)
    PROVE  /\ UNCHANGED <<breakers, qos, requests_total, audit, client>>
           /\ Alone(r) /\ SameAsk(r) /\ req[r].phase = "routing"
           /\ req'[r].phase = "routing"
           /\ TypeOK'
<1>1. req \in [Requests -> Request] /\ TypeOK
    BY DEF IInv, TypeOK
<1>2. req' \in [Requests -> Request] /\ SameAsk(r) /\ req'[r].phase = req[r].phase
    BY <1>1 DEF Skip, Request, Phases, SameAsk
<1>3. /\ UNCHANGED <<breakers, qos, requests_total, audit, client>>
      /\ Alone(r) /\ req[r].phase = "routing"
    BY <1>1 DEF Skip, Alone
<1> QED
    BY <1>1, <1>2, <1>3 DEF TypeOK

LEMMA ObservedType ==
    ASSUME NEW s \in QosStats, NEW is_error \in BOOLEAN
    PROVE  Observed(s, is_error) \in QosStats
    BY DEF Observed, QosStats

LEMMA AnswerStep ==
    ASSUME IInv, NEW r \in Requests, NEW ok \in BOOLEAN, Answer(r, ok)
    PROVE  /\ UNCHANGED <<breakers, requests_total, audit, client>>
           /\ Alone(r) /\ SameAsk(r) /\ req[r].phase = "sending"
           /\ req'[r].phase = "reporting" /\ req'[r].pos = req[r].pos
           /\ req'[r].ok = ok
           /\ qos' = IF req[r].stream THEN qos
                     ELSE [qos EXCEPT ![Key(r)] = Observed(qos[Key(r)], ~ok)]
           /\ TypeOK'
<1>1. req \in [Requests -> Request] /\ qos \in [Keys -> QosStats] /\ TypeOK
    BY DEF IInv, TypeOK
<1>2. /\ req' \in [Requests -> Request] /\ SameAsk(r) /\ req'[r].phase = "reporting"
      /\ req'[r].pos = req[r].pos /\ req'[r].ok = ok
    BY <1>1 DEF Answer, Request, Phases, SameAsk
<1>3. /\ UNCHANGED <<breakers, requests_total, audit, client>>
      /\ Alone(r) /\ req[r].phase = "sending"
      /\ qos' = IF req[r].stream THEN qos
                ELSE [qos EXCEPT ![Key(r)] = Observed(qos[Key(r)], ~ok)]
    BY <1>1 DEF Answer, Alone
<1>4. qos' \in [Keys -> QosStats]
    BY <1>1, <1>3, ObservedType
<1> QED
    BY <1>1, <1>2, <1>3, <1>4 DEF TypeOK

LEMMA ReportResultStep ==
    ASSUME IInv, NEW r \in Requests, ReportResult(r)
    PROVE  /\ UNCHANGED <<qos, requests_total, audit>>
           /\ Alone(r) /\ SameAsk(r) /\ req[r].phase = "reporting"
           /\ req'[r].ok = req[r].ok
           /\ \/ /\ req[r].ok /\ ~req[r].stream /\ req'[r].phase = "answered"
                 /\ req'[r].pos = req[r].pos /\ client'[r] = client[r]
              \/ /\ req[r].ok /\ req[r].stream /\ req'[r].phase = "streaming"
                 /\ req'[r].pos = req[r].pos /\ client'[r] = "sse"
              \/ /\ ~req[r].ok /\ req'[r].phase = "routing" /\ client'[r] = client[r]
           /\ TypeOK'
<1>1. /\ req \in [Requests -> Request] /\ breakers \in [Registered -> Breaker] /\ TypeOK
      /\ client \in [Requests -> {"waiting", "response", "sse", "error", "gone", "limited"}]
      /\ Config \in [Registered -> BreakerConfig]
    BY ChatAssumption DEF IInv, TypeOK
<1>2. /\ req' \in [Requests -> Request] /\ SameAsk(r) /\ req'[r].ok = req[r].ok
      /\ Alone(r)
      /\ client' \in [Requests -> {"waiting", "response", "sse", "error", "gone", "limited"}]
      /\ \/ /\ req[r].ok /\ ~req[r].stream /\ req'[r].phase = "answered"
            /\ req'[r].pos = req[r].pos /\ client'[r] = client[r]
         \/ /\ req[r].ok /\ req[r].stream /\ req'[r].phase = "streaming"
            /\ req'[r].pos = req[r].pos /\ client'[r] = "sse"
         \/ /\ ~req[r].ok /\ req'[r].phase = "routing" /\ client'[r] = client[r]
    <2>1. CASE /\ req[r].ok /\ ~req[r].stream
               /\ req' = [req EXCEPT ![r].phase = "answered"] /\ UNCHANGED client
        BY <1>1, <2>1 DEF Request, Phases, SameAsk, Alone, ReportResult
    <2>2. CASE /\ req[r].ok /\ req[r].stream
               /\ req' = [req EXCEPT ![r].phase = "streaming"]
               /\ client' = [client EXCEPT ![r] = "sse"]
        BY <1>1, <2>2 DEF Request, Phases, SameAsk, Alone, ReportResult
    <2>3. CASE /\ ~req[r].ok
               /\ req' = [req EXCEPT ![r].phase = "routing", ![r].pos = @ + 1]
               /\ UNCHANGED client
        BY <1>1, <2>3 DEF Request, Phases, SameAsk, Alone, ReportResult
    <2> QED
        BY <2>1, <2>2, <2>3 DEF ReportResult
<1>3. /\ UNCHANGED <<qos, requests_total, audit>> /\ req[r].phase = "reporting"
    BY DEF ReportResult
<1>4. breakers' \in [Registered -> Breaker]
    <2> DEFINE p == Key(r).provider
               b == IF req[r].ok THEN RecordSuccess(breakers[p], Config[p])
                                 ELSE RecordFailure(breakers[p], Config[p])
    <2>1. breakers' = [breakers EXCEPT ![p] = b]
        BY DEF ReportResult
    <2>2. p \in Registered
        BY <1>3 DEF IInv, Fits
    <2>3. b \in Breaker
        BY <1>1, <2>2, BreakerTypes
    <2> HIDE DEF p, b
    <2> QED
        BY <1>1, <2>1, <2>2, <2>3
<1> QED
    BY <1>1, <1>2, <1>3, <1>4 DEF TypeOK

LEMMA ObserveType ==
    ASSUME IInv, NEW r \in Requests, NEW is_error \in BOOLEAN, Observe(r, is_error)
    PROVE  qos' \in [Keys -> QosStats]
<1>1. qos \in [Keys -> QosStats] /\ req[r].ask \in Asks
    BY DEF IInv, TypeOK, Request
<1>2. CASE req[r].ask = AutoName
    BY <1>1, <1>2 DEF Observe
<1>3. CASE req[r].ask # AutoName
    <2>1. req[r].ask \in Keys
        BY <1>1, <1>3 DEF Asks
    <2> QED
        BY <1>1, <1>3, <2>1, ObservedType DEF Observe
<1> QED
    BY <1>2, <1>3

LEMMA LabelType ==
    ASSUME IInv, NEW r \in Requests
    PROVE  Label(req[r].ask) \in Labels
<1>1. req[r].ask \in Asks
    BY DEF IInv, TypeOK, Request
<1> QED
    BY <1>1, ChatAssumption DEF Asks, Label, Labels

LEMMA CountSuccessStep ==
    ASSUME IInv, NEW r \in Requests, CountSuccess(r)
    PROVE  /\ UNCHANGED <<breakers, audit, client>>
           /\ Observe(r, FALSE)
           /\ requests_total' =
                [requests_total EXCEPT ![Label(req[r].ask)].success =
                    requests_total[Label(req[r].ask)].success + 1]
           /\ Alone(r) /\ SameAsk(r) /\ req[r].phase = "answered"
           /\ req'[r].phase = "auditing" /\ req'[r].pos = req[r].pos
           /\ req'[r].ok = req[r].ok
           /\ TypeOK'
<1>1. /\ req \in [Requests -> Request] /\ TypeOK
      /\ requests_total \in [Labels -> [success : Nat, error : Nat]]
    BY DEF IInv, TypeOK
<1>2. /\ req' \in [Requests -> Request] /\ SameAsk(r) /\ req'[r].phase = "auditing"
      /\ req'[r].pos = req[r].pos /\ req'[r].ok = req[r].ok
    BY <1>1 DEF CountSuccess, Request, Phases, SameAsk
<1>3. /\ UNCHANGED <<breakers, audit, client>> /\ Observe(r, FALSE)
      /\ requests_total' =
            [requests_total EXCEPT ![Label(req[r].ask)].success =
                requests_total[Label(req[r].ask)].success + 1]
      /\ Alone(r) /\ req[r].phase = "answered"
    BY <1>1 DEF CountSuccess, Alone
<1>4. qos' \in [Keys -> QosStats]
    BY <1>3, ObserveType
<1>5. requests_total' \in [Labels -> [success : Nat, error : Nat]]
    BY <1>1, <1>3, LabelType
<1> QED
    BY <1>1, <1>2, <1>3, <1>4, <1>5 DEF TypeOK

LEMMA CountErrorStep ==
    ASSUME IInv, NEW r \in Requests, CountError(r)
    PROVE  /\ UNCHANGED <<breakers, audit, client>>
           /\ Observe(r, TRUE)
           /\ requests_total' =
                [requests_total EXCEPT ![Label(req[r].ask)].error =
                    requests_total[Label(req[r].ask)].error + 1]
           /\ Alone(r) /\ SameAsk(r) /\ req[r].phase = "routing" /\ ~req[r].stream
           /\ req'[r].phase = "auditing" /\ req'[r].pos = req[r].pos
           /\ req'[r].ok = FALSE
           /\ TypeOK'
<1>1. /\ req \in [Requests -> Request] /\ TypeOK
      /\ requests_total \in [Labels -> [success : Nat, error : Nat]]
    BY DEF IInv, TypeOK
<1>2. /\ req' \in [Requests -> Request] /\ SameAsk(r) /\ req'[r].phase = "auditing"
      /\ req'[r].pos = req[r].pos /\ req'[r].ok = FALSE
    BY <1>1 DEF CountError, Request, Phases, SameAsk
<1>3. /\ UNCHANGED <<breakers, audit, client>> /\ Observe(r, TRUE)
      /\ requests_total' =
            [requests_total EXCEPT ![Label(req[r].ask)].error =
                requests_total[Label(req[r].ask)].error + 1]
      /\ Alone(r) /\ req[r].phase = "routing" /\ ~req[r].stream
    BY <1>1 DEF CountError, Exhausted, Alone
<1>4. qos' \in [Keys -> QosStats]
    BY <1>3, ObserveType
<1>5. requests_total' \in [Labels -> [success : Nat, error : Nat]]
    BY <1>1, <1>3, LabelType
<1> QED
    BY <1>1, <1>2, <1>3, <1>4, <1>5 DEF TypeOK

Clients == {"waiting", "response", "sse", "error", "gone", "limited"}

LEMMA RefuseStreamStep ==
    ASSUME IInv, NEW r \in Requests, RefuseStream(r)
    PROVE  /\ UNCHANGED <<breakers, qos, requests_total, audit>>
           /\ Alone(r) /\ SameAsk(r) /\ req[r].phase = "routing" /\ req[r].stream
           /\ req'[r].phase = "done" /\ req'[r].pos = req[r].pos
           /\ client'[r] = "error"
           /\ TypeOK'
<1>1. req \in [Requests -> Request] /\ client \in [Requests -> Clients] /\ TypeOK
    BY DEF IInv, TypeOK, Clients
<1>2. /\ req' \in [Requests -> Request] /\ SameAsk(r) /\ req'[r].phase = "done"
      /\ req'[r].pos = req[r].pos
    BY <1>1 DEF RefuseStream, Request, Phases, SameAsk
<1>3. /\ UNCHANGED <<breakers, qos, requests_total, audit>> /\ Alone(r)
      /\ req[r].phase = "routing" /\ req[r].stream /\ client'[r] = "error"
      /\ client' \in [Requests -> Clients]
    BY <1>1 DEF RefuseStream, Exhausted, Alone, Clients
<1> QED
    BY <1>1, <1>2, <1>3 DEF TypeOK, Clients

\* A row is added to the table, which has none of the request before.
LEMMA RowAdded ==
    ASSUME IInv, NEW r \in Requests, req[r].phase \in {"auditing", "orphaned"},
           audit' = [audit EXCEPT ![r] = Append(audit[r], Row(r))]
    PROVE  /\ audit'[r] = <<Row(r)>>
           /\ audit' \in [Requests -> Seq({"ResponseSent", "RequestFailed"})]
           /\ \A q \in Requests : q # r => audit'[q] = audit[q]
<1>1. audit \in [Requests -> Seq({"ResponseSent", "RequestFailed"})]
    BY DEF IInv, TypeOK
<1>2. audit[r] = << >>
    BY DEF IInv, Fits
<1>3. Row(r) \in {"ResponseSent", "RequestFailed"}
    BY DEF Row
<1>4. Append(audit[r], Row(r)) = <<Row(r)>>
    BY <1>2, <1>3
<1> QED
    BY <1>1, <1>3, <1>4

LEMMA PersistStep ==
    ASSUME IInv, NEW r \in Requests, NEW persisted \in BOOLEAN, Persist(r, persisted)
    PROVE  /\ UNCHANGED <<breakers, qos, requests_total>>
           /\ Alone(r) /\ SameAsk(r) /\ client' = client
           /\ \/ req[r].phase = "auditing" /\ req'[r].phase = "audited"
              \/ req[r].phase = "orphaned" /\ req'[r].phase = "done"
           /\ req'[r].pos = req[r].pos /\ req'[r].ok = req[r].ok
           /\ audit'[r] = << >> \/ audit'[r] = <<Row(r)>>
           /\ audit'[r] \in {audit[r], Append(audit[r], Row(r))}
           /\ TypeOK'
<1>1. req \in [Requests -> Request] /\ client \in [Requests -> Clients] /\ TypeOK
    BY DEF IInv, TypeOK, Clients
<1>2. /\ req' \in [Requests -> Request] /\ SameAsk(r)
      /\ \/ req[r].phase = "auditing" /\ req'[r].phase = "audited"
         \/ req[r].phase = "orphaned" /\ req'[r].phase = "done"
      /\ req'[r].pos = req[r].pos /\ req'[r].ok = req[r].ok
    BY <1>1 DEF Persist, Request, Phases, SameAsk
<1>3. /\ UNCHANGED <<breakers, qos, requests_total, client>>
      /\ req[r].phase \in {"auditing", "orphaned"}
    BY DEF Persist
<1>4. /\ audit'[r] = << >> \/ audit'[r] = <<Row(r)>>
      /\ audit'[r] \in {audit[r], Append(audit[r], Row(r))}
      /\ audit' \in [Requests -> Seq({"ResponseSent", "RequestFailed"})]
      /\ \A q \in Requests : q # r => audit'[q] = audit[q]
    <2>1. CASE persisted
        <3>1. audit' = [audit EXCEPT ![r] = Append(audit[r], Row(r))]
            BY <2>1 DEF Persist
        <3>2. audit[r] = << >> /\ audit'[r] = Append(audit[r], Row(r))
            BY <1>1, <1>3, <3>1 DEF IInv, Fits, TypeOK
        <3> QED
            BY <1>3, <3>1, <3>2, RowAdded
    <2>2. CASE ~persisted
        BY <1>3, <2>2 DEF Persist, IInv, Fits, TypeOK
    <2> QED
        BY <2>1, <2>2
<1>5. Alone(r)
    BY <1>1, <1>4 DEF Persist, Alone
<1> QED
    BY <1>1, <1>2, <1>3, <1>4, <1>5 DEF TypeOK, Clients

LEMMA RespondStep ==
    ASSUME IInv, NEW r \in Requests, Respond(r)
    PROVE  /\ UNCHANGED <<breakers, qos, requests_total, audit>>
           /\ Alone(r) /\ SameAsk(r) /\ req[r].phase = "audited"
           /\ req'[r].phase = "done" /\ req'[r].pos = req[r].pos
           /\ req'[r].ok = req[r].ok
           /\ client'[r] = IF req[r].ok THEN "response" ELSE "error"
           /\ TypeOK'
<1>1. req \in [Requests -> Request] /\ client \in [Requests -> Clients] /\ TypeOK
    BY DEF IInv, TypeOK, Clients
<1>2. /\ req' \in [Requests -> Request] /\ SameAsk(r) /\ req'[r].phase = "done"
      /\ req'[r].pos = req[r].pos /\ req'[r].ok = req[r].ok
    BY <1>1 DEF Respond, Request, Phases, SameAsk
<1>3. /\ UNCHANGED <<breakers, qos, requests_total, audit>>
      /\ Alone(r) /\ req[r].phase = "audited"
      /\ client' \in [Requests -> Clients]
      /\ client'[r] = IF req[r].ok THEN "response" ELSE "error"
    BY <1>1 DEF Respond, Alone, Clients
<1> QED
    BY <1>1, <1>2, <1>3 DEF TypeOK, Clients

LEMMA EndStreamStep ==
    ASSUME IInv, NEW r \in Requests, EndStream(r)
    PROVE  /\ UNCHANGED <<breakers, qos, requests_total, audit, client>>
           /\ Alone(r) /\ SameAsk(r) /\ req[r].phase = "streaming"
           /\ req'[r].phase = "done" /\ req'[r].pos = req[r].pos
           /\ TypeOK'
<1>1. req \in [Requests -> Request] /\ TypeOK
    BY DEF IInv, TypeOK
<1>2. /\ req' \in [Requests -> Request] /\ SameAsk(r) /\ req'[r].phase = "done"
      /\ req'[r].pos = req[r].pos
    BY <1>1 DEF EndStream, Request, Phases, SameAsk
<1>3. /\ UNCHANGED <<breakers, qos, requests_total, audit, client>>
      /\ Alone(r) /\ req[r].phase = "streaming"
    BY <1>1 DEF EndStream, Alone
<1> QED
    BY <1>1, <1>2, <1>3 DEF TypeOK

LEMMA DropStep ==
    ASSUME IInv, NEW r \in Requests, Drop(r)
    PROVE  /\ UNCHANGED <<breakers, qos, requests_total, audit>>
           /\ Alone(r) /\ SameAsk(r)
           /\ \/ /\ req[r].phase \in {"routing", "sending", "reporting", "audited"}
                 /\ req'[r].phase = "done"
              \/ req[r].phase = "auditing" /\ req'[r].phase = "orphaned"
           /\ req'[r].pos = req[r].pos /\ req'[r].ok = req[r].ok
           /\ client'[r] = "gone"
           /\ TypeOK'
<1>1. req \in [Requests -> Request] /\ client \in [Requests -> Clients] /\ TypeOK
    BY DEF IInv, TypeOK, Clients
<1>2. /\ req' \in [Requests -> Request] /\ SameAsk(r)
      /\ \/ /\ req[r].phase \in {"routing", "sending", "reporting", "audited"}
            /\ req'[r].phase = "done"
         \/ req[r].phase = "auditing" /\ req'[r].phase = "orphaned"
      /\ req'[r].pos = req[r].pos /\ req'[r].ok = req[r].ok
    BY <1>1 DEF Drop, Droppable, Request, Phases, SameAsk
<1>3. /\ UNCHANGED <<breakers, qos, requests_total, audit>> /\ Alone(r)
      /\ client' \in [Requests -> Clients] /\ client'[r] = "gone"
    BY <1>1 DEF Drop, Alone, Clients
<1> QED
    BY <1>1, <1>2, <1>3 DEF TypeOK, Clients

LEMMA ElapseStep ==
    ASSUME IInv, Elapse
    PROVE  /\ UNCHANGED <<qos, req, requests_total, audit, client>>
           /\ TypeOK'
<1>1. /\ breakers \in [Registered -> Breaker] /\ TypeOK
      /\ Config \in [Registered -> BreakerConfig]
    BY ChatAssumption DEF IInv, TypeOK
<1>2. breakers' \in [Registered -> Breaker]
    <2>1. \A p \in Registered : Aged(breakers[p], Config[p]) \in Breaker
        BY <1>1, BreakerTypes
    <2> QED
        BY <2>1 DEF Elapse
<1> QED
    BY <1>1, <1>2 DEF Elapse, TypeOK

-----------------------------------------------------------------------------
(* The invariant is kept.                                                  *)

LEMMA RowsDiffer ==
    /\ << >> # <<"ResponseSent">> /\ << >> # <<"RequestFailed">>
    /\ <<"ResponseSent">> # <<"RequestFailed">>
<1>1. Len(<< >>) = 0 /\ Len(<<"ResponseSent">>) = 1 /\ Len(<<"RequestFailed">>) = 1
    OBVIOUS
<1>2. <<"ResponseSent">>[1] # <<"RequestFailed">>[1]
    OBVIOUS
<1> QED
    BY <1>1, <1>2

LEMMA ReceiveFits ==
    ASSUME IInv, NEW r \in Requests, NEW ask \in Asks, NEW stream \in BOOLEAN,
           Receive(r, ask, stream)
    PROVE  IInv'
<1>1. /\ UNCHANGED <<breakers, qos, requests_total, audit, client>>
      /\ Alone(r) /\ req[r].phase = "new" /\ req'[r].phase = "routing"
      /\ req' \in [Requests -> Request]
    BY ReceiveStep
<1>2. Fits(r) /\ TypeOK
    BY DEF IInv
<1>3. TypeOK'
    BY <1>1, <1>2 DEF TypeOK
<1>4. Fits(r)'
    BY <1>1, <1>2 DEF Fits
<1>5. ~Succeeded(r)' /\ ~Erred(r)'
    BY <1>1, <1>2, RowsDiffer DEF Fits, Succeeded, Erred, Pending
<1>6. BooksFit'
    BY <1>1, <1>5, BooksKept DEF Alone
<1> QED
    BY <1>1, <1>3, <1>4, <1>6, AloneFits DEF IInv

LEMMA RefuseFits ==
    ASSUME IInv, NEW r \in Requests, Refuse(r)
    PROVE  IInv'
<1>1. /\ UNCHANGED <<breakers, qos, requests_total, audit>>
      /\ Alone(r) /\ req[r].phase = "new" /\ req'[r].phase = "done"
      /\ client'[r] = "limited" /\ TypeOK'
    BY RefuseStep
<1>2. Fits(r)
    BY DEF IInv
<1>3. Fits(r)'
    BY <1>1, <1>2 DEF Fits
<1>4. ~Succeeded(r)' /\ ~Erred(r)'
    BY <1>1, <1>2, RowsDiffer DEF Fits, Succeeded, Erred, Pending
<1>5. BooksFit'
    BY <1>1, <1>4, BooksKept DEF Alone
<1> QED
    BY <1>1, <1>3, <1>5, AloneFits DEF IInv

\* Until it is at the audit log, a request is on no book.
LEMMA BeforeTheBooks ==
    ASSUME IInv, NEW r \in Requests, UNCHANGED <<requests_total, audit>>,
           Alone(r), SameAsk(r), TypeOK', Fits(r)',
           req[r].phase \in {"routing", "sending", "reporting"},
           req'[r].phase \in {"routing", "sending", "reporting", "answered", "streaming"}
    PROVE  IInv'
<1>1. Fits(r)
    BY DEF IInv
<1>2. ~Succeeded(r)' /\ ~Erred(r)' /\ ~Counted(r)
    BY <1>1, RowsDiffer DEF Fits, Succeeded, Erred, Counted, Pending, SameAsk
<1>3. client[r] # "limited" /\ client'[r] # "limited"
    BY <1>1 DEF Fits
<1>4. BooksFit'
    BY <1>2, <1>3, BooksKept DEF Alone, SameAsk
<1> QED
    BY <1>4, AloneFits DEF IInv

LEMMA CallFits ==
    ASSUME IInv, NEW r \in Requests, Call(r)
    PROVE  IInv'
<1>1. /\ UNCHANGED <<qos, requests_total, audit, client>>
      /\ Alone(r) /\ SameAsk(r) /\ req[r].phase = "routing"
      /\ req'[r].phase = "sending" /\ req'[r].pos = req[r].pos
      /\ req[r].pos \in 1 .. Len(req[r].ranked)
      /\ Key(r).provider \in Registered
      /\ TypeOK'
    BY CallStep
<1>2. Fits(r)
    BY DEF IInv
<1>3. Fits(r)'
    BY <1>1, <1>2 DEF Fits, SameAsk, Key
<1> QED
    BY <1>1, <1>3, BeforeTheBooks

LEMMA SkipFits ==
    ASSUME IInv, NEW r \in Requests, Skip(r)
    PROVE  IInv'
<1>1. /\ UNCHANGED <<breakers, qos, requests_total, audit, client>>
      /\ Alone(r) /\ SameAsk(r) /\ req[r].phase = "routing"
      /\ req'[r].phase = "routing" /\ TypeOK'
    BY SkipStep
<1>2. Fits(r)
    BY DEF IInv
<1>3. Fits(r)'
    BY <1>1, <1>2 DEF Fits
<1> QED
    BY <1>1, <1>3, BeforeTheBooks

LEMMA AnswerFits ==
    ASSUME IInv, NEW r \in Requests, NEW ok \in BOOLEAN, Answer(r, ok)
    PROVE  IInv'
<1>1. /\ UNCHANGED <<breakers, requests_total, audit, client>>
      /\ Alone(r) /\ SameAsk(r) /\ req[r].phase = "sending"
      /\ req'[r].phase = "reporting" /\ req'[r].pos = req[r].pos
      /\ TypeOK'
    BY AnswerStep
<1>2. Fits(r)
    BY DEF IInv
<1>3. Fits(r)'
    BY <1>1, <1>2 DEF Fits, SameAsk, Key
<1> QED
    BY <1>1, <1>3, BeforeTheBooks

LEMMA ReportResultFits ==
    ASSUME IInv, NEW r \in Requests, ReportResult(r)
    PROVE  IInv'
<1>1. /\ UNCHANGED <<qos, requests_total, audit>>
      /\ Alone(r) /\ SameAsk(r) /\ req[r].phase = "reporting"
      /\ req'[r].ok = req[r].ok
      /\ \/ /\ req[r].ok /\ ~req[r].stream /\ req'[r].phase = "answered"
            /\ req'[r].pos = req[r].pos /\ client'[r] = client[r]
         \/ /\ req[r].ok /\ req[r].stream /\ req'[r].phase = "streaming"
            /\ req'[r].pos = req[r].pos /\ client'[r] = "sse"
         \/ /\ ~req[r].ok /\ req'[r].phase = "routing" /\ client'[r] = client[r]
      /\ TypeOK'
    BY ReportResultStep
<1>2. Fits(r)
    BY DEF IInv
<1>3. Fits(r)'
    BY <1>1, <1>2 DEF Fits, SameAsk
<1> QED
    BY <1>1, <1>3, BeforeTheBooks

\* A request that moves about at the end of its life, already counted or never.
LEMMA AfterTheCount ==
    ASSUME IInv, NEW r \in Requests, UNCHANGED requests_total,
           Alone(r), SameAsk(r), TypeOK', Fits(r)',
           req[r].phase # "new", req'[r].phase \in {"audited", "orphaned", "done"},
           client[r] # "limited", client'[r] # "limited",
           Succeeded(r)' => Succeeded(r), Erred(r)' => Erred(r)
    PROVE  IInv'
<1>1. Counted(r) => Counted(r)'
    BY DEF Counted, Pending, SameAsk
<1>2. BooksFit'
    BY <1>1, BooksKept DEF Alone, SameAsk
<1> QED
    BY <1>2, AloneFits DEF IInv

LEMMA RefuseStreamFits ==
    ASSUME IInv, NEW r \in Requests, RefuseStream(r)
    PROVE  IInv'
<1>1. /\ UNCHANGED <<breakers, qos, requests_total, audit>>
      /\ Alone(r) /\ SameAsk(r) /\ req[r].phase = "routing" /\ req[r].stream
      /\ req'[r].phase = "done" /\ client'[r] = "error"
      /\ TypeOK'
    BY RefuseStreamStep
<1>2. Fits(r)
    BY DEF IInv
<1>3. Fits(r)'
    BY <1>1, <1>2 DEF Fits
<1>4. ~Succeeded(r)' /\ ~Erred(r)' /\ client[r] # "limited"
    BY <1>1, <1>2 DEF Succeeded, Erred, Pending, SameAsk, Fits
<1> QED
    BY <1>1, <1>3, <1>4, AfterTheCount

LEMMA PersistFits ==
    ASSUME IInv, NEW r \in Requests, NEW persisted \in BOOLEAN, Persist(r, persisted)
    PROVE  IInv'
<1>1. /\ UNCHANGED <<breakers, qos, requests_total, client>>
      /\ Alone(r) /\ SameAsk(r)
      /\ \/ req[r].phase = "auditing" /\ req'[r].phase = "audited"
         \/ req[r].phase = "orphaned" /\ req'[r].phase = "done"
      /\ req'[r].ok = req[r].ok
      /\ audit'[r] = << >> \/ audit'[r] = <<Row(r)>>
      /\ TypeOK'
    BY PersistStep
<1>2. Fits(r)
    BY DEF IInv
<1>3. Fits(r)' /\ client[r] \in {"waiting", "gone"}
    BY <1>1, <1>2 DEF Fits, Row, SameAsk
<1>4. CASE req[r].ok
    <2>1. Row(r) = "ResponseSent" /\ Succeeded(r)
        BY <1>1, <1>2, <1>4 DEF Row, Succeeded, Pending, Fits
    <2>2. ~Erred(r)'
        BY <1>1, <1>3, <1>4, <2>1, RowsDiffer DEF Erred, Pending, SameAsk
    <2> QED
        BY <1>1, <1>3, <2>1, <2>2, AfterTheCount
<1>5. CASE ~req[r].ok
    <2>1. Row(r) = "RequestFailed" /\ Erred(r)
        BY <1>1, <1>2, <1>5 DEF Row, Erred, Pending, Fits
    <2>2. ~Succeeded(r)'
        BY <1>1, <1>3, <1>5, <2>1, RowsDiffer DEF Succeeded, Pending, SameAsk
    <2> QED
        BY <1>1, <1>3, <2>1, <2>2, AfterTheCount
<1> QED
    BY <1>4, <1>5

LEMMA RespondFits ==
    ASSUME IInv, NEW r \in Requests, Respond(r)
    PROVE  IInv'
<1>1. /\ UNCHANGED <<breakers, qos, requests_total, audit>>
      /\ Alone(r) /\ SameAsk(r) /\ req[r].phase = "audited"
      /\ req'[r].phase = "done" /\ req'[r].ok = req[r].ok
      /\ client'[r] = IF req[r].ok THEN "response" ELSE "error"
      /\ TypeOK'
    BY RespondStep
<1>2. /\ Fits(r) /\ ~req[r].stream /\ client[r] = "waiting"
      /\ audit[r] = << >> \/ audit[r] = <<Row(r)>>
    BY <1>1 DEF IInv, Fits
<1>3. Fits(r)'
    BY <1>1, <1>2 DEF Fits, Row, SameAsk
<1>4. CASE req[r].ok
    <2>1. client'[r] = "response" /\ Row(r) = "ResponseSent"
        BY <1>1, <1>4 DEF Row
    <2>2. Succeeded(r) /\ ~Erred(r)'
        BY <1>1, <1>2, <1>4, <2>1, RowsDiffer DEF Succeeded, Erred, Pending, SameAsk
    <2> QED
        BY <1>1, <1>2, <1>3, <2>1, <2>2, AfterTheCount
<1>5. CASE ~req[r].ok
    <2>1. client'[r] = "error" /\ Row(r) = "RequestFailed"
        BY <1>1, <1>5 DEF Row
    <2>2. Erred(r) /\ ~Succeeded(r)'
        BY <1>1, <1>2, <1>5, <2>1, RowsDiffer DEF Succeeded, Erred, Pending, SameAsk
    <2> QED
        BY <1>1, <1>2, <1>3, <2>1, <2>2, AfterTheCount
<1> QED
    BY <1>4, <1>5

LEMMA EndStreamFits ==
    ASSUME IInv, NEW r \in Requests, EndStream(r)
    PROVE  IInv'
<1>1. /\ UNCHANGED <<breakers, qos, requests_total, audit, client>>
      /\ Alone(r) /\ SameAsk(r) /\ req[r].phase = "streaming"
      /\ req'[r].phase = "done" /\ TypeOK'
    BY EndStreamStep
<1>2. Fits(r)
    BY DEF IInv
<1>3. Fits(r)'
    BY <1>1, <1>2 DEF Fits
<1>4. ~Succeeded(r)' /\ ~Erred(r)' /\ client[r] # "limited"
    BY <1>1, <1>2 DEF Succeeded, Erred, Pending, SameAsk, Fits
<1> QED
    BY <1>1, <1>3, <1>4, AfterTheCount

LEMMA DropFits ==
    ASSUME IInv, NEW r \in Requests, Drop(r)
    PROVE  IInv'
<1>1. /\ UNCHANGED <<breakers, qos, requests_total, audit>>
      /\ Alone(r) /\ SameAsk(r)
      /\ \/ /\ req[r].phase \in {"routing", "sending", "reporting", "audited"}
            /\ req'[r].phase = "done"
         \/ req[r].phase = "auditing" /\ req'[r].phase = "orphaned"
      /\ req'[r].ok = req[r].ok
      /\ client'[r] = "gone"
      /\ TypeOK'
    BY DropStep
<1>2. Fits(r)
    BY DEF IInv
<1>3. Fits(r)'
    BY <1>1, <1>2 DEF Fits, Row, SameAsk
<1>4. (Succeeded(r)' => Succeeded(r)) /\ (Erred(r)' => Erred(r))
    BY <1>1 DEF Succeeded, Erred, Pending, SameAsk
<1>5. client[r] = "waiting"
    BY <1>1, <1>2 DEF Fits
<1> QED
    BY <1>1, <1>3, <1>4, <1>5, AfterTheCount

\* A set of requests that grew by r at most, or by r at least.
LEMMA OneMore ==
    ASSUME NEW S, NEW T, NEW r, IsFiniteSet(S), IsFiniteSet(T)
    PROVE  /\ T \subseteq S \union {r} => Cardinality(T) <= Cardinality(S) + 1
           /\ r \notin S /\ S \union {r} \subseteq T => Cardinality(S) + 1 <= Cardinality(T)
           /\ S \subseteq T => Cardinality(S) <= Cardinality(T)
<1>1. /\ IsFiniteSet(S \union {r})
      /\ Cardinality(S \union {r}) =
            IF r \in S THEN Cardinality(S) ELSE Cardinality(S) + 1
    BY FS_AddElement
<1>2. Cardinality(S) \in Nat /\ Cardinality(T) \in Nat /\ Cardinality(S \union {r}) \in Nat
    BY <1>1, FS_CardinalityType
<1>3. T \subseteq S \union {r} => Cardinality(T) <= Cardinality(S \union {r})
    BY <1>1, FS_Subset
<1>4. S \union {r} \subseteq T => Cardinality(S \union {r}) <= Cardinality(T)
    BY FS_Subset
<1>5. S \subseteq T => Cardinality(S) <= Cardinality(T)
    BY FS_Subset
<1> QED
    BY <1>1, <1>2, <1>3, <1>4, <1>5

\* A request is counted, under the name it asked for.
LEMMA CountedOnce ==
    ASSUME IInv, NEW r \in Requests, UNCHANGED <<client, audit>>,
           Alone(r), SameAsk(r), TypeOK', Fits(r)',
           req[r].phase \in {"routing", "answered"}, ~req[r].stream,
           req'[r].phase = "auditing",
           \/ /\ ~Erred(r)'
              /\ requests_total' =
                    [requests_total EXCEPT ![Label(req[r].ask)].success =
                        requests_total[Label(req[r].ask)].success + 1]
           \/ /\ ~Succeeded(r)'
              /\ requests_total' =
                    [requests_total EXCEPT ![Label(req[r].ask)].error =
                        requests_total[Label(req[r].ask)].error + 1]
    PROVE  IInv'
<1>1. Fits(r) /\ client[r] = "waiting" /\ Label(req[r].ask) \in Labels
    BY LabelType DEF IInv, Fits
<1>2. ~Counted(r) /\ Counted(r)'
    BY DEF Counted, Pending, SameAsk
<1>3. \A q \in Requests : q # r =>
        /\ \A l : q \in AskedFor(l)' <=> q \in AskedFor(l)
        /\ Succeeded(q)' <=> Succeeded(q)
        /\ Erred(q)' <=> Erred(q)
        /\ Counted(q)' <=> Counted(q)
    BY DEF Alone, AskedFor, Succeeded, Erred, Counted, Pending
<1>4. \A l : r \in AskedFor(l)' <=> l = Label(req[r].ask)
    BY <1>1 DEF AskedFor, SameAsk
<1>5. \A l : r \in AskedFor(l) <=> l = Label(req[r].ask)
    BY <1>1 DEF AskedFor
<1>6. ASSUME NEW l \in Labels
      PROVE  /\ Cardinality(Successes(l)') <= requests_total'[l].success
             /\ Cardinality(Failures(l)') <= requests_total'[l].error
             /\ requests_total'[l].success + requests_total'[l].error
                    <= Cardinality(Settled(l)')
    <2>1. /\ IsFiniteSet(Successes(l)) /\ IsFiniteSet(Failures(l)) /\ IsFiniteSet(Settled(l))
          /\ IsFiniteSet(Successes(l)') /\ IsFiniteSet(Failures(l)')
          /\ IsFiniteSet(Settled(l)')
        <3>1. /\ Successes(l)' \subseteq Requests /\ Failures(l)' \subseteq Requests
              /\ Settled(l)' \subseteq Requests
            BY DEF Successes, Failures, Settled, AskedFor
        <3>2. IsFiniteSet(Requests)
            BY ChatAssumption
        <3> QED
            BY <3>1, <3>2, SetsFinite, FS_Subset
    <2>2. /\ Cardinality(Successes(l)) \in Nat /\ Cardinality(Successes(l)') \in Nat
          /\ Cardinality(Failures(l)) \in Nat /\ Cardinality(Failures(l)') \in Nat
          /\ Cardinality(Settled(l)) \in Nat /\ Cardinality(Settled(l)') \in Nat
        BY <2>1, FS_CardinalityType
    <2>3. /\ requests_total \in [Labels -> [success : Nat, error : Nat]]
          /\ requests_total[l].success \in Nat /\ requests_total[l].error \in Nat
        BY DEF IInv, TypeOK
    <2>4. /\ Cardinality(Successes(l)) <= requests_total[l].success
          /\ Cardinality(Failures(l)) <= requests_total[l].error
          /\ requests_total[l].success + requests_total[l].error <= Cardinality(Settled(l))
        BY DEF IInv, BooksFit
    <2>5. Settled(l) \subseteq Settled(l)'
        BY <1>2, <1>3, <1>4, <1>5 DEF Settled, AskedFor
    <2>6. /\ ~Succeeded(r)' => Successes(l)' \subseteq Successes(l)
          /\ ~Erred(r)' => Failures(l)' \subseteq Failures(l)
        BY <1>3 DEF Successes, Failures, AskedFor
    <2>7. CASE l # Label(req[r].ask)
        <3>1. Successes(l)' \subseteq Successes(l) /\ Failures(l)' \subseteq Failures(l)
            BY <1>3, <1>4, <2>7 DEF Successes, Failures, AskedFor
        <3>2. requests_total'[l] = requests_total[l]
            BY <1>1, <2>3, <2>7
        <3>3. /\ Cardinality(Successes(l)') <= Cardinality(Successes(l))
              /\ Cardinality(Failures(l)') <= Cardinality(Failures(l))
              /\ Cardinality(Settled(l)) <= Cardinality(Settled(l)')
            BY <2>1, <2>5, <3>1, OneMore
        <3> QED
            BY <2>2, <2>3, <2>4, <3>2, <3>3
    <2>8. CASE l = Label(req[r].ask)
        <3>1. /\ Successes(l)' \subseteq Successes(l) \union {r}
              /\ Failures(l)' \subseteq Failures(l) \union {r}
              /\ r \notin Settled(l) /\ Settled(l) \union {r} \subseteq Settled(l)'
            BY <1>2, <1>3, <1>4, <2>5, <2>8 DEF Successes, Failures, Settled, AskedFor
        <3>2. /\ Cardinality(Successes(l)') <= Cardinality(Successes(l)) + 1
              /\ ~Succeeded(r)' => Cardinality(Successes(l)') <= Cardinality(Successes(l))
              /\ Cardinality(Failures(l)') <= Cardinality(Failures(l)) + 1
              /\ ~Erred(r)' => Cardinality(Failures(l)') <= Cardinality(Failures(l))
              /\ Cardinality(Settled(l)) + 1 <= Cardinality(Settled(l)')
            BY <2>1, <2>6, <3>1, OneMore
        <3>3. \/ /\ ~Erred(r)'
                 /\ requests_total'[l].success = requests_total[l].success + 1
                 /\ requests_total'[l].error = requests_total[l].error
              \/ /\ ~Succeeded(r)'
                 /\ requests_total'[l].success = requests_total[l].success
                 /\ requests_total'[l].error = requests_total[l].error + 1
            BY <2>3, <2>8
        <3> QED
            BY <2>2, <2>3, <2>4, <3>2, <3>3
    <2> QED
        BY <2>7, <2>8
<1> QED
    BY <1>6, AloneFits DEF IInv, BooksFit

LEMMA CountFits ==
    ASSUME IInv, NEW r \in Requests, CountSuccess(r) \/ CountError(r)
    PROVE  IInv'
<1>1. Fits(r)
    BY DEF IInv
<1>2. CASE CountSuccess(r)
    <2>1. /\ UNCHANGED <<breakers, audit, client>>
          /\ requests_total' =
                [requests_total EXCEPT ![Label(req[r].ask)].success =
                    requests_total[Label(req[r].ask)].success + 1]
          /\ Alone(r) /\ SameAsk(r) /\ req[r].phase = "answered"
          /\ req'[r].phase = "auditing" /\ req'[r].ok = req[r].ok
          /\ TypeOK'
        BY <1>2, CountSuccessStep
    <2>2. Fits(r)'
        BY <1>1, <2>1 DEF Fits, SameAsk
    <2>3. ~Erred(r)' /\ ~req[r].stream
        BY <1>1, <2>1, RowsDiffer DEF Erred, Pending, Fits, SameAsk
    <2> QED
        BY <2>1, <2>2, <2>3, CountedOnce
<1>3. CASE CountError(r)
    <2>1. /\ UNCHANGED <<breakers, audit, client>>
          /\ requests_total' =
                [requests_total EXCEPT ![Label(req[r].ask)].error =
                    requests_total[Label(req[r].ask)].error + 1]
          /\ Alone(r) /\ SameAsk(r) /\ req[r].phase = "routing" /\ ~req[r].stream
          /\ req'[r].phase = "auditing" /\ req'[r].ok = FALSE
          /\ TypeOK'
        BY <1>3, CountErrorStep
    <2>2. Fits(r)'
        BY <1>1, <2>1 DEF Fits, SameAsk
    <2>3. ~Succeeded(r)'
        BY <1>1, <2>1, RowsDiffer DEF Succeeded, Pending, Fits, SameAsk
    <2> QED
        BY <2>1, <2>2, <2>3, CountedOnce
<1> QED
    BY <1>2, <1>3

\* A step that no request sees keeps what fits.
LEMMA SameRequests ==
    ASSUME IInv, UNCHANGED <<req, requests_total, audit, client>>, TypeOK'
    PROVE  IInv'
<1>1. \A r \in Requests : Fits(r)'
    BY DEF IInv, Fits, Key, Row
<1>2. \A l : /\ Successes(l)' = Successes(l) /\ Failures(l)' = Failures(l)
             /\ Settled(l)' = Settled(l)
    BY DEF Successes, Failures, Settled, AskedFor, Succeeded, Erred, Counted, Pending
<1>3. BooksFit'
    BY <1>2 DEF IInv, BooksFit
<1> QED
    BY <1>1, <1>3 DEF IInv

\* Every step of the route keeps the invariant.
LEMMA NextIInv == IInv /\ [Next]_vars => IInv'
<1> SUFFICES ASSUME IInv, [Next]_vars PROVE IInv'
    OBVIOUS
<1>1. ASSUME NEW r \in Requests, NEW ask \in Asks, NEW stream \in BOOLEAN,
             Receive(r, ask, stream)
      PROVE  IInv'
    BY <1>1, ReceiveFits
<1>2. ASSUME NEW r \in Requests, Serve(r) PROVE IInv'
    <2>1. CASE Call(r) \/ Skip(r) \/ ReportResult(r)
        BY <2>1, CallFits, SkipFits, ReportResultFits
    <2>2. ASSUME NEW ok \in BOOLEAN, Answer(r, ok) PROVE IInv'
        BY <2>2, AnswerFits
    <2>3. CASE CountSuccess(r) \/ CountError(r) \/ RefuseStream(r)
        BY <2>3, CountFits, RefuseStreamFits
    <2>4. ASSUME NEW persisted \in BOOLEAN, Persist(r, persisted) PROVE IInv'
        BY <2>4, PersistFits
    <2>5. CASE Respond(r) \/ EndStream(r) \/ Drop(r)
        BY <2>5, RespondFits, EndStreamFits, DropFits
    <2> QED
        BY <1>2, <2>1, <2>2, <2>3, <2>4, <2>5 DEF Serve
<1>3. CASE Elapse
    BY <1>3, ElapseStep, SameRequests
<1>4. CASE UNCHANGED vars
    BY <1>4, SameRequests DEF vars, IInv, TypeOK
<1> QED
    BY <1>1, <1>2, <1>3, <1>4 DEF Next

\* Behind the limiter, the route does what it does without, or refuses.
LEMMA ApiSteps ==
    ApiNext => \/ [Next]_vars
               \/ \E r \in Requests : Refuse(r)
<1> SUFFICES ASSUME ApiNext
             PROVE  [Next]_vars \/ \E r \in Requests : Refuse(r)
    OBVIOUS
<1>1. ASSUME NEW r \in Requests, Receives(r) PROVE Next
    BY <1>1 DEF Receives, Next
<1>2. ASSUME NEW r \in Requests, Handles(r) PROVE Next
    BY <1>2 DEF Handles, Next
<1>3. CASE OtherRoute
    BY <1>3 DEF OtherRoute
<1>4. CASE Elapse /\ UNCHANGED cells
    BY <1>4 DEF Next
<1>5. ASSUME NEW p \in Limited, Replenish(p) /\ UNCHANGED vars PROVE UNCHANGED vars
    BY <1>5
<1> QED
    BY <1>1, <1>2, <1>3, <1>4, <1>5 DEF ApiNext

\* So does every step of the server.
LEMMA ApiNextIInv == IInv /\ [ApiNext]_apiVars => IInv'
<1> SUFFICES ASSUME IInv, [ApiNext]_apiVars PROVE IInv'
    OBVIOUS
<1>1. CASE UNCHANGED apiVars
    <2>1. UNCHANGED vars
        BY <1>1 DEF apiVars
    <2> QED
        BY <2>1, NextIInv
<1>2. CASE ApiNext
    BY <1>2, ApiSteps, NextIInv, RefuseFits
<1> QED
    BY <1>1, <1>2

\* The invariant of the server.
LEMMA Invariance == ApiSpec => []IInv
<1>1. ApiInit => IInv
    BY InitIInv DEF ApiInit
<1> QED
    BY <1>1, ApiNextIInv, PTL DEF ApiSpec

-----------------------------------------------------------------------------

\* The state of the route stays what it is declared to be, whatever names,
\* prices and thresholds the operator configures.
THEOREM TypeCorrect == ApiSpec => []TypeOK
<1>1. IInv => TypeOK
    BY DEF IInv
<1> QED
    BY <1>1, Invariance, PTL

\* Books that fit agree.
LEMMA BooksThatFit == IInv => BooksAgree
<1>1. ASSUME IInv PROVE BooksAgree
    <2>1. ASSUME NEW r \in Requests PROVE Len(audit[r]) <= 1
        <3>1. /\ Fits(r) /\ req[r].phase \in Phases
            BY <1>1 DEF IInv, TypeOK, Request
        <3>2. audit[r] = << >> \/ audit[r] = <<Row(r)>>
            BY <3>1 DEF Fits, Phases
        <3>3. CASE audit[r] = << >>
            <4>1. Len(audit[r]) = 0
                BY <3>3
            <4> QED
                BY <4>1
        <3>4. CASE audit[r] = <<Row(r)>>
            <4>1. Len(audit[r]) = 1
                BY <3>4
            <4> QED
                BY <4>1
        <3> QED
            BY <3>2, <3>3, <3>4
    <2>2. ASSUME NEW l \in Labels
          PROVE  /\ Cardinality(Told(l, "response") \union Rows(l, "ResponseSent"))
                        <= requests_total[l].success
                 /\ Cardinality(Told(l, "error") \union Rows(l, "RequestFailed"))
                        <= requests_total[l].error
                 /\ requests_total[l].success + requests_total[l].error
                        <= Cardinality({r \in AskedFor(l) : ~req[r].stream})
        <3>1. \A r \in Requests : audit[r] # << >> => ~req[r].stream
            BY <1>1 DEF IInv, TypeOK, Request, Fits, Phases
        <3>2. /\ Told(l, "response") \union Rows(l, "ResponseSent") \subseteq Successes(l)
              /\ Told(l, "error") \union Rows(l, "RequestFailed") \subseteq Failures(l)
            BY <3>1, RowsDiffer
            DEF Told, Rows, Successes, Failures, Succeeded, Erred, Pending, AskedFor
        <3>3. Settled(l) \subseteq {r \in AskedFor(l) : ~req[r].stream}
            BY DEF Settled, Counted, Pending
        <3>4. IsFiniteSet({r \in AskedFor(l) : ~req[r].stream})
            <4>1. {r \in AskedFor(l) : ~req[r].stream} \subseteq Requests
                BY DEF AskedFor
            <4> QED
                BY <4>1, ChatAssumption, FS_Subset
        <3>5. /\ IsFiniteSet(Told(l, "response") \union Rows(l, "ResponseSent"))
              /\ IsFiniteSet(Told(l, "error") \union Rows(l, "RequestFailed"))
              /\ Cardinality(Told(l, "response") \union Rows(l, "ResponseSent"))
                    <= Cardinality(Successes(l))
              /\ Cardinality(Told(l, "error") \union Rows(l, "RequestFailed"))
                    <= Cardinality(Failures(l))
              /\ Cardinality(Settled(l)) <= Cardinality({r \in AskedFor(l) : ~req[r].stream})
            BY <3>2, <3>3, <3>4, SetsFinite, FS_Subset
        <3>6. /\ Cardinality(Told(l, "response") \union Rows(l, "ResponseSent")) \in Nat
              /\ Cardinality(Told(l, "error") \union Rows(l, "RequestFailed")) \in Nat
              /\ Cardinality({r \in AskedFor(l) : ~req[r].stream}) \in Nat
              /\ Cardinality(Successes(l)) \in Nat /\ Cardinality(Failures(l)) \in Nat
              /\ Cardinality(Settled(l)) \in Nat
              /\ requests_total[l].success \in Nat /\ requests_total[l].error \in Nat
            BY <1>1, <3>4, <3>5, SetsFinite, FS_CardinalityType DEF IInv, TypeOK
        <3>7. /\ Cardinality(Successes(l)) <= requests_total[l].success
              /\ Cardinality(Failures(l)) <= requests_total[l].error
              /\ requests_total[l].success + requests_total[l].error
                    <= Cardinality(Settled(l))
            BY <1>1 DEF IInv, BooksFit
        <3> QED
            BY <3>5, <3>6, <3>7
    <2> QED
        BY <2>1, <2>2 DEF BooksAgree
<1> QED
    BY <1>1

\* Metrics, audit table and clients agree, for any number of requests in any
\* order and wherever their handlers are dropped.
THEOREM TheBooksAgree == ApiSpec => []BooksAgree
    BY BooksThatFit, Invariance, PTL

-----------------------------------------------------------------------------
(* After the answer.                                                       *)

\* What Serve may do to the request it serves.
LEMMA ServeMoves ==
    ASSUME IInv, NEW r \in Requests, Serve(r)
    PROVE  /\ Alone(r) /\ SameAsk(r)
           /\ req[r].phase # "new"
           /\ \/ req[r].phase \notin {"streaming", "orphaned", "done"}
              \/ /\ req[r].phase \in {"streaming", "orphaned"} /\ req'[r].phase = "done"
                 /\ req'[r].pos = req[r].pos
                 /\ audit'[r] \in RowsFrom(r) /\ UNCHANGED client
<1>1. CASE Call(r)
    BY <1>1, CallStep
<1>2. CASE Skip(r)
    BY <1>2, SkipStep
<1>3. CASE ReportResult(r)
    BY <1>3, ReportResultStep
<1>4. ASSUME NEW ok \in BOOLEAN, Answer(r, ok)
      PROVE  Alone(r) /\ SameAsk(r) /\ req[r].phase = "sending"
    BY <1>4, AnswerStep
<1>5. CASE CountSuccess(r)
    BY <1>5, CountSuccessStep
<1>6. CASE CountError(r)
    BY <1>6, CountErrorStep
<1>7. CASE RefuseStream(r)
    BY <1>7, RefuseStreamStep
<1>8. ASSUME NEW persisted \in BOOLEAN, Persist(r, persisted)
      PROVE  /\ Alone(r) /\ SameAsk(r) /\ UNCHANGED client /\ req'[r].pos = req[r].pos
             /\ \/ req[r].phase = "auditing"
                \/ /\ req[r].phase = "orphaned" /\ req'[r].phase = "done"
                   /\ audit'[r] \in RowsFrom(r)
    BY <1>8, PersistStep DEF RowsFrom
<1>9. CASE EndStream(r)
    BY <1>9, EndStreamStep DEF RowsFrom
<1>10. CASE Drop(r)
    BY <1>10, DropStep
<1>11. CASE Respond(r)
    BY <1>11, RespondStep
<1> QED
    BY <1>1, <1>2, <1>3, <1>4, <1>5, <1>6, <1>7, <1>8, <1>9, <1>10, <1>11 DEF Serve

\* A request that is served came from where it can be served further.
LEMMA ServeKeepsGoing ==
    ASSUME IInv, NEW r \in Requests, Serve(r),
           req'[r].phase \in {"routing", "sending", "reporting", "answered"}
    PROVE  req[r].phase \in {"routing", "sending", "reporting", "answered"}
<1>1. CASE Call(r) \/ Skip(r) \/ ReportResult(r)
    BY <1>1 DEF Call, Skip, ReportResult
<1>2. ASSUME NEW ok \in BOOLEAN, Answer(r, ok) PROVE req[r].phase = "sending"
    BY <1>2 DEF Answer
<1>3. ASSUME CountSuccess(r) \/ CountError(r) PROVE req'[r].phase = "auditing"
    BY <1>3, CountSuccessStep, CountErrorStep
<1>4. ASSUME RefuseStream(r) \/ Respond(r) \/ EndStream(r) \/ Drop(r)
      PROVE  req'[r].phase \in {"orphaned", "done"}
    BY <1>4, RefuseStreamStep, RespondStep, EndStreamStep, DropStep
<1>5. ASSUME NEW persisted \in BOOLEAN, Persist(r, persisted)
      PROVE  req'[r].phase \in {"audited", "done"}
    BY <1>5, PersistStep
<1> QED
    BY <1>1, <1>2, <1>3, <1>4, <1>5 DEF Serve

\* A step is of one request, or of none.
LEMMA StepOfOne ==
    ASSUME IInv, [ApiNext]_apiVars
    PROVE  \/ UNCHANGED <<req, client, audit>>
           \/ \E r \in Requests : /\ Alone(r)
                                  /\ req[r].phase = "new" \/ Serve(r)
<1>1. CASE UNCHANGED vars
    BY <1>1 DEF vars
<1>2. ASSUME NEW r \in Requests, NEW ask \in Asks, NEW stream \in BOOLEAN,
             Receive(r, ask, stream)
      PROVE  Alone(r) /\ req[r].phase = "new"
    BY <1>2, ReceiveStep
<1>3. ASSUME NEW r \in Requests, Serve(r) PROVE Alone(r)
    BY <1>3, ServeMoves
<1>4. CASE Elapse
    BY <1>4 DEF Elapse
<1>5. ASSUME NEW r \in Requests, Refuse(r) PROVE Alone(r) /\ req[r].phase = "new"
    BY <1>5, RefuseStep
<1>6. CASE UNCHANGED apiVars
    BY <1>1, <1>6 DEF apiVars
<1> QED
    BY <1>1, <1>2, <1>3, <1>4, <1>5, <1>6, ApiSteps DEF Next

\* What a step leaves of a request whose client waits no longer.
AtRest(r) ==
    /\ client'[r] = client[r]
    /\ audit'[r] \in RowsFrom(r)
    /\ audit'[r] # audit[r] => req'[r].phase = "done"
    /\ req'[r].pos = req[r].pos
    /\ req'[r].phase \in
        ({req[r].phase} \intersect {"streaming", "orphaned"}) \union {"done"}

\* Once its client has an answer, a stream or is gone, nothing more is done in
\* a request's name, whatever the other requests do; only a row that was with
\* the sink when the client left may still be committed, and once.
THEOREM NothingAfterTheAnswer == ApiSpec => NoWorkAfterAnswer
<1>1. ASSUME IInv, [ApiNext]_apiVars, NEW r \in Requests, client[r] # "waiting"
      PROVE  AtRest(r)
    <2>1. req[r].phase \in {"streaming", "orphaned", "done"}
        BY <1>1 DEF IInv, TypeOK, Request, Fits, Phases
    <2>2. CASE UNCHANGED <<req, client, audit>>
        BY <2>1, <2>2 DEF AtRest, RowsFrom
    <2>3. ASSUME NEW q \in Requests, Alone(q), req[q].phase = "new" \/ Serve(q)
          PROVE  AtRest(r)
        <3>1. CASE q # r
            BY <2>1, <2>3, <3>1 DEF Alone, AtRest, RowsFrom
        <3>2. CASE q = r
            BY <1>1, <2>1, <2>3, <3>2, ServeMoves DEF AtRest
        <3> QED
            BY <3>1, <3>2
    <2> QED
        BY <1>1, <2>2, <2>3, StepOfOne
<1>2. IInv /\ [ApiNext]_apiVars =>
        [\A r \in Requests : client[r] # "waiting" => AtRest(r)]_vars
    BY <1>1
<1>3. IInv /\ [ApiNext]_apiVars =>
        [\A r \in Requests :
            client[r] # "waiting" =>
                /\ client'[r] = client[r]
                /\ audit'[r] \in RowsFrom(r)
                /\ audit'[r] # audit[r] => req'[r].phase = "done"
                /\ req'[r].pos = req[r].pos
                /\ req'[r].phase \in
                    ({req[r].phase} \intersect {"streaming", "orphaned"}) \union {"done"}]_vars
    BY <1>2 DEF AtRest
<1> QED
    BY <1>3, Invariance, PTL DEF ApiSpec, NoWorkAfterAnswer

-----------------------------------------------------------------------------
(* The ban.                                                                *)

LEMMA ObservedStays ==
    ASSUME NEW s \in QosStats, Excluded(s)
    PROVE  Excluded(Observed(s, TRUE))
    BY DEF Excluded, Observed, QosStats

\* A banned key is not observed, but for the refusals of requests that name it.
LEMMA BanObserved ==
    ASSUME IInv, NEW k \in Keys, Banned(k), NEW r \in Requests, Serve(r)
    PROVE  Excluded(qos'[k])
<1>1. /\ qos \in [Keys -> QosStats] /\ Excluded(qos[k]) /\ ~Holds(r, k)
      /\ req \in [Requests -> Request] /\ Fits(r)
    BY DEF IInv, TypeOK, Banned
<1>2. CASE UNCHANGED qos
    BY <1>1, <1>2
<1>3. ASSUME NEW ok \in BOOLEAN, Answer(r, ok) PROVE Excluded(qos'[k])
    <2>1. /\ req[r].phase = "sending" /\ req[r].pos \in 1 .. Len(req[r].ranked)
          /\ qos' = IF req[r].stream THEN qos
                    ELSE [qos EXCEPT ![Key(r)] = Observed(qos[Key(r)], ~ok)]
        BY <1>1, <1>3, AnswerStep DEF Fits
    <2>2. CASE req[r].stream
        BY <1>1, <2>1, <2>2
    <2>3. CASE ~req[r].stream
        <3>1. Key(r) # k
            BY <1>1, <2>1, <2>3 DEF Holds, Key
        <3> QED
            BY <1>1, <2>1, <2>3, <3>1
    <2> QED
        BY <2>2, <2>3
<1>4. CASE CountSuccess(r)
    <2>1. req[r].phase = "answered" /\ Observe(r, FALSE)
        BY <1>4, CountSuccessStep
    <2>2. ~req[r].stream /\ req[r].pos \in 1 .. Len(req[r].ranked)
        BY <1>1, <2>1 DEF Fits
    <2>3. req[r].ranked # << >>
        BY <1>1, <2>2 DEF Request
    <2>4. req[r].ask # k
        BY <1>1, <2>1, <2>2, <2>3 DEF Holds
    <2> QED
        BY <1>1, <2>1, <2>4 DEF Observe
<1>5. CASE CountError(r)
    <2>1. Observe(r, TRUE)
        BY <1>5, CountErrorStep
    <2>2. CASE req[r].ask = k
        <3>1. k # AutoName
            BY ChatAssumption
        <3>2. qos'[k] = Observed(qos[k], TRUE)
            BY <1>1, <2>1, <2>2, <3>1 DEF Observe
        <3> QED
            BY <1>1, <3>2, ObservedStays
    <2>3. CASE req[r].ask # k
        BY <1>1, <2>1, <2>3 DEF Observe
    <2> QED
        BY <2>2, <2>3
<1>6. CASE \/ Call(r) \/ Skip(r) \/ ReportResult(r) \/ RefuseStream(r) \/ Respond(r)
           \/ EndStream(r) \/ Drop(r)
    BY <1>2, <1>6 DEF Call, Skip, ReportResult, RefuseStream, Respond, EndStream, Drop
<1>7. ASSUME NEW persisted \in BOOLEAN, Persist(r, persisted) PROVE UNCHANGED qos
    BY <1>7 DEF Persist
<1> QED
    BY <1>2, <1>3, <1>4, <1>5, <1>6, <1>7 DEF Serve

\* No request takes up a banned key: it is not among the candidates kept.
LEMMA BanNotTakenUp ==
    ASSUME IInv, NEW k \in Keys, Banned(k), NEW r \in Requests,
           NEW ask \in Asks, NEW stream \in BOOLEAN, Receive(r, ask, stream)
    PROVE  ~Holds(r, k)'
<1> DEFINE candidates == IF ask = AutoName THEN AutoChain ELSE <<ask>>
           ranked == SelectCandidates(candidates, qos)
<1>1. /\ req'[r].ask = ask
      /\ req'[r].ranked = ranked
    BY ReceiveStep
<1>2. Excluded(qos[k])
    BY DEF Banned
<1>3. candidates \in Seq(Keys)
    BY ChatAssumption DEF Asks
<1>4. /\ ranked \in Seq({j \in Keys : ~Excluded(qos[j])})
      /\ \A n \in 1 .. Len(ranked) :
            \E i \in 1 .. Len(candidates) : ranked[n] = candidates[i]
    <2> HIDE DEF candidates
    <2> QED
        BY <1>3, CheapestFirst
<1> HIDE DEF ranked
<1>5. \A n \in 1 .. Len(ranked) : ranked[n] # k
    <2> DEFINE Left == {j \in Keys : ~Excluded(qos[j])}
    <2>1. k \notin Left
        BY <1>2
    <2>2. ranked \in Seq(Left)
        BY <1>4
    <2> HIDE DEF Left
    <2> QED
        BY <2>1, <2>2
<1>6. ask = k => ranked = << >>
    <2> SUFFICES ASSUME ask = k, ranked # << >> PROVE FALSE
        OBVIOUS
    <2>1. candidates = <<k>>
        BY ChatAssumption
    <2>2. 1 \in 1 .. Len(ranked)
        BY <1>4
    <2>3. PICK i \in 1 .. Len(candidates) : ranked[1] = candidates[i]
        BY <1>4, <2>2
    <2>4. ranked[1] = k
        BY <2>1, <2>3
    <2> QED
        BY <1>5, <2>2, <2>4
<1> QED
    BY <1>1, <1>5, <1>6 DEF Holds

\* A key that the error filter excludes while nobody uses it stays excluded, for
\* any candidates, prices and requests.
THEOREM BansLast == ApiSpec => BanIsForever
<1>1. ASSUME IInv, [ApiNext]_apiVars, NEW k \in Keys, Banned(k) PROVE Banned(k)'
    <2>1. Excluded(qos[k]) /\ \A r \in Requests : ~Holds(r, k)
        BY <1>1 DEF Banned
    <2>2. CASE UNCHANGED vars
        BY <2>1, <2>2 DEF vars, Banned, Holds
    <2>3. ASSUME NEW r \in Requests, NEW ask \in Asks, NEW stream \in BOOLEAN,
                 Receive(r, ask, stream)
          PROVE  Banned(k)'
        <3>1. ~Holds(r, k)' /\ UNCHANGED qos /\ Alone(r)
            BY <1>1, <2>3, BanNotTakenUp, ReceiveStep
        <3>2. \A q \in Requests : ~Holds(q, k)'
            BY <2>1, <3>1 DEF Alone, Holds
        <3> QED
            BY <2>1, <3>1, <3>2 DEF Banned
    <2>4. ASSUME NEW r \in Requests, Serve(r) PROVE Banned(k)'
        <3>1. Alone(r) /\ SameAsk(r) /\ Excluded(qos'[k])
            BY <1>1, <2>4, ServeMoves, BanObserved
        <3>2. ~Holds(r, k)'
            <4>1. Holds(r, k)' =>
                    req[r].phase \in {"routing", "sending", "reporting", "answered"}
                BY <1>1, <2>4, ServeKeepsGoing DEF Holds
            <4> QED
                BY <2>1, <3>1, <4>1 DEF Holds, SameAsk
        <3>3. \A q \in Requests : ~Holds(q, k)'
            BY <2>1, <3>1, <3>2 DEF Alone, Holds
        <3> QED
            BY <3>1, <3>3 DEF Banned
    <2>5. CASE Elapse
        BY <2>1, <2>5 DEF Elapse, Banned, Holds
    <2>6. ASSUME NEW r \in Requests, Refuse(r) PROVE Banned(k)'
        <3>1. UNCHANGED qos /\ Alone(r) /\ req'[r].phase = "done"
            BY <1>1, <2>6, RefuseStep
        <3>2. \A q \in Requests : ~Holds(q, k)'
            BY <2>1, <3>1 DEF Alone, Holds
        <3> QED
            BY <2>1, <3>1, <3>2 DEF Banned
    <2>7. CASE UNCHANGED apiVars
        BY <2>2, <2>7 DEF apiVars
    <2> QED
        BY <1>1, <2>2, <2>3, <2>4, <2>5, <2>6, <2>7, ApiSteps DEF Next
<1>2. IInv /\ [ApiNext]_apiVars => [\A k \in Keys : Banned(k) => Banned(k)']_vars
    BY <1>1
<1> QED
    BY <1>2, Invariance, PTL DEF ApiSpec, BanIsForever

-----------------------------------------------------------------------------
(* The callers of ProviderManager.                                         *)

AtOne(r) == req[r].phase \in {"sending", "reporting"}

InFlight == [p \in Registered |-> Cardinality(AtProvider(p))]

LEMMA AtProviderFinite ==
    ASSUME NEW p
    PROVE  /\ IsFiniteSet(AtProvider(p)) /\ Cardinality(AtProvider(p)) \in Nat
           /\ IsFiniteSet(AtProvider(p)') /\ Cardinality(AtProvider(p)') \in Nat
<1>1. AtProvider(p) \subseteq Requests /\ AtProvider(p)' \subseteq Requests
    BY DEF AtProvider
<1>2. IsFiniteSet(Requests)
    BY ChatAssumption
<1>3. IsFiniteSet(AtProvider(p)) /\ IsFiniteSet(AtProvider(p)')
    BY <1>1, <1>2, FS_Subset
<1> QED
    BY <1>3, FS_CardinalityType

\* A request that comes to its provider, leaves it, or does neither.
LEMMA ComesAndGoes ==
    ASSUME NEW r \in Requests, Alone(r)
    PROVE  /\ ~AtOne(r) /\ ~AtOne(r)' => InFlight' = InFlight
           /\ AtOne(r) /\ AtOne(r)' /\ Key(r)' = Key(r) => InFlight' = InFlight
           /\ ~AtOne(r) /\ AtOne(r)' /\ Key(r)' = Key(r) =>
                InFlight' = [InFlight EXCEPT ![Key(r).provider] =
                                InFlight[Key(r).provider] + 1]
           /\ AtOne(r) /\ ~AtOne(r)' /\ Key(r).provider \in Registered =>
                /\ InFlight[Key(r).provider] > 0
                /\ InFlight' = [InFlight EXCEPT ![Key(r).provider] =
                                InFlight[Key(r).provider] - 1]
<1>1. \A p : \A q \in Requests : q # r => (q \in AtProvider(p)' <=> q \in AtProvider(p))
    BY DEF Alone, AtProvider, Key
<1>2. \A p : /\ r \in AtProvider(p) <=> AtOne(r) /\ Key(r).provider = p
             /\ r \in AtProvider(p)' <=> AtOne(r)' /\ Key(r)'.provider = p
             /\ AtProvider(p) \subseteq Requests /\ AtProvider(p)' \subseteq Requests
    BY DEF AtOne, AtProvider
<1>3. \A p : (r \in AtProvider(p)' <=> r \in AtProvider(p)) => AtProvider(p)' = AtProvider(p)
    BY <1>1, <1>2
<1>4. ASSUME NEW p \in Registered, r \notin AtProvider(p), r \in AtProvider(p)'
      PROVE  Cardinality(AtProvider(p)') = Cardinality(AtProvider(p)) + 1
    <2>1. AtProvider(p)' = AtProvider(p) \union {r}
        BY <1>1, <1>2, <1>4
    <2> QED
        BY <1>4, <2>1, AtProviderFinite, FS_AddElement
<1>5. ASSUME NEW p \in Registered, r \in AtProvider(p), r \notin AtProvider(p)'
      PROVE  /\ Cardinality(AtProvider(p)) > 0
             /\ Cardinality(AtProvider(p)') = Cardinality(AtProvider(p)) - 1
    <2>1. AtProvider(p)' = AtProvider(p) \ {r}
        BY <1>1, <1>2, <1>5
    <2>2. Cardinality(AtProvider(p)') = Cardinality(AtProvider(p)) - 1
        BY <1>5, <2>1, AtProviderFinite, FS_RemoveElement
    <2> QED
        BY <2>2, AtProviderFinite
<1>6. ASSUME (~AtOne(r) /\ ~AtOne(r)') \/ (AtOne(r) /\ AtOne(r)' /\ Key(r)' = Key(r))
      PROVE  InFlight' = InFlight
    <2>1. \A p : AtProvider(p)' = AtProvider(p)
        BY <1>2, <1>3, <1>6
    <2> QED
        BY <1>6, <2>1 DEF InFlight
<1>7. ASSUME ~AtOne(r), AtOne(r)', Key(r)' = Key(r)
      PROVE  InFlight' = [InFlight EXCEPT ![Key(r).provider] =
                            InFlight[Key(r).provider] + 1]
    <2>1. \A p \in Registered :
            Cardinality(AtProvider(p)') = IF p = Key(r).provider
                                          THEN Cardinality(AtProvider(p)) + 1
                                          ELSE Cardinality(AtProvider(p))
        BY <1>2, <1>3, <1>4, <1>7
    <2> QED
        BY <1>7, <2>1 DEF InFlight
<1>8. ASSUME AtOne(r), ~AtOne(r)', Key(r).provider \in Registered
      PROVE  /\ InFlight[Key(r).provider] > 0
             /\ InFlight' = [InFlight EXCEPT ![Key(r).provider] =
                            InFlight[Key(r).provider] - 1]
    <2>1. \A p \in Registered :
            Cardinality(AtProvider(p)') = IF p = Key(r).provider
                                          THEN Cardinality(AtProvider(p)) - 1
                                          ELSE Cardinality(AtProvider(p))
        BY <1>2, <1>3, <1>5, <1>8
    <2>2. Cardinality(AtProvider(Key(r).provider)) > 0
        BY <1>2, <1>5, <1>8
    <2> QED
        BY <1>8, <2>1, <2>2 DEF InFlight
<1> QED
    BY <1>6, <1>7, <1>8

LEMMA PMStutter == breakers' = breakers /\ InFlight' = InFlight => UNCHANGED PM!vars
    BY DEF PM!vars, InFlight

\* ProviderManager starts as the server does.
LEMMA InitPM == Init => PM!Init
<1> SUFFICES ASSUME Init PROVE PM!Init
    OBVIOUS
<1>1. \A p : AtProvider(p) = {}
    BY DEF Init, AtProvider
<1>2. Cardinality({}) = 0
    BY FS_EmptySet
<1> QED
    BY <1>1, <1>2 DEF Init, PM!Init, PM!NewBreaker, NewBreaker

LEMMA CallAdmits ==
    ASSUME IInv, NEW r \in Requests, Call(r)
    PROVE  PM!Next
<1> DEFINE p == Key(r).provider
<1>1. /\ Alone(r) /\ SameAsk(r) /\ req[r].phase = "routing" /\ req'[r].phase = "sending"
      /\ req'[r].pos = req[r].pos /\ p \in Registered
    BY CallStep
<1>2. /\ CanAttempt(breakers[p], Config[p])
      /\ breakers' = [breakers EXCEPT ![p] = AfterCanAttempt(breakers[p], Config[p])]
    BY DEF Call
<1>3. ~AtOne(r) /\ AtOne(r)' /\ Key(r)' = Key(r)
    BY <1>1 DEF AtOne, Key, SameAsk
<1>4. InFlight' = [InFlight EXCEPT ![p] = InFlight[p] + 1]
    BY <1>1, <1>3, ComesAndGoes
<1>5. InFlight[p] < Cardinality(Requests)
    <2>1. IsFiniteSet(Requests) /\ AtProvider(p) \subseteq Requests
        BY ChatAssumption DEF AtProvider
    <2>2. r \notin AtProvider(p)
        BY <1>3 DEF AtProvider, AtOne
    <2>3. /\ Cardinality(AtProvider(p)) <= Cardinality(Requests)
          /\ Cardinality(AtProvider(p)) # Cardinality(Requests)
        BY <2>1, <2>2, FS_Subset
    <2>4. Cardinality(Requests) \in Nat /\ Cardinality(AtProvider(p)) \in Nat
        BY <2>1, FS_CardinalityType, AtProviderFinite
    <2> QED
        BY <1>1, <2>3, <2>4 DEF InFlight
<1>6. PM!Admit(p)
    BY <1>1, <1>2, <1>4, <1>5
    DEF PM!Admit, InFlight, PM!CanAttempt, PM!AfterCanAttempt, PM!CooledDown,
        CanAttempt, AfterCanAttempt, CooledDown
<1> QED
    BY <1>1, <1>6 DEF PM!Next

LEMMA ReportResultReports ==
    ASSUME IInv, NEW r \in Requests, ReportResult(r)
    PROVE  PM!Next
<1> DEFINE p == Key(r).provider
<1>1. /\ Alone(r) /\ req[r].phase = "reporting"
      /\ req'[r].phase \in {"answered", "streaming", "routing"}
    BY ReportResultStep
<1>2. p \in Registered /\ req[r].ok \in BOOLEAN
    BY <1>1 DEF IInv, Fits, TypeOK, Request
<1>3. breakers' = [breakers EXCEPT ![p] = IF req[r].ok
                                          THEN RecordSuccess(breakers[p], Config[p])
                                          ELSE RecordFailure(breakers[p], Config[p])]
    BY DEF ReportResult
<1>4. AtOne(r) /\ ~AtOne(r)'
    BY <1>1 DEF AtOne
<1>5. InFlight[p] > 0 /\ InFlight' = [InFlight EXCEPT ![p] = InFlight[p] - 1]
    BY <1>1, <1>2, <1>4, ComesAndGoes
<1>6. PM!Report(p, req[r].ok)
    BY <1>3, <1>5
    DEF PM!Report, InFlight, PM!RecordSuccess, PM!RecordFailure, RecordSuccess, RecordFailure
<1> QED
    BY <1>2, <1>6 DEF PM!Next

LEMMA DropAbandons ==
    ASSUME IInv, NEW r \in Requests, Drop(r)
    PROVE  [PM!Next]_PM!vars
<1> DEFINE p == Key(r).provider
<1>1. Alone(r) /\ UNCHANGED breakers /\ req'[r].phase \in {"orphaned", "done"}
    BY DropStep
<1>2. ~AtOne(r)'
    BY <1>1 DEF AtOne
<1>3. CASE ~AtOne(r)
    BY <1>1, <1>2, <1>3, ComesAndGoes, PMStutter
<1>4. CASE AtOne(r)
    <2>1. p \in Registered
        BY <1>4 DEF IInv, Fits, AtOne
    <2>2. InFlight[p] > 0 /\ InFlight' = [InFlight EXCEPT ![p] = InFlight[p] - 1]
        BY <1>1, <1>2, <1>4, <2>1, ComesAndGoes
    <2>3. PM!Abandon(p)
        BY <1>1, <2>2 DEF PM!Abandon, InFlight
    <2> QED
        BY <2>1, <2>3 DEF PM!Next
<1> QED
    BY <1>3, <1>4

LEMMA ServeSimulates ==
    ASSUME IInv, NEW r \in Requests, Serve(r)
    PROVE  [PM!Next]_PM!vars
<1>1. Alone(r) /\ SameAsk(r)
    BY ServeMoves
<1>2. ASSUME NEW ok \in BOOLEAN, Answer(r, ok) PROVE [PM!Next]_PM!vars
    <2>1. /\ req[r].phase = "sending" /\ req'[r].phase = "reporting"
          /\ req'[r].pos = req[r].pos /\ UNCHANGED breakers
        BY <1>2, AnswerStep
    <2>2. AtOne(r) /\ AtOne(r)' /\ Key(r)' = Key(r)
        BY <1>1, <2>1 DEF AtOne, Key, SameAsk
    <2> QED
        BY <1>1, <2>1, <2>2, ComesAndGoes, PMStutter
<1>3. ASSUME ~AtOne(r), ~AtOne(r)', UNCHANGED breakers PROVE [PM!Next]_PM!vars
    BY <1>1, <1>3, ComesAndGoes, PMStutter
<1>4. CASE Skip(r)
    BY <1>3, <1>4, SkipStep DEF AtOne
<1>5. CASE CountSuccess(r)
    BY <1>3, <1>5, CountSuccessStep DEF AtOne
<1>6. CASE CountError(r)
    BY <1>3, <1>6, CountErrorStep DEF AtOne
<1>7. CASE RefuseStream(r)
    BY <1>3, <1>7, RefuseStreamStep DEF AtOne
<1>8. CASE EndStream(r)
    BY <1>3, <1>8, EndStreamStep DEF AtOne
<1>9. ASSUME NEW persisted \in BOOLEAN, Persist(r, persisted) PROVE [PM!Next]_PM!vars
    BY <1>3, <1>9, PersistStep DEF AtOne
<1>10. CASE Respond(r)
    BY <1>3, <1>10, RespondStep DEF AtOne
<1> QED
    BY <1>2, <1>4, <1>5, <1>6, <1>7, <1>8, <1>9, <1>10, CallAdmits, ReportResultReports, DropAbandons
    DEF Serve

LEMMA ElapseSimulates ==
    ASSUME Elapse
    PROVE  PM!Next
<1>1. \A p : AtProvider(p)' = AtProvider(p)
    BY DEF Elapse, AtProvider, Key
<1>2. PM!Elapse
    BY <1>1 DEF Elapse, PM!Elapse, PM!Aged, Aged
<1> QED
    BY <1>2 DEF PM!Next

\* Every step of the server is one of ProviderManager or none.
LEMMA StepSimulates ==
    ASSUME IInv, [ApiNext]_apiVars
    PROVE  [PM!Next]_PM!vars
<1>1. CASE UNCHANGED vars
    <2>1. UNCHANGED <<breakers, req>>
        BY <1>1 DEF vars
    <2>2. \A p : AtProvider(p)' = AtProvider(p)
        BY <2>1 DEF AtProvider, Key
    <2> QED
        BY <2>1, <2>2, PMStutter DEF InFlight
<1>2. ASSUME NEW r \in Requests, NEW ask \in Asks, NEW stream \in BOOLEAN,
             Receive(r, ask, stream)
      PROVE  [PM!Next]_PM!vars
    <2>1. ~AtOne(r) /\ ~AtOne(r)' /\ Alone(r) /\ UNCHANGED breakers
        BY <1>2, ReceiveStep DEF AtOne
    <2> QED
        BY <2>1, ComesAndGoes, PMStutter
<1>3. ASSUME NEW r \in Requests, Refuse(r) PROVE [PM!Next]_PM!vars
    <2>1. ~AtOne(r) /\ ~AtOne(r)' /\ Alone(r) /\ UNCHANGED breakers
        BY <1>3, RefuseStep DEF AtOne
    <2> QED
        BY <2>1, ComesAndGoes, PMStutter
<1>4. CASE UNCHANGED apiVars
    BY <1>1, <1>4 DEF apiVars
<1> QED
    BY <1>1, <1>2, <1>3, <1>4, ApiSteps, ServeSimulates, ElapseSimulates DEF Next

\* The handlers call ProviderManager as it expects: every step of the server is
\* one of its operations or none, for any number of providers and requests.
THEOREM HandlersCallTheManager == ApiSpec => ImplementsProviderManager
<1>1. ApiInit => PM!Init
    BY InitPM DEF ApiInit
<1>2. IInv /\ [ApiNext]_apiVars => [PM!Next]_PM!vars
    BY StepSimulates
<1> QED
    BY <1>1, <1>2, Invariance, PTL DEF ApiSpec, ImplementsProviderManager, PM!Spec

-----------------------------------------------------------------------------
(* The wire.  What was sent and answered for a request, and how far it is. *)

\* Where a request is whose last provider gave an answer.
Late == {"reporting", "answered", "streaming", "auditing", "audited", "orphaned", "done"}

Arrives(r) ==
    /\ sent[r] # NothingSent =>
        /\ Turns(r, {"assistant", "model"}) = Asked(r, {"assistant"})
        /\ NoFunctions(r) =>
              /\ Turns(r, {"user"}) = Asked(r, {"user"})
              /\ Turns(r, {"user", "assistant", "model"}) = Asked(r, {"user", "assistant"})
    /\ req[r].stream /\ ~chat[r].in_range => sent[r] = NothingSent

TellsOfCut(r) ==
    answer[r].response.ok /\ answer[r].reply.stop = "length"
        => \/ answer[r].response.finish # "Stop"
           \/ Key(r).provider = "llamacpp"
           \/ Key(r).provider = "ml-ops" /\ answer[r].reply.texts = <<>>

WireFits(r) ==
    /\ req[r].phase = "new" => sent[r] = NothingSent
    /\ answer[r].response.ok =>
        /\ req[r].phase \in Late
        /\ req[r].phase = "reporting" => req[r].ok
    /\ chat[r].messages \in Seq({chat[r].messages[i] : i \in DOMAIN chat[r].messages})
    /\ Arrives(r) /\ TellsOfCut(r)

WireIInv ==
    /\ IInv
    /\ DOMAIN chat = Requests /\ DOMAIN sent = Requests /\ DOMAIN answer = Requests
    /\ \A r \in Requests : WireFits(r)

\* What a provider is sent is the conversation, or it is sent nothing.
LEMMA SentIs ==
    ASSUME NEW p \in ProviderNames, NEW request, IsChat(request.messages),
           request.system = <<>>, NEW reply
    PROVE  LET wire == SendRequest(p, request, reply).wire IN
           wire = NothingSent \/ SaysTheSame(wire.turns, request.messages)
<1>1. CASE p \in {"openai", "deepseek", "anthropic"} /\ ~Valid(request)
    <2>1. SendRequest(p, request, reply) = Unsent
        BY <1>1 DEF SendRequest, OpenAiSend, DeepSeekSend, AnthropicSend
    <2> QED
        BY <2>1 DEF Unsent, Exchange
<1>2. CASE ~(p \in {"openai", "deepseek", "anthropic"} /\ ~Valid(request))
    BY <1>2, ConversationIsHeard
<1> QED
    BY <1>1, <1>2

\* A stream says the same upstream as the conversation, or sends nothing.
LEMMA StreamedIs ==
    ASSUME NEW p \in ProviderNames, NEW request, IsChat(request.messages),
           request.system = <<>>, NEW reply
    PROVE  LET wire == StreamRequest(p, request, reply).wire IN
           \/ wire = NothingSent
           \/ Valid(request) /\ SaysTheSame(wire.turns, request.messages)
<1> DEFINE wire == StreamRequest(p, request, reply).wire
           other == SendRequest(p, request, reply).wire
<1>1. CASE p \in {"openai", "deepseek", "groq", "ml-ops"} /\ Valid(request)
    <2>1. wire = other
        BY <1>1 DEF StreamRequest, OpenAiStream, DeepSeekStream, GroqStream, MlOpsStream, Open,
            SendRequest, OpenAiSend, DeepSeekSend, GroqSend, MlOpsSend, Exchange
    <2>2. SaysTheSame(other.turns, request.messages)
        BY <1>1, ConversationIsHeard
    <2> QED
        BY <1>1, <2>1, <2>2
<1>2. CASE ~(p \in {"openai", "deepseek", "groq", "ml-ops"} /\ Valid(request))
    <2>1. StreamRequest(p, request, reply) \in {Unsent, NoStream}
        BY <1>2 DEF StreamRequest, OpenAiStream, DeepSeekStream, GroqStream, MlOpsStream,
            ProviderNames
    <2> QED
        BY <2>1 DEF Unsent, NoStream, Exchange
<1> QED
    BY <1>1, <1>2

\* What a caller is told of an answer cut short.
LEMMA CutIs ==
    ASSUME NEW p \in ProviderNames, NEW request, NEW reply, reply.kind \in ReplyKinds,
           reply.stop = "length"
    PROVE  LET result == SendRequest(p, request, reply).result IN
           result.ok => \/ result.finish # "Stop" \/ p = "llamacpp"
                        \/ p = "ml-ops" /\ reply.texts = <<>>
<1> DEFINE result == SendRequest(p, request, reply).result
<1>1. ~Err("InvalidRequest").ok /\ ~Err("Provider").ok
    BY DEF Err
<1>2. reply.kind # "answer" => ~Failed(reply).ok
    BY DEF Failed, Err, ReplyKinds
<1>3. OpenAiFinish(reply.stop) = "Length" /\ FinishReason(reply.stop) = "Length"
    BY DEF OpenAiFinish, FinishReason
<1>4. \/ result = Err("InvalidRequest") \/ result = Err("Provider")
      \/ reply.kind # "answer" /\ result = Failed(reply)
      \/ \E texts, finish :
            /\ result = Ok(texts, finish)
            /\ \/ finish \in {"Length", NoFinish} \/ p = "llamacpp"
               \/ p = "ml-ops" /\ reply.texts = <<>>
    BY <1>3 DEF ProviderNames, SendRequest, OpenAiSend, DeepSeekSend, AnthropicSend, GeminiSend,
        GroqSend, NvidiaSend, LlamaCppSend, MlOpsSend, Unsent, Exchange, OpenAiResponse,
        DeepSeekResponse, AnthropicResponse, GeminiResponse, GroqResponse, NvidiaResponse,
        LlamaCppResponse, MlOpsResponse
<1>5. \A texts, finish : Ok(texts, finish).finish = finish
    BY DEF Ok
<1>6. NoFinish # "Stop"
    BY DEF NoFinish
<1> QED
    BY <1>1, <1>2, <1>4, <1>5, <1>6

\* What convert_message makes of a chat is one.
LEMMA CoreIs ==
    ASSUME NEW r \in Requests, WireFits(r)
    PROVE  LET request == CoreRequest(r) IN
           /\ IsChat(request.messages) /\ request.system = <<>>
           /\ request.in_range = chat[r].in_range
           /\ NoFunctions(r) => IsTalk(request.messages)
<1> DEFINE given == chat[r].messages
           n == Len(given)
           ms == [i \in 1 .. n |-> CoreMessage(given[i])]
<1>1. n \in Nat /\ DOMAIN given = 1 .. n
    BY DEF WireFits
<1> HIDE DEF n, given
<1>2. CoreRequest(r).messages = ms
    BY <1>1 DEF CoreRequest, given
<1>3. /\ ms = [i \in 1 .. n |-> ms[i]] /\ DOMAIN ms = 1 .. n
      /\ \A i \in 1 .. n : ms[i].role = IF given[i].role \in Roles THEN given[i].role ELSE "user"
    BY DEF CoreMessage, Said
<1> HIDE DEF ms
<1>4. ms \in Seq({ms[i] : i \in DOMAIN ms})
    <2>1. ms \in Seq({ms[i] : i \in 1 .. n})
        BY ONLY <1>1, <1>3, AppendIs
    <2> QED
        BY <1>3, <2>1
<1>5. \A i \in DOMAIN ms : ms[i].role \in Roles
    BY <1>3 DEF Roles
<1>6. ASSUME NoFunctions(r)
      PROVE  \A i \in DOMAIN ms : ms[i].role \in {"system", "user", "assistant"}
    <2>1. \A i \in 1 .. n : given[i].role # "function"
        BY <1>1, <1>6 DEF NoFunctions, given
    <2> QED
        BY <1>3, <2>1 DEF Roles
<1> QED
    BY <1>2, <1>4, <1>5, <1>6 DEF IsChat, IsTalk, CoreRequest

\* Whose step it was not: nothing was sent or answered for it.
LEMMA OthersKeep ==
    ASSUME WireIInv, NEW q \in Requests, req'[q] = req[q], chat'[q] = chat[q],
           sent'[q] = sent[q], answer'[q] = answer[q]
    PROVE  WireFits(q)'
<1>1. WireFits(q)
    BY DEF WireIInv
<1>2. CoreRequest(q)' = CoreRequest(q) /\ Key(q)' = Key(q)
    BY DEF CoreRequest, CoreMessage, Key
<1>3. \A roles : Turns(q, roles)' = Turns(q, roles) /\ Asked(q, roles)' = Asked(q, roles)
    BY <1>2 DEF Turns, Asked
<1>4. NoFunctions(q)' <=> NoFunctions(q)
    BY DEF NoFunctions
<1> QED
    BY <1>1, <1>2, <1>3, <1>4 DEF WireFits, Arrives, TellsOfCut

\* A request that goes on, and nothing is sent or answered for it.
LEMMA GoesOn ==
    ASSUME WireIInv, NEW r \in Requests, SameAsk(r), UNCHANGED <<chat, sent, answer>>,
           req'[r].phase # "new",
           req[r].phase \in Late =>
              \/ req[r].phase = "reporting" /\ ~req[r].ok
              \/ /\ req'[r].phase \in Late \ {"reporting"}
                 /\ req'[r].pos = req[r].pos
    PROVE  WireFits(r)'
<1>1. WireFits(r)
    BY DEF WireIInv
<1>2. answer[r].response.ok => Key(r)' = Key(r)
                /\ req'[r].phase \in Late \ {"reporting"}
    BY <1>1 DEF WireFits, Key, SameAsk
<1>3. CoreRequest(r)' = CoreRequest(r)
    BY DEF CoreRequest, CoreMessage
<1>4. \A roles : Turns(r, roles)' = Turns(r, roles) /\ Asked(r, roles)' = Asked(r, roles)
    BY <1>3 DEF Turns, Asked
<1>5. NoFunctions(r)' <=> NoFunctions(r)
    BY DEF NoFunctions
<1>6. Arrives(r)'
    BY <1>1, <1>4, <1>5 DEF WireFits, Arrives, SameAsk
<1>7. TellsOfCut(r)'
    BY <1>1, <1>2 DEF WireFits, TellsOfCut
<1> QED
    BY <1>1, <1>2, <1>6, <1>7 DEF WireFits

\* A step of the route that the wire does not see.
LEMMA UnseenFits ==
    ASSUME WireIInv, NEW r \in Requests, UNCHANGED <<chat, sent, answer>>,
           \/ Drop(r) \/ Call(r) \/ Skip(r) \/ ReportResult(r)
           \/ CountSuccess(r) \/ CountError(r) \/ RefuseStream(r) \/ EndStream(r)
           \/ Respond(r) \/ \E persisted \in BOOLEAN : Persist(r, persisted)
    PROVE  WireIInv'
<1>1. IInv
    BY DEF WireIInv
<1>2. Serve(r)
    BY DEF Serve
<1>3. IInv'
    BY <1>1, <1>2, NextIInv DEF Next
<1>4. Alone(r) /\ SameAsk(r)
    BY <1>1, <1>2, ServeMoves
<1>5. /\ req'[r].phase # "new"
      /\ req[r].phase \in Late =>
            \/ req[r].phase = "reporting" /\ ~req[r].ok
            \/ /\ req'[r].phase \in Late \ {"reporting"}
               /\ req'[r].pos = req[r].pos
    <2>1. CASE Drop(r)
        BY <1>1, <2>1, DropStep DEF Late
    <2>2. CASE Call(r)
        BY <1>1, <2>2, CallStep DEF Late
    <2>3. CASE Skip(r)
        BY <1>1, <2>3, SkipStep DEF Late
    <2>4. CASE ReportResult(r)
        BY <1>1, <2>4, ReportResultStep DEF Late
    <2>5. CASE CountSuccess(r)
        BY <1>1, <2>5, CountSuccessStep DEF Late
    <2>6. CASE CountError(r)
        BY <1>1, <2>6, CountErrorStep DEF Late
    <2>7. CASE RefuseStream(r)
        BY <1>1, <2>7, RefuseStreamStep DEF Late
    <2>8. CASE EndStream(r)
        BY <1>1, <2>8, EndStreamStep DEF Late
    <2>9. ASSUME NEW persisted \in BOOLEAN, Persist(r, persisted)
          PROVE  /\ req'[r].phase # "new"
                 /\ req[r].phase \in Late =>
                       \/ req[r].phase = "reporting" /\ ~req[r].ok
                       \/ /\ req'[r].phase \in Late \ {"reporting"}
                          /\ req'[r].pos = req[r].pos
        BY <1>1, <2>9, PersistStep DEF Late
    <2>10. CASE Respond(r)
        BY <1>1, <2>10, RespondStep DEF Late
    <2> QED
        BY <2>1, <2>2, <2>3, <2>4, <2>5, <2>6, <2>7, <2>8, <2>9, <2>10
<1>6. WireFits(r)'
    BY <1>4, <1>5, GoesOn
<1>7. \A q \in Requests : q # r => WireFits(q)'
    BY <1>4, OthersKeep DEF Alone
<1> QED
    BY <1>3, <1>6, <1>7 DEF WireIInv

LEMMA ReceiveChatFits ==
    ASSUME WireIInv, NEW r \in Requests, NEW ask \in Asks, NEW stream \in BOOLEAN,
           NEW c \in Chats, ReceiveChat(r, ask, stream, c)
    PROVE  WireIInv'
<1>1. IInv /\ WireFits(r) /\ DOMAIN chat = Requests
    BY DEF WireIInv
<1>2. Receive(r, ask, stream) /\ chat' = [chat EXCEPT ![r] = c] /\ UNCHANGED <<sent, answer>>
    BY DEF ReceiveChat
<1>3. IInv'
    BY <1>1, <1>2, NextIInv DEF Next
<1>4. Alone(r) /\ req[r].phase = "new" /\ req'[r].phase = "routing"
    BY <1>1, <1>2, ReceiveStep
<1>5. sent'[r] = NothingSent /\ ~answer'[r].response.ok
    BY <1>1, <1>2, <1>4 DEF WireFits, Late
<1>6. /\ chat'[r] = c /\ DOMAIN chat' = Requests
      /\ \A q \in Requests : q # r => chat'[q] = chat[q]
    BY <1>1, <1>2
<1>7. c.messages \in Seq({c.messages[i] : i \in DOMAIN c.messages})
    BY WireAssumption
<1>8. WireFits(r)'
    BY <1>4, <1>5, <1>6, <1>7 DEF WireFits, Arrives, TellsOfCut
<1>9. \A q \in Requests : q # r => WireFits(q)'
    BY <1>2, <1>4, <1>6, OthersKeep DEF Alone
<1> QED
    BY <1>2, <1>3, <1>6, <1>8, <1>9 DEF WireIInv

\* A call returns, with what was sent for it and what came back.
LEMMA AnswerWireFits ==
    ASSUME WireIInv, NEW r \in Requests, NEW ok \in BOOLEAN, Answer(r, ok),
           UNCHANGED chat, NEW wire, sent' = [sent EXCEPT ![r] = wire],
           DOMAIN answer' = Requests, \A q \in Requests : q # r => answer'[q] = answer[q],
           wire = NothingSent \/ SaysTheSame(wire.turns, CoreRequest(r).messages),
           req[r].stream /\ ~chat[r].in_range => wire = NothingSent,
           answer'[r].response.ok => ok,
           TellsOfCut(r)'
    PROVE  WireIInv'
<1>1. IInv /\ WireFits(r) /\ DOMAIN sent = Requests /\ DOMAIN chat = Requests
    BY DEF WireIInv
<1>2. IInv'
    <2>1. Serve(r)
        BY DEF Serve
    <2> QED
        BY <1>1, <2>1, NextIInv DEF Next
<1>3. /\ Alone(r) /\ SameAsk(r) /\ req'[r].phase = "reporting" /\ req'[r].ok = ok
    BY <1>1, AnswerStep
<1>4. /\ sent'[r] = wire /\ DOMAIN sent' = Requests
      /\ \A q \in Requests : q # r => sent'[q] = sent[q]
    BY <1>1
<1>5. CoreRequest(r)' = CoreRequest(r)
    BY DEF CoreRequest, CoreMessage
<1>6. \A roles : /\ Turns(r, roles)' = Heard(wire.turns, roles)
                 /\ Asked(r, roles)' = Words(CoreRequest(r).messages, roles)
    BY <1>4, <1>5 DEF Turns, Asked, Heard, Words
<1>7. NoFunctions(r)' => IsTalk(CoreRequest(r).messages)
    BY <1>1, CoreIs DEF NoFunctions
<1>8. Arrives(r)'
    BY <1>3, <1>4, <1>6, <1>7 DEF Arrives, SaysTheSame, SameAsk
<1>9. WireFits(r)'
    BY <1>1, <1>3, <1>8 DEF WireFits, Late
<1>10. \A q \in Requests : q # r => WireFits(q)'
    BY <1>3, <1>4, OthersKeep DEF Alone
<1> QED
    BY <1>1, <1>2, <1>4, <1>9, <1>10 DEF WireIInv

LEMMA AnswerBufferedFits ==
    ASSUME WireIInv, NEW r \in Requests, NEW reply \in Replies, AnswerBuffered(r, reply)
    PROVE  WireIInv'
<1> DEFINE p == Key(r).provider
           request == CoreRequest(r)
           x == SendRequest(p, request, reply)
<1>1. IInv /\ WireFits(r) /\ DOMAIN answer = Requests
    BY DEF WireIInv
<1>2. /\ req[r].phase = "sending" /\ ~req[r].stream
      /\ Answer(r, x.result.ok)
      /\ sent' = [sent EXCEPT ![r] = x.wire]
      /\ answer' = [answer EXCEPT ![r] = [reply |-> reply, response |-> x.result]]
      /\ UNCHANGED chat
    BY DEF AnswerBuffered
<1>3. p \in ProviderNames
    BY <1>1, <1>2, WireAssumption DEF IInv, Fits
<1>4. IsChat(request.messages) /\ request.system = <<>>
    BY <1>1, CoreIs
<1>5. x.wire = NothingSent \/ SaysTheSame(x.wire.turns, request.messages)
    BY <1>3, <1>4, SentIs
<1>6. reply.stop = "length" /\ x.result.ok =>
        \/ x.result.finish # "Stop" \/ p = "llamacpp"
        \/ p = "ml-ops" /\ reply.texts = <<>>
    <2>1. reply.kind \in ReplyKinds
        BY WireAssumption
    <2> QED
        BY <1>3, <2>1, CutIs
<1>7. x.result.ok \in BOOLEAN
    <2>1. \/ x.result = Err("InvalidRequest") \/ x.result = Err("Provider")
          \/ reply.kind # "answer" /\ x.result = Failed(reply)
          \/ \E texts, finish : x.result = Ok(texts, finish)
        BY <1>3 DEF ProviderNames, SendRequest, OpenAiSend, DeepSeekSend, AnthropicSend,
            GeminiSend, GroqSend, NvidiaSend, LlamaCppSend, MlOpsSend, Unsent, Exchange,
            OpenAiResponse, DeepSeekResponse, AnthropicResponse, GeminiResponse, GroqResponse,
            NvidiaResponse, LlamaCppResponse, MlOpsResponse
    <2>2. reply.kind # "answer" => Failed(reply).ok = FALSE
        BY WireAssumption DEF ReplyKinds, Failed, Err
    <2>3. \A texts, finish : Ok(texts, finish).ok = TRUE
        BY DEF Ok
    <2>4. Err("InvalidRequest").ok = FALSE /\ Err("Provider").ok = FALSE
        BY DEF Err
    <2> HIDE DEF x
    <2> QED
        BY <2>1, <2>2, <2>3, <2>4
<1> HIDE DEF x
<1>8. SameAsk(r) /\ req'[r].pos = req[r].pos
    BY <1>1, <1>2, <1>7, AnswerStep
<1>9. /\ answer'[r].reply = reply /\ answer'[r].response = x.result
      /\ DOMAIN answer' = Requests
      /\ \A q \in Requests : q # r => answer'[q] = answer[q]
    BY <1>1, <1>2
<1>10. TellsOfCut(r)'
    BY <1>6, <1>8, <1>9 DEF TellsOfCut, Key, SameAsk
<1> QED
    BY <1>2, <1>5, <1>7, <1>9, <1>10, AnswerWireFits

LEMMA AnswerStreamFits ==
    ASSUME WireIInv, NEW r \in Requests, NEW reply \in Replies, NEW b,
           AnswerStream(r, reply, b)
    PROVE  WireIInv'
<1> DEFINE p == Key(r).provider
           request == CoreRequest(r)
           x == StreamRequest(p, request, reply)
<1>1. IInv /\ WireFits(r) /\ DOMAIN answer = Requests
    BY DEF WireIInv
<1>2. /\ req[r].phase = "sending" /\ req[r].stream
      /\ Answer(r, x.result.ok)
      /\ sent' = [sent EXCEPT ![r] = x.wire]
      /\ UNCHANGED <<chat, answer>>
    BY DEF AnswerStream
<1>3. p \in ProviderNames
    BY <1>1, <1>2, WireAssumption DEF IInv, Fits
<1>4. /\ IsChat(request.messages) /\ request.system = <<>>
      /\ request.in_range = chat[r].in_range
    BY <1>1, CoreIs
<1>5. \/ x.wire = NothingSent
      \/ Valid(request) /\ SaysTheSame(x.wire.turns, request.messages)
    BY <1>3, <1>4, StreamedIs
<1>6. ~chat[r].in_range => x.wire = NothingSent
    BY <1>4, <1>5 DEF Valid
<1>7. x.result.ok \in BOOLEAN
    <2>1. \/ x.result = Err("InvalidRequest") \/ x.result = Err("Provider")
          \/ reply.kind # "answer" /\ x.result = Failed(reply)
          \/ x.result = Opened
        BY <1>3 DEF ProviderNames, StreamRequest, OpenAiStream, DeepSeekStream, GroqStream,
            MlOpsStream, NoStream, Unsent, Open, Exchange
    <2>2. reply.kind # "answer" => Failed(reply).ok = FALSE
        BY WireAssumption DEF ReplyKinds, Failed, Err
    <2>3. /\ Opened.ok = TRUE /\ Err("InvalidRequest").ok = FALSE
          /\ Err("Provider").ok = FALSE
        BY DEF Opened, Err
    <2> HIDE DEF x
    <2> QED
        BY <2>1, <2>2, <2>3
<1> HIDE DEF x
<1>8. ~answer'[r].response.ok
    BY <1>1, <1>2 DEF WireFits, Late
<1>9. TellsOfCut(r)'
    BY <1>8 DEF TellsOfCut
<1> QED
    BY <1>1, <1>2, <1>5, <1>6, <1>7, <1>8, <1>9, AnswerWireFits

\* At the start nothing has been sent.
LEMMA WireInitFits ==
    ASSUME WireInit
    PROVE  WireIInv
<1>1. IInv /\ \A r \in Requests : req[r].phase = "new"
    BY InitIInv DEF WireInit, Init
<1>2. /\ chat = [r \in Requests |-> NoChat] /\ sent = [r \in Requests |-> NothingSent]
      /\ answer = [r \in Requests |-> NoAnswer]
    BY DEF WireInit
<1>3. ~NoAnswer.response.ok /\ NoChat.messages = <<>>
    BY DEF NoAnswer, NoChat, Err
<1>4. ASSUME NEW r \in Requests PROVE WireFits(r)
    <2>1. chat[r].messages = <<>> /\ sent[r] = NothingSent /\ ~answer[r].response.ok
        BY <1>2, <1>3
    <2> QED
        BY <1>1, <2>1 DEF WireFits, Arrives, TellsOfCut
<1> QED
    BY <1>1, <1>2, <1>4 DEF WireIInv

\* Every step keeps the words fitting.
LEMMA WireStepFits ==
    ASSUME WireIInv, [WireNext]_allVars
    PROVE  WireIInv'
<1>1. IInv
    BY DEF WireIInv
<1>2. ASSUME UNCHANGED req, UNCHANGED <<chat, sent, answer>>, [Next]_vars PROVE WireIInv'
    <2>1. IInv'
        BY <1>1, <1>2, NextIInv
    <2>2. \A q \in Requests : WireFits(q)'
        BY <1>2, OthersKeep
    <2> QED
        BY <1>2, <2>1, <2>2 DEF WireIInv
<1>3. CASE UNCHANGED allVars
    BY <1>2, <1>3 DEF allVars, wireVars, vars
<1>4. CASE Elapse /\ UNCHANGED wireVars
    BY <1>2, <1>4 DEF wireVars, Elapse, Next
<1>5. ASSUME NEW r \in Requests, ServeWire(r)
      PROVE  WireIInv'
    <2>1. ASSUME NEW reply \in Replies, AnswerBuffered(r, reply) PROVE WireIInv'
        BY <2>1, AnswerBufferedFits
    <2>2. ASSUME NEW reply \in Replies, NEW b \in Bodies, AnswerStream(r, reply, b)
          PROVE  WireIInv'
        BY <2>2, AnswerStreamFits
    <2>3. CASE HangUp(r) \/ Conclude(r)
        BY <2>3, UnseenFits DEF HangUp, Conclude
    <2>4. CASE ReadEnds(r) \/ ReadFails(r) \/ TakeFrame(r)
        BY <1>2, <2>4 DEF ReadEnds, ReadFails, TakeFrame, vars
    <2>5. ASSUME NEW n, Read(r, n) PROVE WireIInv'
        BY <1>2, <2>5 DEF Read, vars
    <2>6. CASE /\ \/ Drop(r) \/ Call(r) \/ Skip(r) \/ ReportResult(r)
                  \/ CountSuccess(r) \/ CountError(r) \/ RefuseStream(r)
                  \/ Respond(r) \/ \E persisted \in BOOLEAN : Persist(r, persisted)
               /\ UNCHANGED wireVars
        BY <2>6, UnseenFits DEF wireVars
    <2> QED
        BY <1>5, <2>1, <2>2, <2>3, <2>4, <2>5, <2>6 DEF ServeWire
<1> QED
    BY <1>3, <1>4, <1>5, ReceiveChatFits DEF WireNext

\* The invariant of the words.
LEMMA WireInvariance == WireSpec => []WireIInv
<1> QED
    BY WireInitFits, WireStepFits, PTL DEF WireSpec

\* A call returns with an answer or without one.
LEMMA AnswerIsDefinite ==
    ASSUME WireIInv, WireIInv', NEW r \in Requests, NEW ok, Answer(r, ok)
    PROVE  ok \in BOOLEAN
<1>1. req \in [Requests -> Request] /\ req' \in [Requests -> Request]
    BY DEF WireIInv, IInv, TypeOK
<1>2. req'[r].ok = ok
    BY <1>1 DEF Answer, Request
<1> QED
    BY <1>1, <1>2 DEF Request

\* ChatWire is a refinement of ChatCompletion: with the clients of the providers
\* in it, and streams that are read, decoded and broken off, the route goes
\* through the same steps, so what holds of breakers, books and answers there
\* holds here.
THEOREM WordsGoThroughTheRoute == WireSpec => Init /\ [][Next]_vars
<1>1. WireInit => Init
    BY DEF WireInit
<1>2. ASSUME WireIInv, WireIInv', [WireNext]_allVars PROVE [Next]_vars
    <2>1. CASE UNCHANGED allVars
        BY <2>1 DEF allVars
    <2>2. ASSUME NEW r \in Requests, NEW ask \in Asks, NEW stream \in BOOLEAN, NEW c \in Chats,
                 ReceiveChat(r, ask, stream, c)
          PROVE  Next
        BY <2>2 DEF ReceiveChat, Next
    <2>3. ASSUME NEW r \in Requests, ServeWire(r) PROVE [Next]_vars
        <3>1. ASSUME NEW reply \in Replies, AnswerBuffered(r, reply) PROVE Next
            <4>1. PICK x \in {SendRequest(Key(r).provider, CoreRequest(r), reply)} :
                        Answer(r, x.result.ok)
                BY <3>1 DEF AnswerBuffered
            <4>2. x.result.ok \in BOOLEAN
                BY <1>2, <4>1, AnswerIsDefinite
            <4> QED
                BY <4>1, <4>2 DEF Serve, Next
        <3>2. ASSUME NEW reply \in Replies, NEW b \in Bodies, AnswerStream(r, reply, b)
              PROVE  Next
            <4>1. PICK x \in {StreamRequest(Key(r).provider, CoreRequest(r), reply)} :
                        Answer(r, x.result.ok)
                BY <3>2 DEF AnswerStream
            <4>2. x.result.ok \in BOOLEAN
                BY <1>2, <4>1, AnswerIsDefinite
            <4> QED
                BY <4>1, <4>2 DEF Serve, Next
        <3>3. CASE HangUp(r) \/ Conclude(r)
            BY <3>3 DEF HangUp, Conclude, Serve, Next
        <3>4. CASE ReadEnds(r) \/ ReadFails(r) \/ TakeFrame(r)
            BY <3>4 DEF ReadEnds, ReadFails, TakeFrame
        <3>5. ASSUME NEW n, Read(r, n) PROVE UNCHANGED vars
            BY <3>5 DEF Read
        <3>6. CASE \/ Drop(r) \/ Call(r) \/ Skip(r) \/ ReportResult(r)
                   \/ CountSuccess(r) \/ CountError(r) \/ RefuseStream(r)
                   \/ Respond(r) \/ \E persisted \in BOOLEAN : Persist(r, persisted)
            BY <3>6 DEF Serve, Next
        <3> QED
            BY <2>3, <3>1, <3>2, <3>3, <3>4, <3>5, <3>6 DEF ServeWire
    <2>4. CASE Elapse /\ UNCHANGED wireVars
        BY <2>4 DEF Next
    <2> QED
        BY <1>2, <2>1, <2>2, <2>3, <2>4 DEF WireNext
<1> QED
    BY <1>1, <1>2, WireInvariance, PTL DEF WireSpec

\* Metrics, audit table and clients agree with the clients of the providers in
\* it, too.
THEOREM TheBooksAgreeOfWords == WireSpec => []BooksAgree
<1>1. WireIInv => BooksAgree
    BY BooksThatFit DEF WireIInv
<1> QED
    BY <1>1, WireInvariance, PTL

\* Whatever clients say, in whatever order providers are tried and fail, the
\* one that is tried is shown the conversation as it was, or is sent nothing.
THEOREM ChatsArriveWhole == WireSpec => []ConversationArrives
<1>1. WireIInv => ConversationArrives
    BY DEF WireIInv, WireFits, Arrives, ConversationArrives
<1> QED
    BY <1>1, WireInvariance, PTL

\* No client of a provider reports an answer that was cut off as complete,
\* but those that cannot know.
THEOREM CutsAreTold == WireSpec => []CutIsTold
<1>1. WireIInv => CutIsTold
    BY DEF WireIInv, WireFits, TellsOfCut, CutIsTold
<1> QED
    BY <1>1, WireInvariance, PTL

-----------------------------------------------------------------------------
(* The chunks.  What a client is given of a frame, and has been given of all. *)

\* A reason to stop goes out as it came in.
LEMMA SameWord == \A x \in StopReasons : FinishWord(FinishReason(x)) = x /\ FinishReason(x) # NoFinish
    BY DEF StopReasons, FinishWord, FinishReason, NoFinish

\* A chunk event that passes on some words and a reason to stop.
PassesOn(c, text, finish, garbled) ==
    c.kind = "chunk" /\ c.finish = finish /\ SameBut(c.text, text, garbled)

\* The chunk event of a chunk passes on its words and its reason to stop.
LEMMA ChunkIs ==
    ASSUME NEW T, NEW text \in Seq(T), IsText(text), NEW finish \in StopReasons \union {NoFinish},
           NEW garbled \in BOOLEAN, NEW inner, IsInner(inner, T, text, finish, garbled)
    PROVE  PassesOn(ChunkEvent(ChunkOf(inner)), text, finish, garbled)
<1> DEFINE t == Len(text)
           P == {i \in DOMAIN inner : inner[i] \notin StopReasons}
           Q == {i \in DOMAIN inner : inner[i] \in StopReasons}
           texts == Chosen(inner, P)
           reasons == Chosen(inner, Q)
<1>1. t \in Nat /\ \A i \in 1 .. t : text[i] \notin StopReasons
    <2>1. \A i \in 1 .. t : text[i] \notin Marks
        BY DEF IsText
    <2> QED
        BY <2>1 DEF Marks
<1>2. /\ inner \in Seq(T) /\ Len(inner) \in Nat /\ DOMAIN inner = 1 .. Len(inner)
      /\ \A i \in 1 .. t :
            inner[i] = text[i] \/ (garbled /\ inner[i] = Replacement /\ text[i] \in {Lead, Cont})
      /\ finish = NoFinish => Len(inner) = t
      /\ finish # NoFinish => Len(inner) = t + 1 /\ inner[t + 1] = finish
    BY DEF IsInner
<1> HIDE DEF t
<1>3. \A i \in 1 .. t : inner[i] \notin StopReasons
    BY <1>1, <1>2, ReasonsDiffer
<1>4. P = 1 .. t
    <2>1. \A i \in 1 .. Len(inner) : i \in 1 .. t \/ (finish # NoFinish /\ i = t + 1)
        BY <1>1, <1>2
    <2>2. \A i \in 1 .. t : i \in 1 .. Len(inner)
        <3>1. t \in Nat /\ Len(inner) \in {t, t + 1}
            BY <1>1, <1>2
        <3> QED
            BY <3>1
    <2>3. finish # NoFinish => finish \in StopReasons
        OBVIOUS
    <2> QED
        BY <1>2, <1>3, <2>1, <2>2, <2>3
<1>5. Q = IF finish = NoFinish THEN {} ELSE {t + 1}
    <2>1. \A i \in 1 .. Len(inner) : i \in 1 .. t \/ (finish # NoFinish /\ i = t + 1)
        BY <1>1, <1>2
    <2>2. finish # NoFinish => t + 1 \in 1 .. Len(inner)
        BY <1>1, <1>2
    <2>3. finish # NoFinish => finish \in StopReasons
        OBVIOUS
    <2>4. CASE finish = NoFinish
        BY <1>2, <1>3, <2>1, <2>4
    <2>5. CASE finish # NoFinish
        BY <1>2, <1>3, <2>1, <2>2, <2>3, <2>5
    <2> QED
        BY <2>4, <2>5
<1>6. P \in SUBSET DOMAIN inner /\ Q \in SUBSET DOMAIN inner
    OBVIOUS
<1> HIDE DEF P, Q
<1>7. SameBut(texts, text, garbled)
    <2>1. /\ texts \in Seq(T) /\ Len(texts) = Cardinality(P)
          /\ \A n \in 1 .. Cardinality(P) : texts[n] = inner[Nth(P, n)]
        BY <1>2, <1>6, ChosenIs
    <2>2. Cardinality(P) = t /\ \A n \in 1 .. t : Nth(P, n) = n
        BY <1>1, <1>4, NthOfAll
    <2> HIDE DEF texts
    <2>3. DOMAIN texts = 1 .. t /\ Len(texts) = t
        BY <2>1, <2>2
    <2>4. \A n \in 1 .. t : texts[n] = inner[n]
        BY <2>1, <2>2
    <2> QED
        BY <1>2, <2>3, <2>4 DEF SameBut, t
<1>8. /\ reasons \in Seq(T) /\ Len(reasons) = Cardinality(Q)
      /\ \A n \in 1 .. Cardinality(Q) : Nth(Q, n) \in Q /\ reasons[n] = inner[Nth(Q, n)]
    BY <1>2, <1>6, ChosenIs
<1> HIDE DEF texts, reasons
<1>9. finish = NoFinish => reasons = <<>>
    <2> HAVE finish = NoFinish
    <2>1. Cardinality(Q) = 0
        BY <1>5, FS_EmptySet
    <2> QED
        BY <1>8, <2>1
<1>10. finish # NoFinish => reasons # <<>> /\ Last(reasons) = finish
    <2> HAVE finish # NoFinish
    <2>1. Cardinality(Q) = 1
        BY <1>5, FS_Singleton
    <2>2. 1 \in 1 .. 1
        OBVIOUS
    <2>3. Len(reasons) = 1 /\ reasons[1] = inner[t + 1]
        BY <1>5, <1>8, <2>1, <2>2
    <2>4. reasons # <<>>
        BY <2>3
    <2>5. Last(reasons) = reasons[1]
        BY <2>3 DEF Last
    <2> QED
        BY <1>2, <2>3, <2>4, <2>5
<1>11. ChunkOf(inner) = [kind |-> "chunk", text |-> texts,
                         finish |-> IF reasons = <<>> THEN NoFinish ELSE FinishReason(Last(reasons))]
    BY DEF ChunkOf, texts, reasons, P, Q
<1> DEFINE c == ChunkOf(inner)
<1>12. c.text = texts /\ (finish = NoFinish => c.finish = NoFinish)
       /\ (finish # NoFinish => c.finish = FinishReason(finish))
    BY <1>9, <1>10, <1>11
<1> HIDE DEF c
<1>13. finish # NoFinish => FinishWord(c.finish) = finish /\ c.finish # NoFinish
    BY <1>12, SameWord
<1>14. ChunkEvent(c).kind = "chunk" /\ ChunkEvent(c).finish = finish /\ ChunkEvent(c).text = texts
    BY <1>12, <1>13 DEF ChunkEvent
<1> QED
    BY <1>7, <1>14 DEF c, PassesOn

\* What the loop makes of the events from k + 1 to n, when it finds one frame
\* in them.
Means(b, k, n, tear, d) ==
    \/ /\ d.kind = "skip"
       /\ \A m \in k + 1 .. n : b.events[m].kind \in {"comment", "usage"}
    \/ /\ d.kind = "done"
       /\ \E m \in k + 1 .. n : OnlySays(b, k, n, m) /\ b.events[m].kind = "done"
    \/ d.kind = "error"
    \/ /\ d.kind = "chunk"
       /\ \E m \in k + 1 .. n :
            /\ OnlySays(b, k, n, m) /\ b.events[m].kind = "chunk"
            /\ PassesOn(ChunkEvent(d), b.events[m].text, b.events[m].finish, "character" \in tear)

\* What the loop makes of a frame, whatever events it was received from.
LEMMA FrameMeans ==
    ASSUME NEW b, NEW w, Layout(b, w), NEW k \in Nat, NEW n \in Nat, n <= Len(b.events),
           NEW tear, NEW data, NEW from, Carried(b, k, n, tear, data, from)
    PROVE  Means(b, k, n, tear, Decode(data))
<1> DEFINE d == Decode(data)
           inner == SubSeq(data, 2, Len(data) - 1)
           T == Letters(b.events)
<1>1. /\ data = <<>> => d = [kind |-> "skip"]
      /\ data = <<DoneMarker>> => d = [kind |-> "done"]
      /\ data # <<>> /\ data # <<DoneMarker>> /\ ~ParsesAsChunk(data) => d = [kind |-> "error"]
      /\ ParsesAsChunk(data) /\ inner = <<>> => d = [kind |-> "skip"]
      /\ ParsesAsChunk(data) /\ inner # <<>> => d = ChunkOf(inner)
    <2>1. data \in Seq(T)
        BY DEF Carried
    <2> QED
        BY <2>1, DecodeCases
<1> HIDE DEF d
<1>2. CASE data = <<>>
    BY <1>1, <1>2, NoDataMeans DEF Means, d
<1>3. CASE data = <<DoneMarker>>
    BY <1>1, <1>3, DoneMeans DEF Means, d
<1>4. CASE data # <<>> /\ data # <<DoneMarker>> /\ ~ParsesAsChunk(data)
    BY <1>1, <1>4 DEF Means, d
<1>5. CASE ParsesAsChunk(data)
    <2>1. PICK m \in k + 1 .. n : OnlySays(b, k, n, m) /\ b.events[m].kind \in {"chunk", "usage"}
        BY <1>5, ChunkMeans
    <2> DEFINE e == b.events[m]
    <2>2. /\ e.kind = "usage" => inner = <<>>
          /\ e.kind = "chunk" =>
                inner # <<>> /\ IsInner(inner, T, e.text, e.finish, "character" \in tear)
        BY <2>1, InnerIs
    <2>3. CASE e.kind = "usage"
        <3>1. d.kind = "skip"
            BY <1>1, <1>5, <2>2, <2>3
        <3>2. \A l \in k + 1 .. n : b.events[l].kind \in {"comment", "usage"}
            BY <2>1, <2>3 DEF OnlySays
        <3> QED
            BY <3>1, <3>2 DEF Means, d
    <2>4. CASE e.kind = "chunk"
        <3>1. m \in 1 .. Len(b.events)
            BY LayoutIs
        <3>2. /\ IsEvent(e) /\ e.text \in Seq(T)
            BY <2>4, <3>1, EventLine
        <3>3. IsText(e.text) /\ e.finish \in StopReasons \union {NoFinish}
            BY <2>4, <3>2, EventIs
        <3>4. d = ChunkOf(inner) /\ IsInner(inner, T, e.text, e.finish, "character" \in tear)
            BY <1>1, <1>5, <2>2, <2>4
        <3>5. d.kind = "chunk"
            BY <3>4 DEF ChunkOf
        <3>6. PassesOn(ChunkEvent(d), e.text, e.finish, "character" \in tear)
            <4> DEFINE garbled == "character" \in tear
            <4>1. garbled \in BOOLEAN
                OBVIOUS
            <4> HIDE DEF garbled, inner, T, e
            <4>2. IsInner(inner, T, e.text, e.finish, garbled)
                BY <3>4 DEF garbled
            <4>3. PassesOn(ChunkEvent(ChunkOf(inner)), e.text, e.finish, garbled)
                <5>1. e.text \in Seq(T) /\ IsText(e.text)
                      /\ e.finish \in StopReasons \union {NoFinish}
                    BY <3>2, <3>3
                <5> QED
                    BY <4>1, <4>2, <5>1, ChunkIs
            <4> QED
                BY <3>4, <4>3 DEF garbled
        <3> QED
            BY <2>1, <2>4, <3>5, <3>6 DEF Means, d
    <2> QED
        BY <2>1, <2>3, <2>4
<1> QED
    BY <1>2, <1>3, <1>4, <1>5

\* The chunks among the first n events that come before an end or an error.
ChunkPlaces(ev, n) ==
    {i \in 1 .. n : ev[i].kind = "chunk" /\ \A j \in 1 .. i : ~IsEnd(ev[j])}

\* The chunks of some first events, as a choice of places.
LEMMA ChunksOfPart ==
    ASSUME NEW T, NEW ev \in Seq(T), NEW n \in Nat, n <= Len(ev)
    PROVE  Chunks(SubSeq(ev, 1, n)) = Chosen(ev, ChunkPlaces(ev, n))
<1> DEFINE s == SubSeq(ev, 1, n)
           P == {i \in DOMAIN s : s[i].kind = "chunk" /\ \A j \in 1 .. i : ~IsEnd(s[j])}
<1>1. /\ DOMAIN s = 1 .. n /\ \A i \in 1 .. n : s[i] = ev[i]
    <2>1. IsPart(T, ev, 0, n, SubSeq(ev, 0 + 1, 0 + n))
        BY PartIs
    <2>2. IsPart(T, ev, 0, n, s)
        BY <2>1
    <2> HIDE DEF s
    <2>3. s \in Seq(T) /\ Len(s) = n /\ \A i \in 1 .. n : s[i] = ev[0 + i]
        BY <2>2 DEF IsPart
    <2>4. \A i \in 1 .. n : 0 + i = i
        OBVIOUS
    <2> QED
        BY <2>3, <2>4
<1>2. P = ChunkPlaces(ev, n)
    <2> HIDE DEF s
    <2>1. \A i \in 1 .. n : \A j \in 1 .. i : j \in 1 .. n
        OBVIOUS
    <2>2. \A i \in 1 .. n : (\A j \in 1 .. i : ~IsEnd(s[j])) <=> (\A j \in 1 .. i : ~IsEnd(ev[j]))
        BY <1>1, <2>1
    <2> QED
        BY <1>1, <2>2 DEF ChunkPlaces
<1>3. Chunks(s) = Chosen(s, P)
    BY DEF Chunks
<1> HIDE DEF s, P
<1>4. P \in SUBSET (1 .. n) /\ \A i \in P : s[i] = ev[i]
    BY <1>1, <1>2 DEF ChunkPlaces
<1>5. Chosen(s, P) = Chosen(ev, P)
    BY <1>4, SameChosen
<1> QED
    BY <1>2, <1>3, <1>5 DEF s

\* The chunks among fewer events are the first of those among more.
LEMMA ChunksGrow ==
    ASSUME NEW ev, NEW n \in Nat, NEW k \in 0 .. n
    PROVE  /\ Cardinality(ChunkPlaces(ev, n)) \in Nat /\ Cardinality(ChunkPlaces(ev, k)) \in Nat
           /\ Cardinality(ChunkPlaces(ev, k)) <= Cardinality(ChunkPlaces(ev, n))
           /\ \A i \in 1 .. Cardinality(ChunkPlaces(ev, k)) :
                Nth(ChunkPlaces(ev, k), i) = Nth(ChunkPlaces(ev, n), i)
<1> DEFINE P == ChunkPlaces(ev, n)
           Q == ChunkPlaces(ev, k)
<1>1. P \in SUBSET (1 .. n) /\ Q \in SUBSET P /\ Q \in SUBSET (1 .. n)
      /\ \A i \in P : i <= k => i \in Q
    BY DEF ChunkPlaces
<1>2. \A i \in Q : i <= k
    BY DEF ChunkPlaces
<1> HIDE DEF P, Q
<1>3. Cardinality(P) \in Nat /\ Cardinality(Q) \in Nat /\ Cardinality(Q) <= Cardinality(P)
    BY <1>1, PlacesFinite
<1>4. ASSUME NEW i \in 1 .. Cardinality(Q)
      PROVE  Nth(Q, i) = Nth(P, i)
    <2> DEFINE x == Nth(Q, i)
    <2>1. x \in Q /\ Cardinality(UpTo(Q, x)) = i
        BY <1>1, NthIs
    <2> HIDE DEF x
    <2>2. UpTo(P, x) = UpTo(Q, x)
        <3>1. x \in 1 .. n /\ x <= k
            BY <1>1, <1>2, <2>1
        <3>2. \A j \in P : j <= x => j \in Q
            <4> SUFFICES ASSUME NEW j \in P, j <= x
                         PROVE  j \in Q
                OBVIOUS
            <4>1. j \in 1 .. n /\ j <= k
                BY <1>1, <3>1
            <4> QED
                BY <1>1, <4>1
        <3> QED
            BY <1>1, <3>2 DEF UpTo
    <2>3. x \in P
        BY <1>1, <2>1
    <2>4. Nth(P, Cardinality(UpTo(P, x))) = x
        BY <1>1, <2>3, RankIs
    <2> QED
        BY <2>1, <2>2, <2>4 DEF x
<1> QED
    BY <1>3, <1>4 DEF P, Q

\* One chunk more.
LEMMA OneChunkMore ==
    ASSUME NEW ev, NEW n \in Nat, NEW k \in 0 .. n, NEW m \in k + 1 .. n,
           ChunkPlaces(ev, n) = ChunkPlaces(ev, k) \union {m}
    PROVE  LET c == Cardinality(ChunkPlaces(ev, k))
           IN Cardinality(ChunkPlaces(ev, n)) = c + 1 /\ Nth(ChunkPlaces(ev, n), c + 1) = m
<1> DEFINE P == ChunkPlaces(ev, n)
           Q == ChunkPlaces(ev, k)
<1>1. P \in SUBSET (1 .. n) /\ Q \in SUBSET (1 .. n) /\ m \in P
      /\ \A i \in Q : i <= k
    BY DEF ChunkPlaces
<1>2. m \notin Q
    BY <1>1
<1>3. P = Q \union {m}
    OBVIOUS
<1> HIDE DEF P, Q
<1>4. IsFiniteSet(Q) /\ Cardinality(Q) \in Nat
    BY <1>1, PlacesFinite
<1>5. Cardinality(P) = Cardinality(Q) + 1
    BY <1>2, <1>3, <1>4, FS_AddElement
<1>6. UpTo(P, m) = P
    <2>1. \A i \in P : i <= m
        BY <1>1, <1>3
    <2> QED
        BY <2>1 DEF UpTo
<1>7. Nth(P, Cardinality(UpTo(P, m))) = m
    BY <1>1, RankIs
<1> QED
    BY <1>5, <1>6, <1>7 DEF P, Q

\* Chunk events that tell the chunks among the first n events.
Conveys(given, ev, n, garbled) ==
    LET places == ChunkPlaces(ev, n)
    IN /\ DOMAIN given = 1 .. Len(given) /\ Len(given) = Cardinality(places)
       /\ \A i \in 1 .. Cardinality(places) :
            PassesOn(given[i], ev[Nth(places, i)].text, ev[Nth(places, i)].finish, garbled)

\* They still do when an event that is no chunk has been passed over...
LEMMA NoChunkMore ==
    ASSUME NEW ev, NEW n \in Nat, NEW k \in 0 .. n, NEW given, NEW garbled,
           Conveys(given, ev, k, garbled),
           \A m \in k + 1 .. n : ev[m].kind # "chunk" \/ \E j \in 1 .. m : IsEnd(ev[j])
    PROVE  Conveys(given, ev, n, garbled)
<1>1. ChunkPlaces(ev, n) = ChunkPlaces(ev, k)
    BY DEF ChunkPlaces
<1> QED
    BY <1>1 DEF Conveys

\* ... and with its event appended when it is a chunk.
LEMMA ChunkConveyed ==
    ASSUME NEW ev, NEW n \in Nat, NEW k \in 0 .. n, NEW T, NEW given \in Seq(T), NEW garbled,
           Conveys(given, ev, k, garbled), NEW m \in k + 1 .. n,
           \A j \in 1 .. n : ~IsEnd(ev[j]), ev[m].kind = "chunk",
           \A j \in k + 1 .. n : j # m => ev[j].kind # "chunk",
           NEW c, PassesOn(c, ev[m].text, ev[m].finish, garbled)
    PROVE  Conveys(Append(given, c), ev, n, garbled)
<1> DEFINE P == ChunkPlaces(ev, n)
           Q == ChunkPlaces(ev, k)
           l == Cardinality(Q)
           more == Append(given, c)
<1>1. P = Q \union {m}
    <2>1. \A i \in 1 .. n : \A j \in 1 .. i : j \in 1 .. n
        OBVIOUS
    <2>2. P = {i \in 1 .. n : ev[i].kind = "chunk"} /\ Q = {i \in 1 .. k : ev[i].kind = "chunk"}
        <3>1. \A i \in 1 .. k : i \in 1 .. n
            OBVIOUS
        <3> QED
            BY <2>1, <3>1 DEF ChunkPlaces
    <2>3. \A i \in 1 .. n : i \in 1 .. k \/ i \in k + 1 .. n
        OBVIOUS
    <2>4. m \in 1 .. n /\ \A i \in 1 .. k : i \in 1 .. n
        OBVIOUS
    <2> HIDE DEF P, Q
    <2> QED
        BY <2>2, <2>3, <2>4
<1>2. Cardinality(P) = l + 1 /\ Nth(P, l + 1) = m
    BY <1>1, OneChunkMore
<1>3. l \in Nat /\ \A i \in 1 .. l : Nth(Q, i) = Nth(P, i)
    BY ChunksGrow
<1>4. Len(given) = l /\ \A i \in 1 .. l :
            PassesOn(given[i], ev[Nth(Q, i)].text, ev[Nth(Q, i)].finish, garbled)
    BY DEF Conveys
<1> HIDE DEF P, Q, l
<1>5. Len(more) = l + 1 /\ DOMAIN more = 1 .. l + 1 /\ more[l + 1] = c
      /\ \A i \in 1 .. l : more[i] = given[i]
    BY <1>3, <1>4
<1> HIDE DEF more
<1>6. ASSUME NEW i \in 1 .. l + 1
      PROVE  PassesOn(more[i], ev[Nth(P, i)].text, ev[Nth(P, i)].finish, garbled)
    <2>1. CASE i = l + 1
        BY <1>2, <1>5, <2>1
    <2>2. CASE i \in 1 .. l
        BY <1>3, <1>4, <1>5, <2>2
    <2> QED
        BY <1>3, <2>1, <2>2
<1> QED
    BY <1>2, <1>5, <1>6 DEF Conveys, P, more

\* Another torn character makes nothing wrong that was right.
LEMMA MoreGarbled ==
    ASSUME NEW given, NEW ev, NEW n, NEW tear, NEW more, tear \subseteq more,
           Conveys(given, ev, n, "character" \in tear)
    PROVE  Conveys(given, ev, n, "character" \in more)
    BY DEF Conveys, PassesOn, SameBut

\* The events of b that are sent whole with its first a symbols.
WholeOf(b, a) == {n \in DOMAIN b.ends : b.ends[n] <= a}

\* The events that have arrived whole are the first ones.
LEMMA WholeIs ==
    ASSUME NEW b, NEW w, Layout(b, w), NEW a \in Nat
    PROVE  LET h == Cardinality(WholeOf(b, a))
           IN /\ h \in 0 .. Len(b.events) /\ EndOf(b, h) <= a
              /\ \A n \in 0 .. Len(b.events) : EndOf(b, n) <= a => n <= h
<1> DEFINE N == Len(b.events)
           S == {n \in 0 .. N : EndOf(b, n) <= a}
           U == {N - n : n \in S}
<1>1. N \in Nat /\ DOMAIN b.ends = 1 .. N /\ \A n \in 0 .. N : EndOf(b, n) \in Nat
    BY LayoutIs DEF Layout
<1>2. \A i, j \in 0 .. N : i <= j => EndOf(b, i) <= EndOf(b, j)
    BY EndsRise
<1>3. EndOf(b, 0) = 0 /\ \A n \in 1 .. N : EndOf(b, n) = b.ends[n]
    BY <1>1 DEF EndOf
<1> HIDE DEF N
<1>4. PICK h \in 0 .. N : EndOf(b, h) <= a /\ \A n \in 0 .. N : EndOf(b, n) <= a => n <= h
    <2>1. 0 \in S
        BY <1>1, <1>3
    <2>2. U \in SUBSET Nat /\ U # {}
        BY <1>1, <2>1
    <2>3. PICK u \in U : \A v \in U : u <= v
        BY <2>2, LeastPlace
    <2>4. PICK h \in S : u = N - h
        BY <2>3
    <2>5. \A n \in S : N - h <= N - n
        BY <2>3, <2>4
    <2>6. h \in 0 .. N /\ \A n \in S : n <= h
        BY <1>1, <2>4, <2>5
    <2> QED
        BY <2>4, <2>6
<1>5. WholeOf(b, a) = 1 .. h
    <2>1. ASSUME NEW n \in 1 .. h
          PROVE  n \in 1 .. N /\ b.ends[n] <= a
        <3>1. n \in 1 .. N /\ n \in 0 .. N /\ n <= h
            BY <1>1, <1>4
        <3>2. EndOf(b, n) <= EndOf(b, h) /\ EndOf(b, n) \in Nat /\ EndOf(b, h) \in Nat
            BY <1>1, <1>2, <1>4, <3>1
        <3> QED
            BY <1>3, <1>4, <3>1, <3>2
    <2>2. ASSUME NEW n \in 1 .. N, b.ends[n] <= a
          PROVE  n \in 1 .. h
        <3>1. n \in 0 .. N /\ EndOf(b, n) <= a
            BY <1>1, <1>3, <2>2
        <3>2. n <= h
            BY <1>4, <3>1
        <3> QED
            BY <1>1, <1>4, <3>2
    <2> QED
        BY <1>1, <2>1, <2>2 DEF WholeOf
<1>6. Cardinality(1 .. h) = h
    BY <1>4, NthOfAll
<1> QED
    BY <1>4, <1>5, <1>6 DEF N

AllSaid(b, a) == Chunks(SubSeq(b.events, 1, Cardinality(WholeOf(b, a))))

\* What ChunksAreTheModels says of a stream, and what NothingLostQuietly does.
IsHonest(b, a, tear, given) ==
    /\ Len(given) <= Len(AllSaid(b, a))
    /\ \A i \in DOMAIN given :
        /\ given[i].finish = AllSaid(b, a)[i].finish
        /\ SameBut(given[i].text, AllSaid(b, a)[i].text, "character" \in tear)

IsComplete(b, a, given) == Len(given) = Len(AllSaid(b, a))

\* What a client may have been given by now.
LEMMA SaidIs ==
    ASSUME NEW b, IsBody(b), NEW w, Layout(b, w), NEW a \in Nat
    PROVE  LET P == ChunkPlaces(b.events, Cardinality(WholeOf(b, a)))
           IN /\ Len(AllSaid(b, a)) = Cardinality(P) /\ Cardinality(P) \in Nat
              /\ \A i \in 1 .. Cardinality(P) : AllSaid(b, a)[i] = b.events[Nth(P, i)]
<1> DEFINE h == Cardinality(WholeOf(b, a))
           P == ChunkPlaces(b.events, h)
           T == {b.events[i] : i \in 1 .. Len(b.events)}
<1>1. h \in Nat /\ h <= Len(b.events)
    BY WholeIs, LayoutIs
<1>2. b.events \in Seq(T)
    <2>1. DOMAIN b.events = 1 .. Len(b.events)
        BY LayoutIs
    <2> QED
        BY <2>1 DEF IsBody
<1> HIDE DEF h, T
<1>3. AllSaid(b, a) = Chosen(b.events, P)
    BY <1>1, <1>2, ChunksOfPart DEF AllSaid, h
<1>4. P \in SUBSET (1 .. h)
    BY DEF ChunkPlaces
<1> HIDE DEF P
<1>5. Cardinality(P) \in Nat
    BY <1>1, <1>4, PlacesFinite
<1>6. /\ Len(Chosen(b.events, P)) = Cardinality(P)
      /\ \A i \in 1 .. Cardinality(P) : Chosen(b.events, P)[i] = b.events[Nth(P, i)]
    BY <1>5 DEF Chosen
<1> QED
    BY <1>3, <1>5, <1>6 DEF P, h

-----------------------------------------------------------------------------
(* A stream: how far it was read, and what its client was given.           *)

\* A decoder that has read a symbols of b and taken out the frames of its
\* first k events.
Reads(b, a, buf, tear, given, w, k, at) ==
    /\ IsBody(b) /\ Layout(b, w) /\ k \in 0 .. Len(b.events) /\ EndOf(b, k) <= a
    /\ Held(b, EndOf(b, k), a, buf, tear, at) /\ TornAt(b, a, tear)
    /\ \A j \in 1 .. k : ~IsEnd(b.events[j])
    /\ (\E T : given \in Seq(T)) /\ Conveys(given, b.events, k, "character" \in tear)

\* The sizes of what has been read.
LEMMA ReadsIs ==
    ASSUME NEW b, NEW a, NEW buf, NEW tear, NEW given, NEW w, NEW k, NEW at,
           Reads(b, a, buf, tear, given, w, k, at)
    PROVE  /\ a \in Nat /\ a <= Len(b.symbols) /\ Len(b.symbols) \in Nat
           /\ k \in Nat /\ k <= Len(b.events) /\ Len(b.events) \in Nat /\ EndOf(b, k) \in Nat
           /\ buf \in Seq(Letters(b.events)) /\ Len(buf) \in Nat
<1>1. /\ EndOf(b, k) \in Nat /\ a \in Nat /\ a <= Len(b.symbols)
      /\ buf \in Seq(Letters(b.events)) /\ Len(buf) \in Nat
    BY DEF Reads, Held
<1>2. Len(b.symbols) \in Nat /\ Len(b.events) \in Nat /\ k \in 0 .. Len(b.events)
    BY LayoutIs DEF Reads
<1> QED
    BY <1>1, <1>2

\* The decoder at work has been honest.
LEMMA ReadsHonestly ==
    ASSUME NEW b, NEW a, NEW buf, NEW tear, NEW given, NEW w, NEW k, NEW at,
           Reads(b, a, buf, tear, given, w, k, at)
    PROVE  IsHonest(b, a, tear, given)
<1> DEFINE h == Cardinality(WholeOf(b, a))
           P == ChunkPlaces(b.events, h)
           Q == ChunkPlaces(b.events, k)
<1>1. a \in Nat
    BY ReadsIs
<1>2. h \in Nat /\ k \in 0 .. h
    BY <1>1, WholeIs DEF Reads
<1>3. /\ Len(AllSaid(b, a)) = Cardinality(P)
      /\ \A i \in 1 .. Cardinality(P) : AllSaid(b, a)[i] = b.events[Nth(P, i)]
    BY <1>1, SaidIs DEF Reads
<1> HIDE DEF h
<1>4. /\ Cardinality(P) \in Nat /\ Cardinality(Q) \in Nat /\ Cardinality(Q) <= Cardinality(P)
      /\ \A i \in 1 .. Cardinality(Q) : Nth(Q, i) = Nth(P, i)
    BY <1>2, ChunksGrow
<1>5. /\ DOMAIN given = 1 .. Cardinality(Q) /\ Len(given) = Cardinality(Q)
      /\ \A i \in 1 .. Cardinality(Q) :
            PassesOn(given[i], b.events[Nth(Q, i)].text, b.events[Nth(Q, i)].finish,
                     "character" \in tear)
    BY DEF Reads, Conveys
<1> HIDE DEF P, Q
<1>6. \A i \in 1 .. Cardinality(Q) : AllSaid(b, a)[i] = b.events[Nth(Q, i)]
    BY <1>3, <1>4
<1> QED
    BY <1>3, <1>4, <1>5, <1>6 DEF IsHonest, PassesOn

\* A stream that is opened.
LEMMA OpenReads ==
    ASSUME NEW b, IsBody(b)
    PROVE  \E w, at : Reads(b, 0, <<>>, {}, <<>>, w, 0, at)
<1>1. PICK w : Layout(b, w)
    BY BodyLayout
<1>2. EndOf(b, 0) = 0 /\ Len(b.symbols) \in Nat /\ Len(b.events) \in Nat
    BY <1>1, LayoutIs DEF EndOf
<1> DEFINE at == [i \in 1 .. 0 |-> 0]
<1>3. Held(b, EndOf(b, 0), 0, <<>>, {}, at)
    BY <1>2 DEF Held
<1>4. Conveys(<<>>, b.events, 0, "character" \in {})
    <2>1. ChunkPlaces(b.events, 0) = {}
        BY DEF ChunkPlaces
    <2>2. Cardinality({}) = 0
        BY FS_EmptySet
    <2>3. Len(<<>>) = 0 /\ DOMAIN <<>> = {} /\ 1 .. 0 = {}
        OBVIOUS
    <2> QED
        BY <2>1, <2>2, <2>3 DEF Conveys
<1>5. TornAt(b, 0, {})
    BY DEF TornAt
<1>6. Reads(b, 0, <<>>, {}, <<>>, w, 0, at)
    <2>1. <<>> \in Seq({})
        OBVIOUS
    <2>2. 0 \in 0 .. Len(b.events) /\ EndOf(b, 0) <= 0 /\ 1 .. 0 = {}
        BY <1>2
    <2> HIDE DEF at
    <2> QED
        BY <1>1, <1>3, <1>4, <1>5, <2>1, <2>2 DEF Reads
<1> QED
    BY <1>6

\* Another read of n symbols.
LEMMA ReadsOn ==
    ASSUME NEW b, NEW a, NEW buf, NEW tear, NEW given, NEW w, NEW k, NEW at,
           Reads(b, a, buf, tear, given, w, k, at),
           NEW n \in Nat \ {0}, a + n <= Len(b.symbols),
           NEW read, IsPart(Letters(b.events), b.symbols, a, n, read),
           NEW more, tear \subseteq more, TornAt(b, a + n, more)
    PROVE  \E on : Reads(b, a + n, Received(buf, read), more, given, w, k, on)
<1>1. a \in Nat /\ EndOf(b, k) \in Nat
    BY ReadsIs
<1>2. /\ IsBody(b) /\ Layout(b, w) /\ Held(b, EndOf(b, k), a, buf, tear, at)
      /\ TornAt(b, a, tear) /\ EndOf(b, k) <= a /\ k \in 0 .. Len(b.events)
      /\ \A j \in 1 .. k : ~IsEnd(b.events[j])
      /\ (\E T : given \in Seq(T)) /\ Conveys(given, b.events, k, "character" \in tear)
    BY DEF Reads
<1>3. PICK to : Held(b, a, a + n, Unixed(Lossy(read)), more, to)
    BY <1>1, <1>2, ReadIs
<1>4. a <= a + n /\ EndOf(b, k) <= a + n
    <2>1. a \in Nat /\ EndOf(b, k) <= a /\ EndOf(b, k) \in Nat
        BY <1>1, <1>2
    <2> QED
        BY <2>1
<1>5. PICK on : Held(b, EndOf(b, k), a + n, buf \o Unixed(Lossy(read)), more, on)
    <2> DEFINE d == a + n
               new == Unixed(Lossy(read))
               p == EndOf(b, k)
    <2>1. Held(b, p, a, buf, tear, at) /\ Held(b, a, d, new, more, to) /\ p <= a /\ a <= d
        BY <1>2, <1>3, <1>4
    <2> HIDE DEF d, new, p
    <2>2. \E on : Held(b, p, d, buf \o new, more, on)
        BY <2>1, HeldJoined
    <2> QED
        BY <2>2 DEF d, new, p
<1>6. Conveys(given, b.events, k, "character" \in more)
    BY <1>2, MoreGarbled
<1>7. Reads(b, a + n, Received(buf, read), more, given, w, k, on)
    BY <1>2, <1>4, <1>5, <1>6 DEF Reads, Received
<1> QED
    BY <1>7

\* When the body ends, nothing whole is left but what a torn line end hides.
LEMMA ReadsToTheEnd ==
    ASSUME NEW b, NEW a, NEW buf, NEW tear, NEW given, NEW w, NEW k, NEW at,
           Reads(b, a, buf, tear, given, w, k, at), FrameEnds(buf) = {}, "line end" \notin tear
    PROVE  IsComplete(b, a, given)
<1> DEFINE h == Cardinality(WholeOf(b, a))
           N == Len(b.events)
<1>1. a \in Nat /\ k \in Nat /\ N \in Nat
    BY ReadsIs
<1>2. h \in 0 .. N /\ EndOf(b, h) <= a /\ k <= h
    BY <1>1, WholeIs DEF Reads
<1>3. Len(AllSaid(b, a)) = Cardinality(ChunkPlaces(b.events, h))
    BY <1>1, SaidIs DEF Reads
<1> HIDE DEF h, N
<1>4. h = k
    <2> SUFFICES ASSUME h # k
                 PROVE  FALSE
        OBVIOUS
    <2>6. k \in Nat /\ N \in Nat /\ h \in 0 .. N /\ k <= h /\ h # k
        BY <1>1, <1>2
    <2>1. PICK m \in 1 .. N : m \in 0 .. N /\ m <= h /\ m - 1 = k
        <3>1. k + 1 \in 1 .. N /\ k + 1 \in 0 .. N /\ k + 1 <= h /\ (k + 1) - 1 = k
            BY ONLY <2>6
        <3> QED
            BY <3>1
    <2>2. EndOf(b, m) <= EndOf(b, h) /\ EndOf(b, m) \in Nat /\ EndOf(b, h) \in Nat
        <3>1. Layout(b, w)
            BY DEF Reads
        <3>2. \A i \in 0 .. N : EndOf(b, i) \in Nat
            BY <3>1 DEF Layout, N
        <3>3. \A i, j \in 0 .. N : i <= j => EndOf(b, i) <= EndOf(b, j)
            BY <3>1, EndsRise DEF N
        <3> QED
            BY <1>2, <2>1, <3>2, <3>3
    <2>3. EndOf(b, m) <= a
        BY ONLY <1>1, <1>2, <2>2
    <2>4. EndOf(b, k) <= EndOf(b, m - 1)
        <3>1. EndOf(b, k) \in Nat
            BY ReadsIs
        <3> QED
            BY ONLY <2>1, <3>1
    <2>5. PICK i, j \in 1 .. Len(buf) : "line end" \notin tear => i \in FrameEnds(buf)
        BY <2>1, <2>3, <2>4, EndHeld DEF Reads, N
    <2> QED
        BY <2>5
<1>5. Len(given) = Cardinality(ChunkPlaces(b.events, k))
    BY DEF Reads, Conveys
<1> QED
    BY <1>3, <1>4, <1>5 DEF IsComplete

\* What has been torn when n more symbols of b have been read.
LEMMA TornNow ==
    ASSUME NEW b, NEW T, b.symbols \in Seq(T), NEW a \in Nat, NEW n \in Nat \ {0},
           a + n <= Len(b.symbols), NEW tear,
           \A x \in 1 .. Len(b.symbols) :
                /\ b.symbols[x] = CR => x < Len(b.symbols) /\ b.symbols[x + 1] = LF
                /\ b.symbols[x] = Lead => x < Len(b.symbols) /\ b.symbols[x + 1] = Cont
    PROVE  LET unread == SubSeq(b.symbols, a + 1, Len(b.symbols))
               read == SubSeq(unread, 1, n)
               rest == SubSeq(unread, n + 1, Len(unread))
           IN /\ IsPart(T, b.symbols, a, n, read)
              /\ TornAt(b, a + n, tear \union Tears(read[n], rest))
<1> DEFINE y == b.symbols
           L == Len(b.symbols)
           unread == SubSeq(y, a + 1, L)
           read == SubSeq(unread, 1, n)
           rest == SubSeq(unread, n + 1, Len(unread))
           m == L - a
           o == m - n
<1>1. L \in Nat /\ m \in Nat /\ o \in Nat /\ a + m = L /\ n + o = m /\ n <= m
    OBVIOUS
<1> HIDE DEF m, o
<1>2. IsPart(T, y, a, m, unread)
    <2>1. IsPart(T, y, a, m, SubSeq(y, a + 1, a + m))
        BY <1>1, PartIs
    <2> QED
        BY <1>1, <2>1
<1> HIDE DEF unread
<1>3. unread \in Seq(T) /\ Len(unread) = m /\ \A i \in 1 .. m : unread[i] = y[a + i]
    BY <1>2 DEF IsPart
<1>4. IsPart(T, unread, 0, n, read)
    <2>1. IsPart(T, unread, 0, n, SubSeq(unread, 0 + 1, 0 + n))
        <3>1. 0 + n <= Len(unread)
            BY <1>1, <1>3
        <3> QED
            BY <1>3, <3>1, PartIs
    <2> QED
        BY <2>1
<1>5. IsPart(T, unread, n, o, rest)
    <2>1. IsPart(T, unread, n, o, SubSeq(unread, n + 1, n + o))
        <3>1. n + o <= Len(unread)
            BY <1>1, <1>3
        <3> QED
            BY <1>1, <1>3, <3>1, PartIs
    <2> QED
        BY <1>1, <1>3, <2>1
<1> HIDE DEF read, rest
<1>6. /\ read \in Seq(T) /\ Len(read) = n /\ \A i \in 1 .. n : read[i] = unread[0 + i]
      /\ rest \in Seq(T) /\ Len(rest) = o /\ \A i \in 1 .. o : rest[i] = unread[n + i]
    BY <1>4, <1>5 DEF IsPart
<1>7. \A i \in 1 .. n : i \in 1 .. m /\ 0 + i = i
    BY <1>1
<1>8. \A i \in 1 .. n : read[i] = y[a + i]
    BY <1>3, <1>6, <1>7
<1>9. IsPart(T, y, a, n, read)
    BY <1>6, <1>8 DEF IsPart
<1>10. ASSUME a + n < L
       PROVE  rest # <<>> /\ rest[1] = y[(a + n) + 1]
    <2>1. 1 \in 1 .. o /\ n + 1 \in 1 .. m /\ a + (n + 1) = (a + n) + 1
        BY <1>1, <1>10
    <2>2. Len(rest) # 0
        BY <1>6, <2>1
    <2> QED
        BY <1>3, <1>6, <2>1, <2>2
<1>11. n \in 1 .. n /\ read[n] = y[a + n] /\ a + n \in 1 .. L
    BY <1>1, <1>8
<1>12. ASSUME a + n < L
       PROVE  /\ y[a + n] = Lead => "character" \in Tears(read[n], rest)
              /\ y[a + n] = CR => "line end" \in Tears(read[n], rest)
    BY <1>10, <1>11, <1>12 DEF Tears
<1>13. TornAt(b, a + n, tear \union Tears(read[n], rest))
    BY <1>12 DEF TornAt
<1> QED
    BY <1>9, <1>13 DEF read, rest, unread

\* A sequence that grows is one still.
LEMMA StillSequence ==
    ASSUME NEW T, NEW s \in Seq(T), NEW x
    PROVE  \E S : Append(s, x) \in Seq(S)
<1> DEFINE S == T \union {x}
<1>1. Append(s, x) \in Seq(S)
    <2>1. s \in Seq(S)
        <3>1. s \in [1 .. Len(s) -> T] /\ Len(s) \in Nat
            OBVIOUS
        <3>2. s \in [1 .. Len(s) -> S]
            BY <3>1
        <3> QED
            BY <3>1, <3>2
    <2> QED
        BY <2>1
<1> QED
    BY <1>1

\* A frame is taken out and decoded: the next chunk is conveyed, or the stream has ended.
LEMMA FrameTaken ==
    ASSUME NEW b, NEW a, NEW buf, NEW tear, NEW given, NEW w, NEW k, NEW at,
           Reads(b, a, buf, tear, given, w, k, at), FrameEnds(buf) # {}
    PROVE  LET d == Decoded(FirstFrame(buf))
           IN /\ d.kind \in {"skip", "done", "error", "chunk"}
              /\ d.kind = "skip"
                    => \E n, to : Reads(b, a, AfterFrame(buf), tear, given, w, n, to)
              /\ d.kind = "chunk"
                    => \E n, to : Reads(b, a, AfterFrame(buf), tear,
                                        Append(given, ChunkEvent(d)), w, n, to)
              /\ d.kind = "done" => IsComplete(b, a, given)
<1> DEFINE e == FrameEnd(buf)
           ev == b.events
           N == Len(ev)
           d == Decoded(FirstFrame(buf))
           data == EventData(SubSeq(buf, 1, e - 1))
           rest == AfterFrame(buf)
<1>1. e \in FrameEnds(buf)
    <2>1. FrameEnds(buf) \in SUBSET Nat
        BY DEF FrameEnds
    <2> QED
        BY <2>1, LeastPlace DEF FrameEnd
<1>2. d = Decode(data)
    BY DecodedIs DEF FirstFrame
<1>3. rest = SubSeq(buf, e + 2, Len(buf))
    BY DEF AfterFrame
<1> HIDE DEF e, d, data, rest
<1>4. /\ IsBody(b) /\ Layout(b, w) /\ k \in 0 .. N /\ EndOf(b, k) <= a
      /\ Held(b, EndOf(b, k), a, buf, tear, at) /\ TornAt(b, a, tear)
      /\ \A j \in 1 .. k : ~IsEnd(ev[j])
      /\ Conveys(given, ev, k, "character" \in tear)
    BY DEF Reads
<1>5. PICK n \in 1 .. N : at[e] = EndOf(b, n) - w /\ at[e + 1] = EndOf(b, n) /\ EndOf(b, n) <= a
    BY <1>1, <1>4, FrameEndsAt
<1>6. IsFront(b, w, k, n, a, buf, tear, at, e)
    BY <1>1, <1>4, <1>5 DEF IsFront
<1>7. k < n /\ k \in Nat /\ n \in Nat /\ n <= N /\ k \in 0 .. n /\ n \in 0 .. N /\ N \in Nat
    <2>1. k < n /\ k \in Nat /\ n \in Nat /\ n <= N
        BY <1>6, FrontIs
    <2>2. N \in Nat
        BY <1>4, LayoutIs
    <2> QED
        BY <2>1, <2>2
<1>8. PICK from : Carried(b, k, n, tear, data, from)
    BY <1>6, DataIsCarried DEF data
<1>9. Means(b, k, n, tear, d)
    BY <1>2, <1>4, <1>7, <1>8, FrameMeans
<1>10. PICK to : Held(b, EndOf(b, n), a, rest, tear, to)
    BY <1>1, <1>3, <1>4, <1>5, RestHeld
<1>11. ASSUME NEW now, \E T : now \in Seq(T), Conveys(now, ev, n, "character" \in tear),
              \A m \in k + 1 .. n : ~IsEnd(ev[m])
       PROVE  Reads(b, a, rest, tear, now, w, n, to)
    <2>1. \A j \in 1 .. n : ~IsEnd(ev[j])
        <3>1. \A j \in 1 .. n : j \in 1 .. k \/ j \in k + 1 .. n
            BY <1>7
        <3> QED
            BY <1>4, <1>11, <3>1
    <2> QED
        BY <1>4, <1>5, <1>7, <1>10, <1>11, <2>1 DEF Reads
<1>12. \E T : given \in Seq(T)
    BY DEF Reads
<1>13. ASSUME d.kind = "skip"
       PROVE  Reads(b, a, rest, tear, given, w, n, to)
    <2>1. \A m \in k + 1 .. n : ev[m].kind \in {"comment", "usage"}
        BY <1>9, <1>13 DEF Means
    <2>2. Conveys(given, ev, n, "character" \in tear)
        BY <1>4, <1>7, <2>1, NoChunkMore
    <2> QED
        BY <1>11, <1>12, <2>1, <2>2 DEF IsEnd
<1>14. ASSUME d.kind = "chunk"
       PROVE  Reads(b, a, rest, tear, Append(given, ChunkEvent(d)), w, n, to)
    <2>1. PICK m \in k + 1 .. n :
            /\ OnlySays(b, k, n, m) /\ ev[m].kind = "chunk"
            /\ PassesOn(ChunkEvent(d), ev[m].text, ev[m].finish, "character" \in tear)
        BY <1>9, <1>14 DEF Means
    <2>2. \A j \in k + 1 .. n : j # m => ev[j].kind = "comment"
        BY <2>1 DEF OnlySays
    <2>3. \A j \in k + 1 .. n : ~IsEnd(ev[j])
        BY <2>1, <2>2 DEF IsEnd
    <2>4. \A j \in 1 .. n : ~IsEnd(ev[j])
        <3>1. \A j \in 1 .. n : j \in 1 .. k \/ j \in k + 1 .. n
            BY <1>7
        <3> QED
            BY <1>4, <2>3, <3>1
    <2>5. PICK T : given \in Seq(T)
        BY <1>12
    <2>6. Conveys(Append(given, ChunkEvent(d)), ev, n, "character" \in tear)
        BY <1>4, <1>7, <2>1, <2>2, <2>4, <2>5, ChunkConveyed
    <2>7. \E S : Append(given, ChunkEvent(d)) \in Seq(S)
        BY <2>5, StillSequence
    <2> QED
        BY <1>11, <2>3, <2>6, <2>7
<1>15. ASSUME d.kind = "done"
       PROVE  IsComplete(b, a, given)
    <2> DEFINE h == Cardinality(WholeOf(b, a))
    <2>1. PICK m \in k + 1 .. n : OnlySays(b, k, n, m) /\ ev[m].kind = "done"
        BY <1>9, <1>15 DEF Means
    <2>2. a \in Nat
        BY ReadsIs
    <2>3. h \in 0 .. N /\ n <= h
        BY <1>4, <1>5, <1>7, <2>2, WholeIs
    <2>4. Len(AllSaid(b, a)) = Cardinality(ChunkPlaces(ev, h))
        BY <1>4, <2>2, SaidIs
    <2> HIDE DEF h
    <2>5. h \in Nat /\ k \in 0 .. h
        BY <1>7, <2>3
    <2>6. ASSUME NEW l \in k + 1 .. h
          PROVE  ev[l].kind # "chunk" \/ \E j \in 1 .. l : IsEnd(ev[j])
        <3>1. CASE m <= l
            <4>1. m \in 1 .. l
                BY <1>7, <3>1
            <4> QED
                BY <2>1, <4>1 DEF IsEnd
        <3>2. CASE ~(m <= l)
            <4>1. l \in k + 1 .. n /\ l # m
                BY <1>7, <3>2
            <4> QED
                BY <2>1, <4>1 DEF OnlySays
        <3> QED
            BY <3>1, <3>2
    <2>7. Conveys(given, ev, h, "character" \in tear)
        BY <1>4, <2>5, <2>6, NoChunkMore
    <2> QED
        BY <2>4, <2>7 DEF IsComplete, Conveys
<1>16. d.kind \in {"skip", "done", "error", "chunk"}
    BY <1>9 DEF Means
<1> QED
    BY <1>13, <1>14, <1>15, <1>16 DEF d, rest

GivenOf(s) == Chosen(s, {i \in DOMAIN s : s[i].kind = "chunk"})
ErrorsOf(s) == {i \in DOMAIN s : s[i].kind = "error"}

\* What the client has been sent grows by one event.
LEMMA OneEventMore ==
    ASSUME NEW T, NEW s \in Seq(T), NEW x
    PROVE  /\ GivenOf(Append(s, x)) = IF x.kind = "chunk" THEN Append(GivenOf(s), x)
                                      ELSE GivenOf(s)
           /\ ErrorsOf(s) \subseteq ErrorsOf(Append(s, x))
           /\ x.kind = "error" => ErrorsOf(Append(s, x)) # {}
           /\ \E S : Append(s, x) \in Seq(S)
           /\ Len(Append(s, x)) = Len(s) + 1 /\ Append(s, x)[Len(s) + 1] = x
           /\ \A i \in DOMAIN s : Append(s, x)[i] = s[i]
           /\ \A i \in DOMAIN Append(s, x) : i \in DOMAIN s \/ i = Len(s) + 1
<1> DEFINE t == Append(s, x)
           n == Len(s)
           P == {i \in DOMAIN s : s[i].kind = "chunk"}
           Q == {i \in DOMAIN t : t[i].kind = "chunk"}
<1>1. /\ n \in Nat /\ DOMAIN s = 1 .. n /\ DOMAIN t = 1 .. n + 1 /\ Len(t) = n + 1
      /\ t[n + 1] = x /\ \A i \in 1 .. n : t[i] = s[i]
    OBVIOUS
<1>2. Chosen(t, P) = Chosen(s, P) /\ Chosen(t, P \union {n + 1}) = Append(Chosen(s, P), x)
    <2>1. P \in SUBSET DOMAIN s
        OBVIOUS
    <2> QED
        BY <2>1, ChosenOfAppended
<1> HIDE DEF t, n
<1>3. \A i \in 1 .. n : i \in 1 .. n + 1 /\ i # n + 1
    BY <1>1
<1>4. \A i \in 1 .. n + 1 : i \in 1 .. n \/ i = n + 1
    BY <1>1
<1>5. n + 1 \in 1 .. n + 1
    BY <1>1
<1>6. Q = IF x.kind = "chunk" THEN P \union {n + 1} ELSE P
    BY <1>1, <1>3, <1>4, <1>5
<1>7. GivenOf(t) = IF x.kind = "chunk" THEN Append(GivenOf(s), x) ELSE GivenOf(s)
    BY <1>2, <1>6 DEF GivenOf
<1>8. ErrorsOf(s) \subseteq ErrorsOf(t) /\ (x.kind = "error" => n + 1 \in ErrorsOf(t))
    BY <1>1, <1>3, <1>5 DEF ErrorsOf
<1>9. \E S : t \in Seq(S)
    BY StillSequence DEF t
<1> QED
    BY <1>1, <1>4, <1>7, <1>8, <1>9 DEF t, n

\* A request in some phase, how its stream stands, and what came of it.
StreamIs(phase, ok, f, b, a, buf, tear, s) ==
    /\ f = "none" => b = NoBody /\ a = 0 /\ buf = <<>> /\ tear = {} /\ s = <<>>
    /\ f # "none" => /\ phase \in Late /\ (phase = "reporting" => ok)
                     /\ IsHonest(b, a, tear, GivenOf(s))
    /\ f = "open" => \E w, k, at : Reads(b, a, buf, tear, GivenOf(s), w, k, at)
    /\ f = "ended" /\ "line end" \notin tear => IsComplete(b, a, GivenOf(s))
    /\ f = "failed" => ErrorsOf(s) # {}
    /\ \E T : s \in Seq(T)
    /\ \A i \in DOMAIN s : s[i].kind = "done" =>
            i = Len(s) /\ phase = "done" /\ f \in {"ended", "failed"}

\* Before the first event.
LEMMA NothingGiven == GivenOf(<<>>) = <<>> /\ ErrorsOf(<<>>) = {} /\ DOMAIN <<>> = {}
<1>1. DOMAIN <<>> = {} /\ Cardinality({}) = 0 /\ 1 .. 0 = {}
    BY FS_EmptySet
<1>2. {i \in DOMAIN <<>> : <<>>[i].kind = "chunk"} = {}
    BY <1>1
<1>3. Chosen(<<>>, {}) = <<>>
    BY <1>1 DEF Chosen
<1> QED
    BY <1>1, <1>2, <1>3 DEF GivenOf, ErrorsOf

\* A request without a stream.
LEMMA NoStream0 ==
    ASSUME NEW phase, NEW ok
    PROVE  StreamIs(phase, ok, "none", NoBody, 0, <<>>, {}, <<>>)
<1>1. <<>> \in Seq({})
    OBVIOUS
<1> QED
    BY <1>1, NothingGiven DEF StreamIs

\* A provider has opened a stream.
LEMMA StreamOpens ==
    ASSUME NEW ok, NEW f, NEW b, NEW a, NEW buf, NEW tear, NEW s,
           StreamIs("sending", ok, f, b, a, buf, tear, s), NEW c, IsBody(c)
    PROVE  StreamIs("reporting", TRUE, "open", c, a, buf, tear, s)
<1>1. a = 0 /\ buf = <<>> /\ tear = {} /\ s = <<>>
    BY DEF StreamIs, Late
<1>2. PICK w, at : Reads(c, 0, <<>>, {}, <<>>, w, 0, at)
    BY OpenReads
<1>3. IsHonest(c, 0, {}, <<>>)
    BY <1>2, ReadsHonestly
<1>4. <<>> \in Seq({})
    OBVIOUS
<1>5. StreamIs("reporting", TRUE, "open", c, 0, <<>>, {}, <<>>)
    BY <1>2, <1>3, <1>4, NothingGiven DEF StreamIs, Late
<1> QED
    BY <1>1, <1>5

\* A read is made of it...
LEMMA StreamReads ==
    ASSUME NEW ok, NEW b, NEW a, NEW buf, NEW tear, NEW s,
           StreamIs("streaming", ok, "open", b, a, buf, tear, s), NEW n \in Nat \ {0},
           a + n <= Len(b.symbols)
    PROVE  LET unread == SubSeq(b.symbols, a + 1, Len(b.symbols))
               read == SubSeq(unread, 1, n)
               rest == SubSeq(unread, n + 1, Len(unread))
           IN StreamIs("streaming", ok, "open", b, a + n, Received(buf, read),
                       tear \union Tears(read[n], rest), s)
<1> DEFINE unread == SubSeq(b.symbols, a + 1, Len(b.symbols))
           read == SubSeq(unread, 1, n)
           rest == SubSeq(unread, n + 1, Len(unread))
           more == tear \union Tears(read[n], rest)
<1>1. PICK w, k, at : Reads(b, a, buf, tear, GivenOf(s), w, k, at)
    BY DEF StreamIs
<1>2. a \in Nat
    BY <1>1, ReadsIs
<1>3. Layout(b, w) /\ b.symbols \in Seq(Letters(b.events))
    BY <1>1 DEF Reads, Layout
<1>4. IsPart(Letters(b.events), b.symbols, a, n, read) /\ TornAt(b, a + n, more)
    <2>1. \A x \in 1 .. Len(b.symbols) :
            /\ b.symbols[x] = CR => x < Len(b.symbols) /\ b.symbols[x + 1] = LF
            /\ b.symbols[x] = Lead => x < Len(b.symbols) /\ b.symbols[x + 1] = Cont
        BY <1>3, Spelling DEF Spelled
    <2> QED
        BY <1>2, <1>3, <2>1, TornNow
<1> HIDE DEF read, more
<1>5. tear \subseteq more
    BY DEF more
<1>6. PICK on : Reads(b, a + n, Received(buf, read), more, GivenOf(s), w, k, on)
    BY <1>1, <1>4, <1>5, ReadsOn
<1>7. IsHonest(b, a + n, more, GivenOf(s))
    BY <1>6, ReadsHonestly
<1>8. StreamIs("streaming", ok, "open", b, a + n, Received(buf, read), more, s)
    BY <1>6, <1>7 DEF StreamIs, Late
<1> QED
    BY <1>8 DEF read, more

\* ... a frame is taken out of the buffer...
LEMMA StreamTakes ==
    ASSUME NEW ok, NEW b, NEW a, NEW buf, NEW tear, NEW s,
           StreamIs("streaming", ok, "open", b, a, buf, tear, s), FrameEnds(buf) # {}
    PROVE  LET d == Decoded(FirstFrame(buf))
           IN StreamIs("streaming", ok,
                       CASE d.kind = "done"  -> "ended"
                         [] d.kind = "error" -> "failed"
                         [] OTHER            -> "open",
                       b, a, AfterFrame(buf), tear,
                       CASE d.kind = "chunk" -> Append(s, ChunkEvent(d))
                         [] d.kind = "error" -> Append(s, [kind |-> "error"])
                         [] OTHER            -> s)
<1> DEFINE d == Decoded(FirstFrame(buf))
           rest == AfterFrame(buf)
           given == GivenOf(s)
<1>1. PICK w, k, at : Reads(b, a, buf, tear, given, w, k, at)
    BY DEF StreamIs
<1>2. /\ d.kind \in {"skip", "done", "error", "chunk"}
      /\ d.kind = "skip" => \E n, to : Reads(b, a, rest, tear, given, w, n, to)
      /\ d.kind = "chunk"
            => \E n, to : Reads(b, a, rest, tear, Append(given, ChunkEvent(d)), w, n, to)
      /\ d.kind = "done" => IsComplete(b, a, given)
    BY <1>1, FrameTaken
<1>3. PICK T : s \in Seq(T)
    BY DEF StreamIs
<1>4. \A i \in DOMAIN s : s[i].kind # "done"
    BY DEF StreamIs
<1>5. IsHonest(b, a, tear, given)
    BY DEF StreamIs
<1> HIDE DEF d, rest, given
<1>6. CASE d.kind = "skip"
    <2>1. StreamIs("streaming", ok, "open", b, a, rest, tear, s)
        BY <1>2, <1>3, <1>4, <1>5, <1>6 DEF StreamIs, Late, given
    <2> QED
        BY <1>6, <2>1 DEF d, rest
<1>7. CASE d.kind = "done"
    <2>1. StreamIs("streaming", ok, "ended", b, a, rest, tear, s)
        BY <1>2, <1>3, <1>4, <1>5, <1>7 DEF StreamIs, Late, given
    <2> QED
        BY <1>7, <2>1 DEF d, rest
<1>8. CASE d.kind = "chunk"
    <2> DEFINE x == ChunkEvent(d)
               t == Append(s, x)
    <2>1. x.kind = "chunk"
        BY DEF ChunkEvent
    <2> HIDE DEF x
    <2>2. /\ GivenOf(t) = Append(given, x) /\ \E S : t \in Seq(S)
          /\ \A i \in DOMAIN t : t[i].kind # "done"
        BY <1>3, <1>4, <2>1, OneEventMore DEF given
    <2>3. PICK n, to : Reads(b, a, rest, tear, GivenOf(t), w, n, to)
        BY <1>2, <1>8, <2>2 DEF x
    <2>4. IsHonest(b, a, tear, GivenOf(t))
        BY <2>3, ReadsHonestly
    <2> HIDE DEF t
    <2>5. StreamIs("streaming", ok, "open", b, a, rest, tear, t)
        BY <2>2, <2>3, <2>4 DEF StreamIs, Late
    <2> QED
        BY <1>8, <2>5 DEF d, rest, t, x
<1>9. CASE d.kind = "error"
    <2> DEFINE x == [kind |-> "error"]
               t == Append(s, x)
    <2>1. x.kind = "error"
        OBVIOUS
    <2> HIDE DEF x
    <2>2. /\ GivenOf(t) = given /\ ErrorsOf(t) # {} /\ \E S : t \in Seq(S)
          /\ \A i \in DOMAIN t : t[i].kind # "done"
        BY <1>3, <1>4, <2>1, OneEventMore DEF given
    <2> HIDE DEF t
    <2>3. StreamIs("streaming", ok, "failed", b, a, rest, tear, t)
        BY <1>5, <2>2 DEF StreamIs, Late
    <2> QED
        BY <1>9, <2>3 DEF d, rest, t, x
<1> QED
    BY <1>2, <1>6, <1>7, <1>8, <1>9

\* ... its body ends, or the connection breaks...
LEMMA StreamEnds ==
    ASSUME NEW ok, NEW b, NEW a, NEW buf, NEW tear, NEW s,
           StreamIs("streaming", ok, "open", b, a, buf, tear, s), FrameEnds(buf) = {}
    PROVE  /\ StreamIs("streaming", ok, "ended", b, a, buf, tear, s)
           /\ StreamIs("streaming", ok, "failed", b, a, buf, tear, Append(s, [kind |-> "error"]))
<1>1. PICK w, k, at : Reads(b, a, buf, tear, GivenOf(s), w, k, at)
    BY DEF StreamIs
<1>2. "line end" \notin tear => IsComplete(b, a, GivenOf(s))
    BY <1>1, ReadsToTheEnd
<1>3. PICK T : s \in Seq(T)
    BY DEF StreamIs
<1>4. (\A i \in DOMAIN s : s[i].kind # "done") /\ IsHonest(b, a, tear, GivenOf(s))
    BY DEF StreamIs
<1>5. StreamIs("streaming", ok, "ended", b, a, buf, tear, s)
    BY <1>2, <1>3, <1>4 DEF StreamIs, Late
<1> DEFINE x == [kind |-> "error"]
           t == Append(s, x)
<1>6. x.kind = "error"
    OBVIOUS
<1> HIDE DEF x
<1>7. /\ GivenOf(t) = GivenOf(s) /\ ErrorsOf(t) # {} /\ \E S : t \in Seq(S)
      /\ \A i \in DOMAIN t : t[i].kind # "done"
    BY <1>3, <1>4, <1>6, OneEventMore
<1> HIDE DEF t
<1>8. StreamIs("streaming", ok, "failed", b, a, buf, tear, t)
    BY <1>4, <1>7 DEF StreamIs, Late
<1> QED
    BY <1>5, <1>8 DEF t, x

\* ... [DONE] is sent...
LEMMA StreamConcludes ==
    ASSUME NEW ok, NEW ok2, NEW f \in {"ended", "failed"}, NEW b, NEW a, NEW buf, NEW tear, NEW s,
           StreamIs("streaming", ok, f, b, a, buf, tear, s)
    PROVE  StreamIs("done", ok2, f, b, a, buf, tear, Append(s, [kind |-> "done"]))
<1>1. PICK T : s \in Seq(T)
    BY DEF StreamIs
<1>2. (\A i \in DOMAIN s : s[i].kind # "done") /\ IsHonest(b, a, tear, GivenOf(s))
      /\ (f = "failed" => ErrorsOf(s) # {})
    BY DEF StreamIs
<1> DEFINE x == [kind |-> "done"]
           t == Append(s, x)
<1>3. x.kind = "done"
    OBVIOUS
<1> HIDE DEF x
<1>4. /\ GivenOf(t) = GivenOf(s) /\ ErrorsOf(s) \subseteq ErrorsOf(t) /\ \E S : t \in Seq(S)
      /\ \A i \in DOMAIN t : t[i].kind = "done" => i = Len(t)
    BY <1>1, <1>2, <1>3, OneEventMore
<1> HIDE DEF t
<1>5. StreamIs("done", ok2, f, b, a, buf, tear, t)
    BY <1>2, <1>4 DEF StreamIs, Late
<1> QED
    BY <1>5 DEF t, x

\* ... or the client goes.
LEMMA StreamHangsUp ==
    ASSUME NEW ok, NEW ok2, NEW b, NEW a, NEW buf, NEW tear, NEW s,
           StreamIs("streaming", ok, "open", b, a, buf, tear, s)
    PROVE  StreamIs("done", ok2, "hung up", b, a, buf, tear, s)
    BY DEF StreamIs, Late

\* The request goes on, and its stream stands as it stood.
LEMMA StreamStands ==
    ASSUME NEW phase, NEW ok, NEW f, NEW b, NEW a, NEW buf, NEW tear, NEW s,
           StreamIs(phase, ok, f, b, a, buf, tear, s), NEW next, NEW ok2, phase # "done",
           phase \in Late => \/ phase = "reporting" /\ ~ok
                             \/ next \in Late \ {"reporting"}
    PROVE  StreamIs(next, ok2, f, b, a, buf, tear, s)
    BY DEF StreamIs, Late

\* r's stream, in a state of the server.
StreamFits(r) ==
    StreamIs(req[r].phase, req[r].ok, fate[r], body[r], arrived[r], buffer[r], torn[r], sse[r])

StreamIInv ==
    /\ WireIInv
    /\ DOMAIN body = Requests /\ DOMAIN arrived = Requests /\ DOMAIN buffer = Requests
    /\ DOMAIN fate = Requests /\ DOMAIN torn = Requests /\ DOMAIN sse = Requests
    /\ \A r \in Requests : StreamFits(r)

streamVars == <<body, arrived, buffer, fate, torn, sse>>

\* Only r's stream moves, if any does.
OnlyItsStream(r) ==
    /\ DOMAIN body' = Requests /\ DOMAIN arrived' = Requests /\ DOMAIN buffer' = Requests
    /\ DOMAIN fate' = Requests /\ DOMAIN torn' = Requests /\ DOMAIN sse' = Requests
    /\ \A q \in Requests : q # r =>
        /\ body'[q] = body[q] /\ arrived'[q] = arrived[q] /\ buffer'[q] = buffer[q]
        /\ fate'[q] = fate[q] /\ torn'[q] = torn[q] /\ sse'[q] = sse[q]

\* Then the other streams stand as they stood.
LEMMA OneStreamMoves ==
    ASSUME StreamIInv, WireIInv', NEW r \in Requests, OnlyItsStream(r), StreamFits(r)',
           \A q \in Requests : q # r => req'[q] = req[q]
    PROVE  StreamIInv'
<1>1. ASSUME NEW q \in Requests, q # r
      PROVE  StreamFits(q)'
    BY <1>1 DEF StreamIInv, StreamFits, OnlyItsStream
<1>2. \A q \in Requests : StreamFits(q)'
    BY <1>1
<1> QED
    BY <1>2 DEF StreamIInv, OnlyItsStream

\* A step of the route, while the stream of r stands as it stood.
LEMMA StreamWaits ==
    ASSUME StreamIInv, WireIInv', NEW r \in Requests, UNCHANGED streamVars,
           \A q \in Requests : q # r => req'[q] = req[q],
           req[r].phase # "done",
           req[r].phase \in Late => \/ req[r].phase = "reporting" /\ ~req[r].ok
                                    \/ req'[r].phase \in Late \ {"reporting"}
    PROVE  StreamIInv'
<1>1. StreamFits(r)
    BY DEF StreamIInv
<1>2. StreamIs(req'[r].phase, req'[r].ok, fate[r], body[r], arrived[r], buffer[r], torn[r],
               sse[r])
    BY <1>1, StreamStands DEF StreamFits
<1>3. StreamFits(r)'
    BY <1>2 DEF StreamFits, streamVars
<1>4. OnlyItsStream(r)
    BY DEF StreamIInv, OnlyItsStream, streamVars
<1> QED
    BY <1>3, <1>4, OneStreamMoves

\* A step of the route that no stream sees.
LEMMA UnseenStreams ==
    ASSUME StreamIInv, WireIInv', NEW r \in Requests, UNCHANGED streamVars,
           \/ Drop(r) \/ Call(r) \/ Skip(r) \/ ReportResult(r)
           \/ CountSuccess(r) \/ CountError(r) \/ RefuseStream(r)
           \/ Respond(r) \/ \E persisted \in BOOLEAN : Persist(r, persisted)
    PROVE  StreamIInv'
<1>1. IInv
    BY DEF StreamIInv, WireIInv
<1>2. Serve(r)
    BY DEF Serve
<1>3. Alone(r) /\ req[r].phase # "done"
    <2>1. Alone(r)
        BY <1>1, <1>2, ServeMoves
    <2>2. req[r].phase # "done"
        BY <1>1, DropStep, CallStep, SkipStep, ReportResultStep, CountSuccessStep,
            CountErrorStep, RefuseStreamStep, RespondStep, PersistStep
    <2> QED
        BY <2>1, <2>2
<1>4. req[r].phase \in Late => \/ req[r].phase = "reporting" /\ ~req[r].ok
                               \/ req'[r].phase \in Late \ {"reporting"}
    <2>1. CASE Drop(r) \/ Call(r) \/ Skip(r)
        BY <1>1, <2>1, DropStep, CallStep, SkipStep DEF Late
    <2>2. CASE ReportResult(r) \/ CountSuccess(r) \/ CountError(r)
        BY <1>1, <2>2, ReportResultStep, CountSuccessStep, CountErrorStep DEF Late
    <2>3. CASE \/ RefuseStream(r) \/ Respond(r)
               \/ \E persisted \in BOOLEAN : Persist(r, persisted)
        BY <1>1, <2>3, RefuseStreamStep, RespondStep, PersistStep DEF Late
    <2> QED
        BY <2>1, <2>2, <2>3
<1> QED
    BY <1>3, <1>4, StreamWaits DEF Alone

\* A request comes in.
LEMMA ReceiveChatStreams ==
    ASSUME StreamIInv, WireIInv', NEW r \in Requests, NEW ask \in Asks, NEW stream \in BOOLEAN,
           NEW c \in Chats, ReceiveChat(r, ask, stream, c)
    PROVE  StreamIInv'
<1>1. IInv
    BY DEF StreamIInv, WireIInv
<1>2. Alone(r) /\ req[r].phase = "new"
    BY <1>1, ReceiveStep DEF ReceiveChat
<1>3. UNCHANGED streamVars
    BY DEF ReceiveChat, streamVars
<1> QED
    BY <1>2, <1>3, StreamWaits DEF Alone, Late

\* A call returns, and no stream with it.
LEMMA AnswerBufferedStreams ==
    ASSUME StreamIInv, WireIInv', NEW r \in Requests, NEW ok, Answer(r, ok),
           UNCHANGED streamVars
    PROVE  StreamIInv'
<1>1. IInv /\ ok \in BOOLEAN
    BY AnswerIsDefinite DEF StreamIInv, WireIInv
<1>2. Alone(r) /\ req[r].phase = "sending"
    BY <1>1, AnswerStep
<1> QED
    BY <1>2, StreamWaits DEF Alone, Late

\* A stream is opened.
LEMMA OpenedStreams ==
    ASSUME StreamIInv, WireIInv', NEW r \in Requests, Answer(r, TRUE), NEW b \in Bodies,
           body' = [body EXCEPT ![r] = b], fate' = [fate EXCEPT ![r] = "open"],
           UNCHANGED <<arrived, buffer, torn, sse>>
    PROVE  StreamIInv'
<1>1. IInv /\ StreamFits(r)
    BY DEF StreamIInv, WireIInv
<1>2. Alone(r) /\ req[r].phase = "sending" /\ req'[r].phase = "reporting" /\ req'[r].ok = TRUE
    BY <1>1, AnswerStep
<1>3. IsBody(b)
    BY WireAssumption
<1>4. StreamIs("reporting", TRUE, "open", b, arrived[r], buffer[r], torn[r], sse[r])
    BY <1>1, <1>2, <1>3, StreamOpens DEF StreamFits
<1>5. body'[r] = b /\ fate'[r] = "open" /\ OnlyItsStream(r)
    BY DEF StreamIInv, OnlyItsStream
<1>6. StreamFits(r)'
    BY <1>2, <1>4, <1>5 DEF StreamFits
<1> QED
    BY <1>2, <1>5, <1>6, OneStreamMoves DEF Alone

\* A read of a stream.
LEMMA ReadStreams ==
    ASSUME StreamIInv, WireIInv', NEW r \in Requests, NEW n, Read(r, n),
           n \in 1 .. Len(Unread(r))
    PROVE  StreamIInv'
<1> DEFINE y == body[r].symbols
           a == arrived[r]
           read == SubSeq(Unread(r), 1, n)
           rest == SubSeq(Unread(r), n + 1, Len(Unread(r)))
<1>1. StreamFits(r) /\ req[r].phase = "streaming" /\ fate[r] = "open"
    BY DEF StreamIInv, Read, Starved, Reading
<1>2. StreamIs("streaming", req[r].ok, "open", body[r], a, buffer[r], torn[r], sse[r])
    BY <1>1 DEF StreamFits
<1>3. a \in Nat /\ a <= Len(y) /\ Len(y) \in Nat /\ y \in Seq(Letters(body[r].events))
    <2>1. PICK w, k, at : Reads(body[r], a, buffer[r], torn[r], GivenOf(sse[r]), w, k, at)
        BY <1>2 DEF StreamIs
    <2> QED
        BY <2>1, ReadsIs DEF Reads, Layout
<1>4. n \in Nat \ {0} /\ a + n <= Len(y)
    <2>1. Len(Unread(r)) = Len(y) - a
        BY <1>3 DEF Unread
    <2> HIDE DEF y, a
    <2> QED
        BY <1>3, <2>1
<1>5. StreamIs("streaming", req[r].ok, "open", body[r], a + n, Received(buffer[r], read),
               torn[r] \union Tears(read[n], rest), sse[r])
    BY <1>2, <1>4, StreamReads DEF Unread
<1>6. /\ buffer'[r] = Received(buffer[r], read) /\ arrived'[r] = a + n
      /\ torn'[r] = torn[r] \union Tears(read[n], rest)
      /\ UNCHANGED <<body, fate, sse, req>> /\ OnlyItsStream(r)
    BY DEF StreamIInv, OnlyItsStream, Read, vars
<1>7. StreamFits(r)'
    BY <1>1, <1>5, <1>6 DEF StreamFits
<1> QED
    BY <1>6, <1>7, OneStreamMoves

\* A frame of a stream.
LEMMA TakeFrameStreams ==
    ASSUME StreamIInv, WireIInv', NEW r \in Requests, TakeFrame(r)
    PROVE  StreamIInv'
<1> DEFINE d == Decoded(FirstFrame(buffer[r]))
           to == CASE d.kind = "done"  -> "ended"
                   [] d.kind = "error" -> "failed"
                   [] OTHER            -> fate[r]
           events == CASE d.kind = "chunk" -> Append(sse[r], ChunkEvent(d))
                       [] d.kind = "error" -> Append(sse[r], [kind |-> "error"])
                       [] OTHER            -> sse[r]
<1>1. /\ StreamFits(r) /\ req[r].phase = "streaming" /\ fate[r] = "open"
      /\ FrameEnds(buffer[r]) # {}
    BY DEF StreamIInv, TakeFrame, Reading
<1>2. StreamIs("streaming", req[r].ok, "open", body[r], arrived[r], buffer[r], torn[r], sse[r])
    BY <1>1 DEF StreamFits
<1>3. StreamIs("streaming", req[r].ok, to, body[r], arrived[r], AfterFrame(buffer[r]), torn[r],
               events)
    BY <1>1, <1>2, StreamTakes
<1> HIDE DEF to, events
<1>4. fate' = [fate EXCEPT ![r] = to] /\ sse' = [sse EXCEPT ![r] = events]
    BY DEF TakeFrame, to, events
<1>5. buffer' = [buffer EXCEPT ![r] = AfterFrame(buffer[r])]
      /\ UNCHANGED <<body, arrived, torn, req>>
    BY DEF TakeFrame, vars
<1>6. /\ fate'[r] = to /\ sse'[r] = events /\ buffer'[r] = AfterFrame(buffer[r])
      /\ OnlyItsStream(r)
    BY <1>4, <1>5 DEF StreamIInv, OnlyItsStream
<1>7. StreamFits(r)'
    BY <1>1, <1>3, <1>5, <1>6 DEF StreamFits
<1> QED
    BY <1>5, <1>6, <1>7, OneStreamMoves

\* The body ends, or the connection breaks.
LEMMA EndsStreams ==
    ASSUME StreamIInv, WireIInv', NEW r \in Requests, ReadEnds(r) \/ ReadFails(r)
    PROVE  StreamIInv'
<1>1. /\ StreamFits(r) /\ req[r].phase = "streaming" /\ fate[r] = "open"
      /\ FrameEnds(buffer[r]) = {}
    BY DEF StreamIInv, ReadEnds, ReadFails, Starved, Reading
<1>2. StreamIs("streaming", req[r].ok, "open", body[r], arrived[r], buffer[r], torn[r], sse[r])
    BY <1>1 DEF StreamFits
<1>3. /\ StreamIs("streaming", req[r].ok, "ended", body[r], arrived[r], buffer[r], torn[r],
                  sse[r])
      /\ StreamIs("streaming", req[r].ok, "failed", body[r], arrived[r], buffer[r], torn[r],
                  Append(sse[r], [kind |-> "error"]))
    BY <1>1, <1>2, StreamEnds
<1>4. UNCHANGED <<body, arrived, buffer, torn, req>>
    BY DEF ReadEnds, ReadFails, vars
<1>5. \/ fate'[r] = "ended" /\ sse'[r] = sse[r]
      \/ fate'[r] = "failed" /\ sse'[r] = Append(sse[r], [kind |-> "error"])
    BY DEF StreamIInv, ReadEnds, ReadFails
<1>6. OnlyItsStream(r)
    BY <1>4 DEF StreamIInv, OnlyItsStream, ReadEnds, ReadFails
<1>7. StreamFits(r)'
    BY <1>1, <1>3, <1>4, <1>5 DEF StreamFits
<1> QED
    BY <1>4, <1>6, <1>7, OneStreamMoves

\* The last event is sent, or the client goes.
LEMMA LastEventStreams ==
    ASSUME StreamIInv, WireIInv', NEW r \in Requests, Conclude(r) \/ HangUp(r)
    PROVE  StreamIInv'
<1>1. IInv /\ StreamFits(r)
    BY DEF StreamIInv, WireIInv
<1>2. Alone(r) /\ req[r].phase = "streaming" /\ req'[r].phase = "done"
    BY <1>1, EndStreamStep DEF Conclude, HangUp
<1>3. UNCHANGED <<body, arrived, buffer, torn>>
    BY DEF Conclude, HangUp
<1>4. CASE Conclude(r)
    <2>1. fate[r] \in {"ended", "failed"} /\ UNCHANGED fate
          /\ sse' = [sse EXCEPT ![r] = Append(sse[r], [kind |-> "done"])]
        BY <1>4 DEF Conclude
    <2>2. StreamIs("done", req'[r].ok, fate[r], body[r], arrived[r], buffer[r], torn[r],
                   Append(sse[r], [kind |-> "done"]))
        BY <1>1, <1>2, <2>1, StreamConcludes DEF StreamFits
    <2>3. sse'[r] = Append(sse[r], [kind |-> "done"]) /\ OnlyItsStream(r)
        BY <1>3, <2>1 DEF StreamIInv, OnlyItsStream
    <2>4. StreamFits(r)'
        BY <1>2, <1>3, <2>1, <2>2, <2>3 DEF StreamFits
    <2> QED
        BY <1>2, <2>3, <2>4, OneStreamMoves DEF Alone
<1>5. CASE HangUp(r)
    <2>1. fate[r] = "open" /\ UNCHANGED sse /\ fate' = [fate EXCEPT ![r] = "hung up"]
        BY <1>5 DEF HangUp, Reading
    <2>2. StreamIs("done", req'[r].ok, "hung up", body[r], arrived[r], buffer[r], torn[r],
                   sse[r])
        BY <1>1, <1>2, <2>1, StreamHangsUp DEF StreamFits
    <2>3. fate'[r] = "hung up" /\ OnlyItsStream(r)
        BY <1>3, <2>1 DEF StreamIInv, OnlyItsStream
    <2>4. StreamFits(r)'
        BY <1>2, <1>3, <2>1, <2>2, <2>3 DEF StreamFits
    <2> QED
        BY <1>2, <2>3, <2>4, OneStreamMoves DEF Alone
<1> QED
    BY <1>4, <1>5

\* At first there are no streams.
LEMMA StreamInitFits ==
    ASSUME WireInit
    PROVE  StreamIInv
<1>1. WireIInv
    BY WireInitFits
<1>2. /\ body = [r \in Requests |-> NoBody] /\ arrived = [r \in Requests |-> 0]
      /\ buffer = [r \in Requests |-> <<>>] /\ fate = [r \in Requests |-> "none"]
      /\ torn = [r \in Requests |-> {}] /\ sse = [r \in Requests |-> <<>>]
    BY DEF WireInit
<1>3. \A r \in Requests : StreamFits(r)
    BY <1>2, NoStream0 DEF StreamFits
<1> QED
    BY <1>1, <1>2, <1>3 DEF StreamIInv

\* Every step keeps the invariant.
LEMMA StreamStep ==
    ASSUME StreamIInv, [WireNext]_allVars
    PROVE  StreamIInv'
<1>1. WireIInv'
    BY WireStepFits DEF StreamIInv
<1>2. ASSUME UNCHANGED req, UNCHANGED streamVars PROVE StreamIInv'
    <2>1. \A q \in Requests : StreamFits(q)'
        BY <1>2 DEF StreamIInv, StreamFits, streamVars
    <2> QED
        BY <1>1, <1>2, <2>1 DEF StreamIInv, streamVars
<1>3. CASE UNCHANGED allVars
    BY <1>2, <1>3 DEF allVars, wireVars, vars, streamVars
<1>4. CASE Elapse /\ UNCHANGED wireVars
    BY <1>2, <1>4 DEF wireVars, streamVars, Elapse
<1>5. ASSUME NEW r \in Requests, ServeWire(r)
      PROVE  StreamIInv'
    <2>1. ASSUME NEW reply \in Replies, AnswerBuffered(r, reply) PROVE StreamIInv'
        <3>1. (\E ok : Answer(r, ok)) /\ UNCHANGED streamVars
            BY <2>1 DEF AnswerBuffered, streamVars
        <3> QED
            BY <1>1, <3>1, AnswerBufferedStreams
    <2>2. ASSUME NEW reply \in Replies, NEW b \in Bodies, AnswerStream(r, reply, b)
          PROVE  StreamIInv'
        <3>1. PICK x : /\ Answer(r, x.result.ok)
                       /\ UNCHANGED <<arrived, buffer, torn, sse>>
                       /\ IF x.result.ok
                          THEN body' = [body EXCEPT ![r] = b]
                               /\ fate' = [fate EXCEPT ![r] = "open"]
                          ELSE UNCHANGED <<body, fate>>
            BY <2>2 DEF AnswerStream
        <3>2. x.result.ok \in BOOLEAN
            BY <1>1, <3>1, AnswerIsDefinite DEF StreamIInv
        <3>3. CASE x.result.ok = TRUE
            BY <1>1, <3>1, <3>3, OpenedStreams
        <3>4. CASE x.result.ok = FALSE
            BY <1>1, <3>1, <3>4, AnswerBufferedStreams DEF streamVars
        <3> QED
            BY <3>2, <3>3, <3>4
    <2>3. CASE HangUp(r) \/ Conclude(r)
        BY <1>1, <2>3, LastEventStreams
    <2>4. CASE ReadEnds(r) \/ ReadFails(r)
        BY <1>1, <2>4, EndsStreams
    <2>5. CASE TakeFrame(r)
        BY <1>1, <2>5, TakeFrameStreams
    <2>6. ASSUME NEW n \in 1 .. Len(Unread(r)), Read(r, n) PROVE StreamIInv'
        BY <1>1, <2>6, ReadStreams
    <2>7. CASE /\ \/ Drop(r) \/ Call(r) \/ Skip(r) \/ ReportResult(r)
                  \/ CountSuccess(r) \/ CountError(r) \/ RefuseStream(r)
                  \/ Respond(r) \/ \E persisted \in BOOLEAN : Persist(r, persisted)
               /\ UNCHANGED wireVars
        BY <1>1, <2>7, UnseenStreams DEF wireVars, streamVars
    <2> QED
        BY <1>5, <2>1, <2>2, <2>3, <2>4, <2>5, <2>6, <2>7 DEF ServeWire
<1> QED
    BY <1>1, <1>3, <1>4, <1>5, ReceiveChatStreams DEF WireNext

\* So it holds always.
LEMMA StreamInvariance == WireSpec => []StreamIInv
<1> QED
    BY StreamInitFits, StreamStep, PTL DEF WireSpec

\* Said of one stream as the properties say it.
LEMMA StreamTells ==
    ASSUME StreamIInv, NEW r \in Requests
    PROVE  /\ Given(r) = GivenOf(sse[r]) /\ Errors(r) = ErrorsOf(sse[r])
           /\ Chunks(Arrived(r)) = AllSaid(body[r], arrived[r])
           /\ IsHonest(body[r], arrived[r], torn[r], Given(r))
<1>1. Given(r) = GivenOf(sse[r]) /\ Errors(r) = ErrorsOf(sse[r])
    BY DEF Given, GivenOf, Errors, ErrorsOf
<1>2. Chunks(Arrived(r)) = AllSaid(body[r], arrived[r])
    BY DEF Arrived, Whole, AllSaid, WholeOf
<1>3. StreamFits(r)
    BY DEF StreamIInv
<1>4. CASE fate[r] # "none"
    BY <1>1, <1>2, <1>3, <1>4 DEF StreamFits, StreamIs
<1>5. CASE fate[r] = "none"
    <2>1. body[r] = NoBody /\ arrived[r] = 0 /\ torn[r] = {} /\ sse[r] = <<>>
        BY <1>3, <1>5 DEF StreamFits, StreamIs
    <2>2. IsHonest(NoBody, 0, {}, <<>>)
        <3>1. NoBody.events = <<>> /\ NoBody.ends = <<>> /\ DOMAIN <<>> = {} /\ Len(<<>>) = 0
            BY DEF NoBody
        <3>2. WholeOf(NoBody, 0) = {} /\ Cardinality({}) = 0
            BY <3>1, FS_EmptySet DEF WholeOf
        <3>3. Chunks(SubSeq(<<>>, 1, 0)) = Chosen(<<>>, ChunkPlaces(<<>>, 0))
            <4>1. <<>> \in Seq({}) /\ 0 <= Len(<<>>) /\ 0 \in Nat
                OBVIOUS
            <4> QED
                BY <4>1, ChunksOfPart
        <3>4. Cardinality(ChunkPlaces(<<>>, 0)) = 0
            <4>1. ChunkPlaces(<<>>, 0) = {}
                BY DEF ChunkPlaces
            <4> QED
                BY <3>2, <4>1
        <3>5. AllSaid(NoBody, 0) = Chunks(SubSeq(<<>>, 1, 0))
            BY <3>1, <3>2 DEF AllSaid
        <3>6. Len(Chosen(<<>>, ChunkPlaces(<<>>, 0))) = 0
            BY <3>4 DEF Chosen
        <3>7. Len(AllSaid(NoBody, 0)) = 0
            BY <3>3, <3>5, <3>6
        <3> QED
            BY <3>1, <3>7 DEF IsHonest
    <2> QED
        BY <1>1, <1>2, <2>1, <2>2, NothingGiven
<1> QED
    BY <1>1, <1>2, <1>4, <1>5

\* However the network cuts a stream into reads, the client is given what the
\* model said, chunk by chunk, and no more than has arrived.
THEOREM StreamsAreHonest == WireSpec => []ChunksAreTheModels
<1>1. StreamIInv => ChunksAreTheModels
    BY StreamTells DEF ChunksAreTheModels, IsHonest
<1> QED
    BY <1>1, StreamInvariance, PTL

\* No chunk that arrived whole is missing from a stream that ended without an
\* error, and [DONE] is the last event of every stream that is concluded.
THEOREM NothingIsLostQuietly == WireSpec => []NothingLostQuietly
<1>1. ASSUME StreamIInv
      PROVE  NothingLostQuietly
    <2> SUFFICES ASSUME NEW r \in Requests, Finished(r)
                 PROVE  /\ Errors(r) = {} /\ "line end" \notin torn[r]
                              => Len(Given(r)) = Len(Chunks(Arrived(r)))
                        /\ \A i \in 1 .. Len(sse[r]) - 1 : sse[r][i].kind # "done"
        BY DEF NothingLostQuietly
    <2>1. StreamIs(req[r].phase, req[r].ok, fate[r], body[r], arrived[r], buffer[r], torn[r],
                   sse[r])
        BY <1>1 DEF StreamIInv, StreamFits
    <2>2. PICK T : sse[r] \in Seq(T)
        BY <2>1 DEF StreamIs
    <2>3. /\ Len(sse[r]) \in Nat /\ DOMAIN sse[r] = 1 .. Len(sse[r])
          /\ Len(sse[r]) \in DOMAIN sse[r] /\ sse[r][Len(sse[r])].kind = "done"
        BY <2>2 DEF Finished, Last
    <2>4. fate[r] \in {"ended", "failed"}
        BY <2>1, <2>3 DEF StreamIs
    <2>5. \A i \in 1 .. Len(sse[r]) - 1 : i \in DOMAIN sse[r] /\ i # Len(sse[r])
        BY <2>3
    <2>6. \A i \in 1 .. Len(sse[r]) - 1 : sse[r][i].kind # "done"
        BY <2>1, <2>5 DEF StreamIs
    <2>7. ASSUME Errors(r) = {}, "line end" \notin torn[r]
          PROVE  Len(Given(r)) = Len(Chunks(Arrived(r)))
        <3>1. fate[r] = "ended"
            BY <1>1, <2>1, <2>4, <2>7, StreamTells DEF StreamIs
        <3>2. IsComplete(body[r], arrived[r], GivenOf(sse[r]))
            BY <2>1, <2>7, <3>1 DEF StreamIs
        <3> QED
            BY <1>1, <3>2, StreamTells DEF IsComplete
    <2> QED
        BY <2>6, <2>7
<1> QED
    BY <1>1, StreamInvariance, PTL

=============================================================================
