--------------------------- MODULE ProviderManager --------------------------
(***************************************************************************)
(* ProviderManager of the API server: the registered providers and the     *)
(* breaker of each, shared by every request the server is working on.      *)
(*                                                                         *)
(* `get_provider` and `report_result` each hold the write lock on          *)
(* `circuit_breakers` from their first look at a breaker to their last     *)
(* change of it, so each is one action.  Between the two a caller awaits   *)
(* the provider; `inflight` counts the callers that were given a provider  *)
(* and have not reported yet.  They may report in any order, long after    *)
(* the breaker has changed state, or never, when their future is dropped.  *)
(***************************************************************************)
EXTENDS CircuitBreaker, FiniteSets

CONSTANTS
    Names,        \* names get_provider is asked for
    Registered,   \* those of them with a provider, and so with a breaker
    Config,       \* Config[p]: the breaker configuration of provider p
    MaxInFlight   \* bound: callers of one provider at the same time

ASSUME RegisteredAssumption == Registered \subseteq Names
ASSUME ConfigAssumption == Config \in [Registered -> BreakerConfig]
ASSUME MaxInFlightAssumption == MaxInFlight \in Nat

VARIABLES
    breakers,     \* circuit_breakers: the breaker of each registered provider
    inflight      \* callers between get_provider and report_result

vars == <<breakers, inflight>>

TypeOK ==
    /\ breakers \in [Registered -> Breaker]
    /\ inflight \in [Registered -> Nat]

\* ProviderManager::new inserts a provider and its breaker together.
Init ==
    /\ breakers = [p \in Registered |-> NewBreaker]
    /\ inflight = [p \in Registered |-> 0]

-----------------------------------------------------------------------------

\* get_provider returns Some: the breaker lets the caller through.
Admit(p) ==
    /\ inflight[p] < MaxInFlight
    /\ CanAttempt(breakers[p], Config[p])
    /\ breakers' = [breakers EXCEPT ![p] = AfterCanAttempt(@, Config[p])]
    /\ inflight' = [inflight EXCEPT ![p] = @ + 1]

\* get_provider returns None: no such provider, or its breaker is open.
Refuse(n) ==
    /\ n \in Registered => ~CanAttempt(breakers[n], Config[n])
    /\ UNCHANGED vars

\* Mutant: the same call can be reported twice.
ReportAgain(p, is_success) ==
    /\ breakers' = [breakers EXCEPT ![p] =
                        IF is_success THEN RecordSuccess(@, Config[p])
                                      ELSE RecordFailure(@, Config[p])]
    /\ inflight' = [inflight EXCEPT ![p] = @ - 1]

Report(p, is_success) ==
    /\ inflight[p] > 0
    /\ breakers' = [breakers EXCEPT ![p] =
                        IF is_success THEN RecordSuccess(@, Config[p])
                                      ELSE RecordFailure(@, Config[p])]
    /\ inflight' = [inflight EXCEPT ![p] = @ - 1]

\* The request timeout or a disconnecting client drops the caller's future
\* between get_provider and report_result: nothing is ever reported.
Abandon(p) ==
    /\ inflight[p] > 0
    /\ inflight' = [inflight EXCEPT ![p] = @ - 1]
    /\ UNCHANGED breakers

Elapse ==
    /\ breakers' = [p \in Registered |-> Aged(breakers[p], Config[p])]
    /\ UNCHANGED inflight

Next ==
    \/ \E p \in Registered : Admit(p)
    \/ \E n \in Names : Refuse(n)
    \/ \E p \in Registered, is_success \in BOOLEAN : Report(p, is_success)
    \/ \E p \in Registered : Abandon(p)
    \/ Elapse

Spec == Init /\ [][Next]_vars

-----------------------------------------------------------------------------

\* A breaker that is not closed, or has counted a failure, knows when it
\* failed: can_attempt never takes the branch that lets callers through an
\* open breaker for want of a timestamp, and every open breaker has a time at
\* which it probes again.
Stamped(b, c) ==
    /\ b.failure_count > 0 \/ b.state # "Closed" => b.last_failure # None
    /\ b.last_failure # None => b.last_failure <= c.timeout_secs

\* No breaker stays in a state its counters say it should have left, and a
\* success counted towards closing is forgotten when the breaker reopens.
Counting(b, c) ==
    /\ b.state = "Closed" =>
        (b.failure_count = 0 \/ b.failure_count < c.failure_threshold)
    /\ b.state = "HalfOpen" =>
        (b.success_count = 0 \/ b.success_count < c.success_threshold)
    /\ b.state # "HalfOpen" => b.success_count = 0

\* The fields of every breaker agree with each other and with its thresholds,
\* however stale the reports that moved them and whoever vanished meanwhile.
BreakerInv ==
    \A p \in Registered :
        Stamped(breakers[p], Config[p]) /\ Counting(breakers[p], Config[p])

=============================================================================
