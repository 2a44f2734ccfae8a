--------------------------- MODULE CircuitBreaker ---------------------------
(***************************************************************************)
(* The circuit breaker of one provider, as operators on its fields:        *)
(* `CircuitBreaker` and `CircuitBreakerConfig` of the API server.  The     *)
(* breaker is called under the write lock of its owner, so each operator   *)
(* is one atomic change; ProviderManager and ChatCompletion say when.      *)
(*                                                                         *)
(* The code stores `last_failure_time: Option<Instant>` and only ever asks *)
(* whether `timeout_secs` have passed since.  Here `last_failure` is None  *)
(* or the time since that failure, which stops growing at `timeout_secs`:  *)
(* every question the code asks has the same answer, and a behaviour may   *)
(* be as long as it likes without a bound on the clock.                    *)
(***************************************************************************)
EXTENDS Naturals

CONSTANT None  \* Option::None of last_failure_time

ASSUME NoneAssumption == None \notin Nat

BreakerStates == {"Closed", "Open", "HalfOpen"}

\* Config::validate checks nothing: any threshold, 0 included, is accepted.
BreakerConfig ==
    [failure_threshold: Nat, success_threshold: Nat, timeout_secs: Nat]

Breaker ==
    [state: BreakerStates, failure_count: Nat, success_count: Nat,
     last_failure: Nat \union {None}]

NewBreaker ==
    [state |-> "Closed", failure_count |-> 0, success_count |-> 0,
     last_failure |-> None]

-----------------------------------------------------------------------------

\* Mutant: a success does not interrupt the run of failures being counted.
RecordSuccessKeepsCount(b, c) ==
    CASE b.state = "HalfOpen" /\ b.success_count + 1 >= c.success_threshold ->
            [b EXCEPT !.state = "Closed", !.failure_count = 0, !.success_count = 0]
      [] b.state = "HalfOpen" /\ b.success_count + 1 < c.success_threshold ->
            [b EXCEPT !.success_count = @ + 1]
      [] OTHER -> b

RecordSuccess(b, c) ==
    CASE b.state = "Closed" -> [b EXCEPT !.failure_count = 0]
      [] b.state = "HalfOpen" /\ b.success_count + 1 >= c.success_threshold ->
            [b EXCEPT !.state = "Closed", !.failure_count = 0, !.success_count = 0]
      [] b.state = "HalfOpen" /\ b.success_count + 1 < c.success_threshold ->
            [b EXCEPT !.success_count = @ + 1]
      [] OTHER -> b

\* Mutant: a failed probe reopens the breaker but keeps the old timestamp.
RecordFailureStaleStamp(b, c) ==
    CASE b.state = "Closed" ->
            [b EXCEPT !.failure_count = @ + 1, !.last_failure = 0,
                      !.state = IF b.failure_count + 1 >= c.failure_threshold
                                THEN "Open" ELSE "Closed"]
      [] b.state = "HalfOpen" ->
            [b EXCEPT !.state = "Open", !.failure_count = 1, !.success_count = 0]
      [] OTHER -> b

\* Mutant: the threshold is compared before the failure is counted.
RecordFailureOffByOne(b, c) ==
    CASE b.state = "Closed" ->
            [b EXCEPT !.failure_count = @ + 1, !.last_failure = 0,
                      !.state = IF b.failure_count >= c.failure_threshold
                                THEN "Open" ELSE "Closed"]
      [] b.state = "HalfOpen" ->
            [b EXCEPT !.state = "Open", !.failure_count = 1, !.success_count = 0,
                      !.last_failure = 0]
      [] OTHER -> b

RecordFailure(b, c) ==
    CASE b.state = "Closed" ->
            [b EXCEPT !.failure_count = @ + 1, !.last_failure = 0,
                      !.state = IF b.failure_count + 1 >= c.failure_threshold
                                THEN "Open" ELSE "Closed"]
      [] b.state = "HalfOpen" ->
            [b EXCEPT !.state = "Open", !.failure_count = 1, !.success_count = 0,
                      !.last_failure = 0]
      [] OTHER -> b

\* can_attempt is a question and a change: an open breaker whose wait is over
\* becomes half-open, and a half-open one lets every caller through.
CooledDown(b, c) == b.last_failure # None /\ b.last_failure >= c.timeout_secs

CanAttempt(b, c) ==
    b.state = "Open" => b.last_failure = None \/ CooledDown(b, c)

\* Mutant: every caller let through a half-open breaker restarts the count of successes.
AfterCanAttemptRestartsCount(b, c) ==
    IF b.state = "HalfOpen" \/ (b.state = "Open" /\ CooledDown(b, c))
    THEN [b EXCEPT !.state = "HalfOpen", !.success_count = 0]
    ELSE b

AfterCanAttempt(b, c) ==
    IF b.state = "Open" /\ CooledDown(b, c)
    THEN [b EXCEPT !.state = "HalfOpen", !.success_count = 0]
    ELSE b

\* Time passes by one unit: Instant::elapsed() as the breaker can tell it.
Aged(b, c) ==
    IF b.last_failure = None \/ b.last_failure >= c.timeout_secs THEN b
    ELSE [b EXCEPT !.last_failure = @ + 1]

=============================================================================
