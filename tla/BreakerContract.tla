--------------------------- MODULE BreakerContract --------------------------
(***************************************************************************)
(* What the circuit breakers promise, stated over what was reported and    *)
(* how long ago the gate opened, with none of the counters the code keeps: *)
(*   - a closed gate opens when the last failure_threshold reports since   *)
(*     it closed were all failures, and never otherwise;                   *)
(*   - an open gate ignores reports and lets nobody through until          *)
(*     timeout_secs have passed since it opened; the next caller then      *)
(*     makes it half-open;                                                 *)
(*   - a half-open gate opens on a failure and closes when                 *)
(*     success_threshold reports in a row were successes.                  *)
(* A threshold of 0 acts as 1.  BreakerHistory shows that ProviderManager  *)
(* implements this.                                                        *)
(***************************************************************************)
EXTENDS Naturals, Sequences

CONSTANTS Registered, Config

VARIABLES
    gate,     \* gate[p]: "Closed", "Open" or "HalfOpen"
    window,   \* window[p]: the last reports since the gate last changed
    wait      \* wait[p]: how long the gate has been open, up to timeout_secs

vars == <<gate, window, wait>>

AtLeastOne(n) == IF n = 0 THEN 1 ELSE n

Outcomes == {"success", "failure"}

\* No decision looks further back than the larger threshold.
Width(p) ==
    IF Config[p].failure_threshold > Config[p].success_threshold
    THEN AtLeastOne(Config[p].failure_threshold)
    ELSE AtLeastOne(Config[p].success_threshold)

Recent(p, w, outcome) ==
    IF Len(w) < Width(p) THEN Append(w, outcome)
                         ELSE Append(Tail(w), outcome)

Streak(w, outcome, n) ==
    /\ Len(w) >= AtLeastOne(n)
    /\ \A i \in (Len(w) - AtLeastOne(n) + 1) .. Len(w) : w[i] = outcome

-----------------------------------------------------------------------------

Init ==
    /\ gate = [p \in Registered |-> "Closed"]
    /\ window = [p \in Registered |-> <<>>]
    /\ wait = [p \in Registered |-> 0]

Turn(p, to) ==
    /\ gate' = [gate EXCEPT ![p] = to]
    /\ window' = [window EXCEPT ![p] = <<>>]
    /\ wait' = [wait EXCEPT ![p] = 0]

Stay(p, w) ==
    /\ window' = [window EXCEPT ![p] = w]
    /\ UNCHANGED <<gate, wait>>

HearWhileClosed(p, outcome) ==
    LET w == Recent(p, window[p], outcome) IN
    /\ gate[p] = "Closed"
    /\ IF Streak(w, "failure", Config[p].failure_threshold)
       THEN Turn(p, "Open") ELSE Stay(p, w)

HearWhileHalfOpen(p, outcome) ==
    LET w == Recent(p, window[p], outcome) IN
    /\ gate[p] = "HalfOpen"
    /\ \/ outcome = "failure" /\ Turn(p, "Open")
       \/ /\ outcome = "success"
          /\ IF Streak(w, "success", Config[p].success_threshold)
             THEN Turn(p, "Closed") ELSE Stay(p, w)

Probe(p) ==
    /\ gate[p] = "Open"
    /\ wait[p] = Config[p].timeout_secs
    /\ Turn(p, "HalfOpen")

Pass ==
    /\ wait' = [p \in Registered |->
                    IF gate[p] = "Open" /\ wait[p] < Config[p].timeout_secs
                    THEN wait[p] + 1 ELSE wait[p]]
    /\ UNCHANGED <<gate, window>>

Next ==
    \/ \E p \in Registered, outcome \in Outcomes : HearWhileClosed(p, outcome)
    \/ \E p \in Registered, outcome \in Outcomes : HearWhileHalfOpen(p, outcome)
    \/ \E p \in Registered : Probe(p)
    \/ Pass

Spec == Init /\ [][Next]_vars

=============================================================================
