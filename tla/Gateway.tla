------------------------------- MODULE Gateway ------------------------------
(***************************************************************************)
(* The MCP gateway: three tools that act on GitHub and record what they    *)
(* did, behind a rate limiter, across restarts of the process.             *)
(*                                                                         *)
(* The three handlers have one shape: validate, act, emit an audit line,   *)
(* answer; `?` after the emit replaces the answer by the audit error.      *)
(* rmcp runs every tool call as a task of its own, so a call ends when it  *)
(* is done or when the process ends, whether its client is there or not.   *)
(* The rate limiter runs in the connection's future and can be dropped.    *)
(***************************************************************************)
EXTENDS JsonlSink

CONSTANTS
    Calls,     \* HTTP requests that call a tool
    Boot,      \* who writes gateway_started
    Quota,     \* rate_limit_per_minute, also the burst
    MaxRuns    \* bound: how often the process is started

Tools == {"push_branch", "create_pr", "comment_pr"}

Outcomes == {"ok", "rejected", "failed", "rate_limited"}

ASSUME GatewayAssumption ==
    /\ IsFiniteSet(Calls) /\ Boot \notin Calls /\ None \notin Calls \union {Boot}
    /\ Quota \in Nat \ {0}
    /\ MaxRuns \in Nat
    /\ Line = [of : Calls \union {Boot}, outcome : Outcomes, run : 1 .. MaxRuns]

VARIABLES
    up,       \* the process is serving
    run,      \* how often it has been started
    cells,    \* requests the rate limiter would let through now
    call,     \* call[c]: tool, phase, outcome and answer
    effects   \* history: the calls GitHub has acted for

vars == <<log, holder, underway, failed, up, run, cells, call, effects>>

Phases ==
    {"idle",
     "acting",     \* at git or GitHub
     "emitting",   \* waiting for the mutex
     "writing",    \* in write_all
     "flushing",   \* in flush
     "answered",
     "orphan",     \* the process ended while GitHub was asked
     "gone"}       \* ended without an answer

Answers == {"none", "ok", "error", "audit_error", "limited"}

TypeOK ==
    /\ SinkTypeOK
    /\ holder \in Calls \union {None}
    /\ up \in BOOLEAN
    /\ run \in 0 .. MaxRuns
    /\ cells \in 0 .. Quota
    /\ call \in [Calls -> [tool : Tools \union {"none"}, phase : Phases,
                           outcome : Outcomes \union {"none"}, answer : Answers]]
    /\ effects \subseteq Calls

Init ==
    /\ SinkInit
    /\ up = FALSE
    /\ run = 0
    /\ cells = Quota
    /\ call = [c \in Calls |-> [tool |-> "none", phase |-> "idle",
                               outcome |-> "none", answer |-> "none"]]
    /\ effects = {}

-----------------------------------------------------------------------------

process == <<up, run, cells>>

To(c, phase) == call' = [call EXCEPT ![c].phase = phase]

Emit(c, outcome) ==
    call' = [call EXCEPT ![c].phase = "emitting", ![c].outcome = outcome]

Reply(c, answer) ==
    call' = [call EXCEPT ![c].phase = "answered", ![c].answer = answer]

Started == [of |-> Boot, outcome |-> "ok", run |-> run + 1]

\* Mutant: a process that cannot record its start serves all the same.
StartRegardless ==
    /\ ~up /\ run < MaxRuns
    /\ run' = run + 1
    /\ cells' = Quota
    /\ up' = TRUE
    /\ log' \in {log, Written(Started, FALSE), Written(Started, TRUE)}
    /\ UNCHANGED <<holder, underway, failed, call, effects>>

\* main opens the file, records the start, and serves if that went well.
Start ==
    /\ ~up /\ run < MaxRuns
    /\ run' = run + 1
    /\ cells' = Quota
    /\ \/ up' = TRUE /\ log' = Written(Started, TRUE)
       \/ up' = FALSE /\ log' \in {log, Written(Started, FALSE)}
    /\ UNCHANGED <<holder, underway, failed, call, effects>>

\* The process ends: every task with it, but not what git or GitHub were
\* already told to do.
Stop ==
    /\ up
    /\ up' = FALSE
    /\ Close
    /\ call' = [c \in Calls |->
            CASE call[c].phase = "acting" -> [call[c] EXCEPT !.phase = "orphan"]
              [] call[c].phase \in {"emitting", "writing", "flushing"} ->
                    [call[c] EXCEPT !.phase = "gone"]
              [] OTHER -> call[c]]
    /\ UNCHANGED <<run, cells, effects>>

\* One agent_id, one key: all clients share the quota.
Refill ==
    /\ up /\ cells < Quota
    /\ cells' = cells + 1
    /\ UNCHANGED <<log, holder, underway, failed, up, run, call, effects>>

\* Mutant: a rejection is noted, but the handler goes on.
ArriveGoesOn(c, tool, valid) ==
    /\ up /\ call[c].phase = "idle"
    /\ cells > 0
    /\ cells' = cells - 1
    /\ call' = [call EXCEPT ![c] =
                    [@ EXCEPT !.tool = tool, !.phase = "acting",
                              !.outcome = IF valid THEN "none" ELSE "rejected"]]
    /\ UNCHANGED <<log, holder, underway, failed, up, run, effects>>

\* A request passes the limiter and its tool validates the arguments.
Arrive(c, tool, valid) ==
    /\ up /\ call[c].phase = "idle"
    /\ cells > 0
    /\ cells' = cells - 1
    /\ call' = [call EXCEPT ![c] =
            IF valid
            THEN [@ EXCEPT !.tool = tool, !.phase = "acting"]
            ELSE [@ EXCEPT !.tool = tool, !.phase = "emitting", !.outcome = "rejected"]]
    /\ UNCHANGED <<log, holder, underway, failed, up, run, effects>>

\* Another request of MCP, initialize or tools/list, takes a cell as well.
OtherRequest ==
    /\ up /\ cells > 0
    /\ cells' = cells - 1
    /\ UNCHANGED <<log, holder, underway, failed, up, run, call, effects>>

\* The quota is used up: the refusal is recorded, then answered with 429.
Limit(c) ==
    /\ up /\ call[c].phase = "idle"
    /\ cells = 0
    /\ Emit(c, "rate_limited")
    /\ UNCHANGED <<log, holder, underway, failed, up, run, cells, effects>>

\* GitHub acts: while it is asked, or later if the caller gave up on it.
Perform(c) ==
    /\ c \notin effects
    /\ call[c].phase \in {"acting", "orphan"} \/ call[c].outcome = "failed"
    /\ effects' = effects \union {c}
    /\ UNCHANGED <<log, holder, underway, failed, up, run, cells, call>>

\* The HTTP client cannot be built; push_branch has none.
ClientFails(c) ==
    /\ call[c].phase = "acting"
    /\ call[c].tool \in {"create_pr", "comment_pr"}
    /\ c \notin effects
    /\ Reply(c, "error")
    /\ UNCHANGED <<log, holder, underway, failed, up, run, cells, effects>>

\* Mutant: an error of GitHub is returned without a line.
LearnQuietly(c, outcome) ==
    /\ call[c].phase = "acting"
    /\ outcome = "ok" => c \in effects
    /\ IF outcome = "ok" THEN Emit(c, outcome) ELSE Reply(c, "error")
    /\ UNCHANGED <<log, holder, underway, failed, up, run, cells, effects>>

\* The result is there.  An error says little about what GitHub has done.
Learn(c, outcome) ==
    /\ call[c].phase = "acting"
    /\ outcome = "ok" => c \in effects
    /\ Emit(c, outcome)
    /\ UNCHANGED <<log, holder, underway, failed, up, run, cells, effects>>

-----------------------------------------------------------------------------
(* emit *)

TakeLock(c) ==
    /\ call[c].phase = "emitting"
    /\ Lock(c)
    /\ To(c, "writing")
    /\ UNCHANGED <<process, effects>>

LineOf(c) == [of |-> c, outcome |-> call[c].outcome, run |-> run]

Write(c) ==
    /\ call[c].phase = "writing"
    /\ HandOver(c, LineOf(c))
    /\ To(c, "flushing")
    /\ UNCHANGED <<process, effects>>

\* What a handler answers when its line is written.
AnswerOf(c) ==
    CASE call[c].outcome = "ok" -> "ok"
      [] call[c].outcome = "rate_limited" -> "limited"
      [] OTHER -> "error"

\* Mutant: emit returns without flushing.
RecordedUnflushed(c) ==
    /\ call[c].phase = "flushing"
    /\ holder' = None
    /\ Reply(c, AnswerOf(c))
    /\ UNCHANGED <<log, underway, failed, process, effects>>

Recorded(c) ==
    /\ call[c].phase = "flushing"
    /\ Flush(c)
    /\ Reply(c, AnswerOf(c))
    /\ UNCHANGED <<process, effects>>

\* Mutant: the handler answers whether it could record the outcome or not.
UnrecordedIgnored(c) ==
    /\ call[c].phase \in {"writing", "flushing"}
    /\ Fault(c)
    /\ Reply(c, AnswerOf(c))
    /\ UNCHANGED <<process, effects>>

\* The limiter only logs the error; for a tool it is the answer.
Unrecorded(c) ==
    /\ call[c].phase \in {"writing", "flushing"}
    /\ Fault(c)
    /\ Reply(c, IF call[c].outcome = "rate_limited" THEN "limited" ELSE "audit_error")
    /\ UNCHANGED <<process, effects>>

\* Mutant: the mutex is not released when a request is dropped.
DropKeepsLock(c) ==
    /\ call[c].outcome = "rate_limited"
    /\ call[c].phase \in {"emitting", "writing", "flushing"}
    /\ To(c, "gone")
    /\ UNCHANGED <<log, holder, underway, failed, process, effects>>

\* A client that is being refused disconnects.
Drop(c) ==
    /\ call[c].outcome = "rate_limited"
    /\ call[c].phase \in {"emitting", "writing", "flushing"}
    /\ To(c, "gone")
    /\ holder' = Unlocked(c)
    /\ UNCHANGED <<log, underway, failed, process, effects>>

DiskStep == Disk /\ UNCHANGED <<process, call, effects>>

EmitStep(c) == TakeLock(c) \/ Write(c) \/ Recorded(c) \/ Unrecorded(c)

Next ==
    \/ Start \/ Stop \/ Refill \/ OtherRequest \/ DiskStep
    \/ \E c \in Calls :
        \/ \E tool \in Tools, valid \in BOOLEAN : Arrive(c, tool, valid)
        \/ Limit(c) \/ Perform(c) \/ ClientFails(c)
        \/ \E outcome \in {"ok", "failed"} : Learn(c, outcome)
        \/ EmitStep(c) \/ Drop(c)

\* A task that can go on does, and the disk ends every write.
Fairness == WF_vars(DiskStep) /\ \A c \in Calls : WF_vars(EmitStep(c))

Spec == Init /\ [][Next]_vars /\ Fairness

=============================================================================
