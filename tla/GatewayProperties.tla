-------------------------- MODULE GatewayProperties -------------------------
(***************************************************************************)
(* What the gateway's audit file can be trusted for.                       *)
(***************************************************************************)
EXTENDS Gateway

Positions(c) == {i \in DOMAIN log : log[i].whole /\ log[i].line.of = c}

Recordings(c) == {log[i].line.outcome : i \in Positions(c)}

\* What a call was told and what the file says of it agree, however emits of
\* other calls, failed writes and dropped emits fall in between: Ok means done
\* and recorded, an audit error that there is no line, and no call has two.
AnswersMatchLog ==
    \A c \in Calls :
        /\ Cardinality(Positions(c)) <= 1
        /\ call[c].answer = "ok" => c \in effects /\ Recordings(c) = {"ok"}
        /\ call[c].answer = "audit_error" => Recordings(c) = {}
        /\ call[c].answer = "error" => Recordings(c) \subseteq {"rejected", "failed"}

\* GitHub was never asked for a call that was refused, by the limiter or by a
\* validator, whatever became of the line that says so.
RefusedTouchesNothing ==
    \A c \in Calls :
        call[c].outcome \in {"rejected", "rate_limited"} => c \notin effects

\* What GitHub did is on record, as ok or as failed, or the client was told
\* that the record is missing, or the call is not over, or the process ended
\* in the middle of it.
NothingOnTheQuiet ==
    \A c \in effects :
        call[c].phase = "answered" =>
            \/ Recordings(c) \in {{"ok"}, {"failed"}}
            \/ call[c].answer = "audit_error"

\* A line that was begun and not ended, and garbles the line after it, did not
\* go unnoticed: its writer was told, or has lost its client or its process.
TornIsNoticed ==
    \A i \in DOMAIN log :
        LET c == log[i].line.of IN
        ~log[i].whole /\ c # Boot =>
            call[c].phase = "flushing" \/ call[c].phase = "gone"
            \/ call[c].answer \in {"audit_error", "limited"}

\* Every line follows the gateway_started of the process that wrote it.
BootFirst ==
    \A i \in DOMAIN log :
        log[i].line.of # Boot =>
            \E j \in 1 .. i - 1 :
                log[j].whole /\ log[j].line.of = Boot
                /\ log[j].line.run = log[i].line.run

\* Nobody waits for ever for the file, refused clients that vanish included.
EmitsEnd ==
    \A c \in Calls :
        call[c].phase \in {"emitting", "writing", "flushing"}
            ~> call[c].phase \in {"answered", "gone"}

\* The tests say of the audit file that it gets one valid line per call
\* (T4 of tests/mission_compliance.rs), and the deployment guide that it
\* records tool outcomes and failures: every call that was answered, and not
\* with an error of the file itself, has its line.
OneLinePerCall ==
    \A c \in Calls :
        call[c].answer \in {"ok", "error"} => Cardinality(Positions(c)) = 1

=============================================================================
