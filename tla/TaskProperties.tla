--------------------------- MODULE TaskProperties ---------------------------
(***************************************************************************)
(* What holds of the task manager, and how far its three copies of a task  *)
(* agree.                                                                  *)
(***************************************************************************)
EXTENDS TaskManager

Saving(id) == \E c \in Calls : call[c].id = id /\ call[c].phase = "saving"

\* The row of a task is the task, once its saves are over: it only stays behind
\* when a save failed or lost its caller, or when the task was changed while
\* submit was still saving it.
StoreKeepsUp ==
    \A id \in Ids :
        Persistent /\ tasks[id] # None /\ id \notin laggards /\ ~Saving(id)
            => store[id] = tasks[id]

\* What is queued for execution is known to the map and, when there is a
\* store, was saved first.
QueueIsKnown ==
    \A id \in Ids :
        queue[id] # None => tasks[id] # None /\ (Persistent => store[id] # None)

\* An Ok from submit means all three: in the map, saved, queued.
AcknowledgedMeansAll ==
    \A c \in Calls :
        call[c].op = "submit" /\ call[c].phase = "ok"
            => LET id == call[c].id IN
               /\ tasks[id] # None
               /\ queue[id] # None
               /\ Persistent => store[id] # None

\* A task that is over, cancelled above all, stays over for as long as the
\* process lives, whatever calls were already on their way.
OverIsOver ==
    [][\A id \in Ids :
        tasks[id] # None /\ IsTerminal(tasks[id].state) /\ tasks'[id] # None
            => tasks'[id].state = tasks[id].state]_vars

\* No call waits for ever for a shard that another keeps locked across its
\* save.  This needs more workers than calls that can wait at a time: with one
\* worker, a call that waits for the holder keeps the holder from going on.
EveryCallReturns ==
    \A c \in Calls :
        call[c].phase = "entering" ~> call[c].phase \in {"ok", "error", "gone"}

=============================================================================
