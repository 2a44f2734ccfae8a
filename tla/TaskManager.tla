----------------------------- MODULE TaskManager ----------------------------
(***************************************************************************)
(* The task manager: a concurrent map of tasks, the queue of their clones  *)
(* and the SQLite store, under concurrent calls of submit, cancel,         *)
(* update_progress and get.                                                *)
(*                                                                         *)
(* The map is a DashMap: its entries are spread over shards, each behind a *)
(* lock that blocks the thread, not the task.  cancel and update_progress  *)
(* hold such a lock (RefMut) while they await the store, submit does not.  *)
(* A call that waits for a shard therefore occupies one of the runtime's   *)
(* worker threads, and a call whose save is over needs one to go on.       *)
(*                                                                         *)
(* The manager only ever adds to the queue and never looks into it, so its *)
(* order is left out.                                                      *)
(***************************************************************************)
EXTENDS Integers, FiniteSets

CONSTANTS
    Ids,         \* task ids; Task::new makes a fresh one for each task
    Calls,       \* calls of the manager; each is made at most once
    Shard,       \* Shard[id]: the shard of the map that holds id
    Workers,     \* worker threads of the runtime
    Persistent,  \* TaskManager::with_persistence, or new
    Submitted,   \* states a submitted task may be in
    Full,        \* progress 1.0, in units of the smallest step made
    Asked,       \* what update_progress is asked to set
    None

States == {"Pending", "Running", "Completed", "Failed", "Cancelled"}

IsTerminal(s) == s \in {"Completed", "Failed", "Cancelled"}

Task == [state : States, progress : 0 .. Full]

ASSUME TaskAssumption ==
    /\ IsFiniteSet(Calls) /\ Ids # {}
    /\ Shard \in [Ids -> Ids]
    /\ Workers \in Nat \ {0}
    /\ Persistent \in BOOLEAN
    /\ Submitted \subseteq States
    /\ Full \in Nat /\ Asked \subseteq Int
    /\ None \notin Task

VARIABLES
    tasks,     \* the map: tasks[id], or None
    queue,     \* queue[id]: the clone of id that was enqueued, or None
    store,     \* store[id]: the row of id, or None
    call,      \* call[c]: operation, id, phase, and the task it saves
    laggards   \* history: ids whose row may be older than the map's entry

vars == <<tasks, queue, store, call, laggards>>

Ops == {"submit", "cancel", "update_progress", "get"}

Phases ==
    {"idle",      \* not called
     "entering",  \* on a worker, about to take the lock of its shard
     "saving",    \* awaiting the store
     "saved",     \* the row is committed, the call has not gone on yet
     "failed",    \* the save has failed, the call has not gone on yet
     "orphan",    \* the caller is gone, its statement may still commit
     "ok", "error", "gone"}

Call ==
    [op : Ops, id : Ids, task : [state : States, progress : Int], phase : Phases]

TypeOK ==
    /\ tasks \in [Ids -> Task \union {None}]
    /\ queue \in [Ids -> Task \union {None}]
    /\ store \in [Ids -> Task \union {None}]
    /\ call \in [Calls -> Call]
    /\ laggards \subseteq Ids

New == [state |-> "Pending", progress |-> 0]

Init ==
    /\ tasks = [id \in Ids |-> None]
    /\ queue = [id \in Ids |-> None]
    /\ store = [id \in Ids |-> None]
    /\ call = [c \in Calls |-> [op |-> "get", id |-> CHOOSE id \in Ids : TRUE,
                               task |-> New, phase |-> "idle"]]
    /\ laggards = {}

-----------------------------------------------------------------------------

Awaiting == {"saving", "saved", "failed"}

\* The calls that keep a RefMut across their await.
Holding == {c \in Calls :
    call[c].op \in {"cancel", "update_progress"} /\ call[c].phase \in Awaiting}

Locked(id) == \E c \in Holding : Shard[call[c].id] = Shard[id]

FreeWorker == Cardinality({c \in Calls : call[c].phase = "entering"}) < Workers

\* submit is saving id, without its lock.
SubmitSaving(id) ==
    \E c \in Calls :
        call[c].op = "submit" /\ call[c].id = id /\ call[c].phase = "saving"

To(c, phase) == call' = [call EXCEPT ![c].phase = phase]

Save(c, task) ==
    call' = [call EXCEPT ![c] =
                [op |-> @.op, id |-> @.id, task |-> task, phase |-> "saving"]]

\* A call is polled for the first time.
Start(c, op, id, task) ==
    /\ call[c].phase = "idle"
    /\ FreeWorker
    /\ op = "submit" =>
        \A d \in Calls : call[d].op = "submit" => call[d].id # id
    /\ call' = [call EXCEPT ![c] =
                    [op |-> op, id |-> id, task |-> task, phase |-> "entering"]]
    /\ UNCHANGED <<tasks, queue, store, laggards>>

Enter(c, op) ==
    /\ call[c].phase = "entering"
    /\ call[c].op = op
    /\ ~Locked(call[c].id)

\* Mutant: the task is queued before it is saved.
EnterSubmitQueuesFirst(c) ==
    LET id == call[c].id
        task == call[c].task IN
    /\ Enter(c, "submit")
    /\ tasks' = [tasks EXCEPT ![id] = task]
    /\ queue' = [queue EXCEPT ![id] = task]
    /\ IF Persistent THEN Save(c, task) ELSE To(c, "ok")
    /\ UNCHANGED <<store, laggards>>

\* submit inserts the task, then saves the clone it was given.
EnterSubmit(c) ==
    LET id == call[c].id
        task == call[c].task IN
    /\ Enter(c, "submit")
    /\ tasks' = [tasks EXCEPT ![id] = task]
    /\ IF Persistent
       THEN Save(c, task) /\ UNCHANGED queue
       ELSE To(c, "ok") /\ queue' = [queue EXCEPT ![id] = task]
    /\ UNCHANGED <<store, laggards>>

\* What cancel and update_progress do once they have changed the entry.
Changed(c, task) ==
    LET id == call[c].id IN
    /\ tasks' = [tasks EXCEPT ![id] = task]
    /\ IF Persistent THEN Save(c, task) ELSE To(c, "ok")
    /\ laggards' = IF SubmitSaving(id) THEN laggards \union {id} ELSE laggards
    /\ UNCHANGED <<queue, store>>

\* Mutant: the row is made of the task before it is cancelled.
EnterCancelSavesOld(c) ==
    LET id == call[c].id IN
    /\ Enter(c, "cancel")
    /\ tasks[id] # None
    /\ ~IsTerminal(tasks[id].state)
    /\ tasks' = [tasks EXCEPT ![id].state = "Cancelled"]
    /\ IF Persistent THEN Save(c, tasks[id]) ELSE To(c, "ok")
    /\ laggards' = IF SubmitSaving(id) THEN laggards \union {id} ELSE laggards
    /\ UNCHANGED <<queue, store>>

EnterCancel(c) ==
    LET id == call[c].id IN
    /\ Enter(c, "cancel")
    /\ tasks[id] # None
    /\ ~IsTerminal(tasks[id].state)
    /\ Changed(c, [tasks[id] EXCEPT !.state = "Cancelled"])

\* Mutant: the progress is capped, but not from below.
ClampedAboveOnly(p) == IF p > Full THEN Full ELSE p

Clamped(p) == IF p < 0 THEN 0 ELSE IF p > Full THEN Full ELSE p

\* Mutant: reporting progress marks the task as running.
EnterUpdateRuns(c) ==
    LET id == call[c].id IN
    /\ Enter(c, "update_progress")
    /\ tasks[id] # None
    /\ Changed(c, [state |-> "Running", progress |-> Clamped(call[c].task.progress)])

\* The progress of a task changes whatever its state.
EnterUpdate(c) ==
    LET id == call[c].id IN
    /\ Enter(c, "update_progress")
    /\ tasks[id] # None
    /\ Changed(c, [tasks[id] EXCEPT !.progress = Clamped(call[c].task.progress)])

\* get, or a list that comes by; and the calls that find nothing to change.
EnterIdly(c) ==
    LET id == call[c].id IN
    /\ \/ Enter(c, "get")
       \/ Enter(c, "update_progress") /\ tasks[id] = None
       \/ Enter(c, "cancel") /\ (tasks[id] # None => IsTerminal(tasks[id].state))
    /\ To(c, "ok")
    /\ UNCHANGED <<tasks, queue, store, laggards>>

\* SQLite executes the upsert, for a caller that may be gone.
Commit(c) ==
    /\ call[c].phase \in {"saving", "orphan"}
    /\ store' = [store EXCEPT ![call[c].id] = call[c].task]
    /\ To(c, IF call[c].phase = "saving" THEN "saved" ELSE "gone")
    /\ UNCHANGED <<tasks, queue, laggards>>

SaveFails(c) ==
    /\ call[c].phase \in {"saving", "orphan"}
    /\ To(c, IF call[c].phase = "saving" THEN "failed" ELSE "gone")
    /\ laggards' = laggards \union {call[c].id}
    /\ UNCHANGED <<tasks, queue, store>>

\* Mutant: a save that failed is logged and the call goes on.
ResumeRegardless(c) ==
    /\ call[c].phase \in {"saved", "failed"}
    /\ FreeWorker
    /\ To(c, "ok")
    /\ queue' = IF call[c].op = "submit"
                THEN [queue EXCEPT ![call[c].id] = call[c].task] ELSE queue
    /\ UNCHANGED <<tasks, store, laggards>>

\* Mutant: the call looks the task up again while it holds the entry.
ResumeReentrant(c) ==
    /\ call[c].phase \in {"saved", "failed"}
    /\ FreeWorker
    /\ ~Locked(call[c].id)
    /\ To(c, IF call[c].phase = "saved" THEN "ok" ELSE "error")
    /\ queue' = IF call[c].op = "submit" /\ call[c].phase = "saved"
                THEN [queue EXCEPT ![call[c].id] = call[c].task] ELSE queue
    /\ UNCHANGED <<tasks, store, laggards>>

\* The `?` after the save, then, in submit, the queue.
Resume(c) ==
    /\ call[c].phase \in {"saved", "failed"}
    /\ FreeWorker
    /\ To(c, IF call[c].phase = "saved" THEN "ok" ELSE "error")
    /\ queue' = IF call[c].op = "submit" /\ call[c].phase = "saved"
                THEN [queue EXCEPT ![call[c].id] = call[c].task] ELSE queue
    /\ UNCHANGED <<tasks, store, laggards>>

\* The caller's future is dropped at its await.
Drop(c) ==
    /\ call[c].phase \in Awaiting
    /\ IF call[c].phase = "saving"
       THEN To(c, "orphan") /\ laggards' = laggards \union {call[c].id}
       ELSE To(c, "gone") /\ UNCHANGED laggards
    /\ UNCHANGED <<tasks, queue, store>>

\* The process ends; with_persistence opens the store and loads nothing.
Restart ==
    /\ tasks' = [id \in Ids |-> None]
    /\ queue' = [id \in Ids |-> None]
    /\ call' = [c \in Calls |->
                    IF call[c].phase = "idle" THEN call[c]
                    ELSE [call[c] EXCEPT !.phase = "gone"]]
    /\ UNCHANGED <<store, laggards>>

Proceed(c) ==
    \/ EnterSubmit(c) \/ EnterCancel(c) \/ EnterUpdate(c) \/ EnterIdly(c)
    \/ Commit(c) \/ SaveFails(c) \/ Resume(c)

Next ==
    \/ \E c \in Calls, id \in Ids, s \in Submitted :
        Start(c, "submit", id, [state |-> s, progress |-> 0])
    \/ \E c \in Calls, id \in Ids : Start(c, "cancel", id, New)
    \/ \E c \in Calls, id \in Ids, p \in Asked :
        Start(c, "update_progress", id, [state |-> "Pending", progress |-> p])
    \/ \E c \in Calls, id \in Ids : Start(c, "get", id, New)
    \/ \E c \in Calls : Proceed(c)
    \/ \E c \in Calls : Drop(c)
    \/ Restart

\* A call that can go on does, and SQLite finishes every statement.
Fairness == \A c \in Calls : WF_vars(Proceed(c))

Spec == Init /\ [][Next]_vars /\ Fairness

=============================================================================
