----------------------------- MODULE TaskProofs -----------------------------
(***************************************************************************)
(* Proofs about the task manager, for every set of tasks and calls, every  *)
(* sharding, any number of workers, with a store or without.               *)
(***************************************************************************)
EXTENDS TaskProperties, TLAPS

\* Where the tasks of the map come from: each from the one submit of its id.
IdsAreFresh ==
    /\ \A c \in Calls : call[c].op = "submit" => call[c].task \in Task
    /\ \A c \in Calls : call[c].phase = "idle" => call[c].op = "get"
    /\ \A c, d \in Calls :
        call[c].op = "submit" /\ call[d].op = "submit" /\ call[c].id = call[d].id
            => c = d
    /\ \A c \in Calls :
        call[c].op = "submit" /\ call[c].phase = "entering"
            => tasks[call[c].id] = None
    /\ \A id \in Ids :
        tasks[id] # None => \E c \in Calls : call[c].op = "submit" /\ call[c].id = id

\* A save under way writes what the map holds, unless its id is known to lag.
SavesAreCurrent ==
    \A c \in Calls :
        /\ call[c].phase \in {"saving", "saved"} =>
            /\ Persistent
            /\ call[c].op \in {"submit", "cancel", "update_progress"}
            /\ tasks[call[c].id] # None
            /\ call[c].task \in Task
        /\ call[c].phase = "saving" /\ call[c].id \notin laggards
            => call[c].task = tasks[call[c].id]
        /\ call[c].phase = "saved" => store[call[c].id] # None
        /\ call[c].phase = "orphan" =>
            call[c].id \in laggards /\ call[c].task \in Task

IInv ==
    /\ TypeOK
    /\ IdsAreFresh
    /\ SavesAreCurrent
    /\ StoreKeepsUp
    /\ QueueIsKnown
    /\ AcknowledgedMeansAll

-----------------------------------------------------------------------------

\* The manager starts with nothing known and nothing under way.
LEMMA InitIInv == Init => IInv
<1>1. (CHOOSE id \in Ids : TRUE) \in Ids
  BY TaskAssumption
<1>2. New \in Task
  BY TaskAssumption DEF New, Task, States
<1>3. [op |-> "get", id |-> CHOOSE id \in Ids : TRUE, task |-> New, phase |-> "idle"]
        \in Call
  BY <1>1, TaskAssumption DEF Call, Ops, Phases, New, States
<1>4. Init => TypeOK
  BY <1>3 DEF Init, TypeOK
<1>5. Init => IdsAreFresh
  BY DEF Init, IdsAreFresh
<1>6. Init => SavesAreCurrent
  BY DEF Init, SavesAreCurrent
<1>7. Init => StoreKeepsUp /\ QueueIsKnown /\ AcknowledgedMeansAll
  BY DEF Init, StoreKeepsUp, QueueIsKnown, AcknowledgedMeansAll
<1> QED
  BY <1>4, <1>5, <1>6, <1>7 DEF IInv

\* A call changes its own phase, and its task when it starts to save.
LEMMA ToPhase ==
    ASSUME TypeOK, NEW c \in Calls, NEW phase \in Phases, To(c, phase)
    PROVE  /\ call' \in [Calls -> Call]
           /\ call'[c] = [op |-> call[c].op, id |-> call[c].id,
                          task |-> call[c].task, phase |-> phase]
           /\ \A d \in Calls : d # c => call'[d] = call[d]
  BY DEF TypeOK, Call, To

LEMMA SavePhase ==
    ASSUME TypeOK, NEW c \in Calls, NEW task \in Task, Save(c, task)
    PROVE  /\ call' \in [Calls -> Call]
           /\ call'[c] = [op |-> call[c].op, id |-> call[c].id,
                          task |-> task, phase |-> "saving"]
           /\ \A d \in Calls : d # c => call'[d] = call[d]
<1>1. task \in [state : States, progress : Int]
  BY TaskAssumption DEF Task
<1>2. call' = [call EXCEPT ![c] = [op |-> call[c].op, id |-> call[c].id,
                                   task |-> task, phase |-> "saving"]]
  BY DEF TypeOK, Call, Save
<1>3. [op |-> call[c].op, id |-> call[c].id, task |-> task, phase |-> "saving"] \in Call
  BY <1>1 DEF TypeOK, Call, Phases
<1> QED
  BY <1>2, <1>3 DEF TypeOK

\* The store executes a statement.
LEMMA CommitIInv ==
    ASSUME IInv, NEW c \in Calls, Commit(c)
    PROVE  IInv'
<1>1. TypeOK /\ IdsAreFresh /\ SavesAreCurrent /\ StoreKeepsUp /\ QueueIsKnown
        /\ AcknowledgedMeansAll
  BY DEF IInv
<1>2. PICK p \in {"saved", "gone"} :
        /\ p = (IF call[c].phase = "saving" THEN "saved" ELSE "gone")
        /\ call' \in [Calls -> Call]
        /\ call'[c] = [op |-> call[c].op, id |-> call[c].id,
                       task |-> call[c].task, phase |-> p]
        /\ \A d \in Calls : d # c => call'[d] = call[d]
  BY <1>1, ToPhase DEF Commit, Phases
<1>3. /\ call[c].id \in Ids
      /\ call[c].task \in Task /\ call[c].task # None
  BY <1>1, TaskAssumption DEF TypeOK, Call, Commit, SavesAreCurrent
<1>4. /\ tasks' = tasks /\ queue' = queue /\ laggards' = laggards
      /\ call[c].phase = "saving" \/ (call[c].phase = "orphan" /\ p = "gone")
  BY <1>2 DEF Commit
<1>5. store' = [store EXCEPT ![call[c].id] = call[c].task]
  BY DEF Commit
<1>6. /\ \A id \in Ids : store[id] # None => store'[id] # None
      /\ \A id \in Ids : id # call[c].id => store'[id] = store[id]
      /\ store'[call[c].id] = call[c].task
  BY <1>1, <1>3, <1>5 DEF TypeOK
<1>11. TypeOK'
  BY <1>1, <1>2, <1>3, <1>4, <1>5 DEF TypeOK
<1>12. IdsAreFresh'
  BY <1>1, <1>2, <1>4 DEF IdsAreFresh
<1>13. SavesAreCurrent'
  <2>1. \A d \in Calls : d # c => call'[d] = call[d] /\ call[d].id \in Ids
    BY <1>1, <1>2 DEF TypeOK, Call
  <2> QED
    BY <1>1, <1>2, <1>3, <1>4, <1>6, <2>1 DEF SavesAreCurrent
<1>14. StoreKeepsUp'
  BY <1>1, <1>2, <1>3, <1>4, <1>6 DEF StoreKeepsUp, Saving, SavesAreCurrent
<1>15. QueueIsKnown'
  BY <1>1, <1>4, <1>6 DEF QueueIsKnown
<1>16. AcknowledgedMeansAll'
  BY <1>1, <1>2, <1>3, <1>4, <1>6 DEF AcknowledgedMeansAll, TypeOK, Call
<1> QED
  BY <1>11, <1>12, <1>13, <1>14, <1>15, <1>16 DEF IInv

\* A statement fails.
LEMMA SaveFailsIInv ==
    ASSUME IInv, NEW c \in Calls, SaveFails(c)
    PROVE  IInv'
<1>1. TypeOK /\ IdsAreFresh /\ SavesAreCurrent /\ StoreKeepsUp /\ QueueIsKnown
        /\ AcknowledgedMeansAll
  BY DEF IInv
<1>2. PICK p \in {"failed", "gone"} :
        /\ p = (IF call[c].phase = "saving" THEN "failed" ELSE "gone")
        /\ call' \in [Calls -> Call]
        /\ call'[c] = [op |-> call[c].op, id |-> call[c].id,
                       task |-> call[c].task, phase |-> p]
        /\ \A d \in Calls : d # c => call'[d] = call[d]
  BY <1>1, ToPhase DEF SaveFails, Phases
<1>11. TypeOK'
  BY TaskAssumption, <1>1, <1>2 DEF TypeOK, Call, SaveFails
<1>12. IdsAreFresh'
  BY TaskAssumption, <1>1, <1>2 DEF IdsAreFresh, SaveFails
<1>13. SavesAreCurrent'
  BY TaskAssumption, <1>1, <1>2 DEF SavesAreCurrent, StoreKeepsUp, SaveFails
<1>14. StoreKeepsUp'
  BY TaskAssumption, <1>1, <1>2 DEF StoreKeepsUp, Saving, SavesAreCurrent, SaveFails
<1>15. QueueIsKnown'
  BY TaskAssumption, <1>1, <1>2 DEF QueueIsKnown, SavesAreCurrent, SaveFails
<1>16. AcknowledgedMeansAll'
  BY TaskAssumption, <1>1, <1>2 DEF AcknowledgedMeansAll, SavesAreCurrent, QueueIsKnown, SaveFails
<1> QED
  BY <1>11, <1>12, <1>13, <1>14, <1>15, <1>16 DEF IInv

\* A call goes on after its save.
LEMMA ResumeIInv ==
    ASSUME IInv, NEW c \in Calls, Resume(c)
    PROVE  IInv'
<1>1. TypeOK /\ IdsAreFresh /\ SavesAreCurrent /\ StoreKeepsUp /\ QueueIsKnown
        /\ AcknowledgedMeansAll
  BY DEF IInv
<1>2. PICK p \in {"ok", "error"} :
        /\ p = (IF call[c].phase = "saved" THEN "ok" ELSE "error")
        /\ call' \in [Calls -> Call]
        /\ call'[c] = [op |-> call[c].op, id |-> call[c].id,
                       task |-> call[c].task, phase |-> p]
        /\ \A d \in Calls : d # c => call'[d] = call[d]
  BY <1>1, ToPhase DEF Resume, Phases
<1>3. /\ call[c].id \in Ids
      /\ call[c].op = "submit" => call[c].task \in Task /\ call[c].task # None
      /\ p = "ok" => Persistent /\ tasks[call[c].id] # None /\ store[call[c].id] # None
  BY <1>1, <1>2, TaskAssumption DEF TypeOK, Call, Resume, IdsAreFresh, SavesAreCurrent
<1>4. /\ UNCHANGED <<tasks, store, laggards>>
      /\ queue' = IF call[c].op = "submit" /\ p = "ok"
                  THEN [queue EXCEPT ![call[c].id] = call[c].task] ELSE queue
  BY <1>2 DEF Resume
<1>5. queue' \in [Ids -> Task \union {None}]
  BY <1>1, <1>3, <1>4 DEF TypeOK
<1>6. \A id \in Ids : queue'[id] # None =>
        queue[id] # None \/ (id = call[c].id /\ call[c].op = "submit" /\ p = "ok")
  BY <1>1, <1>3, <1>4 DEF TypeOK
<1>7. \A id \in Ids : queue[id] # None => queue'[id] # None
  BY <1>1, <1>3, <1>4 DEF TypeOK
<1>8. call[c].op = "submit" /\ p = "ok" => queue'[call[c].id] # None
  BY <1>1, <1>3, <1>4 DEF TypeOK
<1>11. TypeOK'
  BY TaskAssumption, <1>1, <1>2, <1>4, <1>5 DEF TypeOK, Call
<1>12. IdsAreFresh'
  BY TaskAssumption, <1>1, <1>2 DEF IdsAreFresh, Resume
<1>13. SavesAreCurrent'
  BY TaskAssumption, <1>1, <1>2 DEF SavesAreCurrent, StoreKeepsUp, Resume
<1>14. StoreKeepsUp'
  BY TaskAssumption, <1>1, <1>2 DEF StoreKeepsUp, Saving, SavesAreCurrent, Resume
<1>15. QueueIsKnown'
  BY <1>1, <1>3, <1>4, <1>6 DEF QueueIsKnown
<1>16. AcknowledgedMeansAll'
  BY <1>1, <1>2, <1>3, <1>4, <1>7, <1>8 DEF AcknowledgedMeansAll, TypeOK, Call
<1> QED
  BY <1>11, <1>12, <1>13, <1>14, <1>15, <1>16 DEF IInv

\* A caller is dropped.
LEMMA DropIInv ==
    ASSUME IInv, NEW c \in Calls, Drop(c)
    PROVE  IInv'
<1>1. TypeOK /\ IdsAreFresh /\ SavesAreCurrent /\ StoreKeepsUp /\ QueueIsKnown
        /\ AcknowledgedMeansAll
  BY DEF IInv
<1>2. PICK p \in {"orphan", "gone"} :
        /\ p = (IF call[c].phase = "saving" THEN "orphan" ELSE "gone")
        /\ call' \in [Calls -> Call]
        /\ call'[c] = [op |-> call[c].op, id |-> call[c].id,
                       task |-> call[c].task, phase |-> p]
        /\ \A d \in Calls : d # c => call'[d] = call[d]
  BY <1>1, ToPhase DEF Drop, Phases
<1>11. TypeOK'
  BY TaskAssumption, <1>1, <1>2 DEF TypeOK, Call, Drop, Awaiting
<1>12. IdsAreFresh'
  BY TaskAssumption, <1>1, <1>2 DEF IdsAreFresh, Drop, Awaiting
<1>13. SavesAreCurrent'
  BY TaskAssumption, <1>1, <1>2 DEF SavesAreCurrent, StoreKeepsUp, Drop, Awaiting
<1>14. StoreKeepsUp'
  BY TaskAssumption, <1>1, <1>2 DEF StoreKeepsUp, Saving, SavesAreCurrent, Drop, Awaiting
<1>15. QueueIsKnown'
  BY TaskAssumption, <1>1, <1>2 DEF QueueIsKnown, SavesAreCurrent, Drop, Awaiting
<1>16. AcknowledgedMeansAll'
  BY TaskAssumption, <1>1, <1>2 DEF AcknowledgedMeansAll, SavesAreCurrent, QueueIsKnown, Drop, Awaiting
<1> QED
  BY <1>11, <1>12, <1>13, <1>14, <1>15, <1>16 DEF IInv

\* A call finds nothing to change.
LEMMA EnterIdlyIInv ==
    ASSUME IInv, NEW c \in Calls, EnterIdly(c)
    PROVE  IInv'
<1>1. TypeOK /\ IdsAreFresh /\ SavesAreCurrent /\ StoreKeepsUp /\ QueueIsKnown
        /\ AcknowledgedMeansAll
  BY DEF IInv
<1>2. call' \in [Calls -> Call]
        /\ call'[c] = [op |-> call[c].op, id |-> call[c].id,
                       task |-> call[c].task, phase |-> "ok"]
        /\ \A d \in Calls : d # c => call'[d] = call[d]
  BY <1>1, ToPhase DEF EnterIdly, Phases
<1>3. call[c].op # "submit" /\ call[c].phase = "entering"
  BY DEF EnterIdly, Enter
<1>11. TypeOK'
  BY TaskAssumption, <1>1, <1>2, <1>3 DEF TypeOK, Call, EnterIdly
<1>12. IdsAreFresh'
  BY TaskAssumption, <1>1, <1>2, <1>3 DEF IdsAreFresh, EnterIdly
<1>13. SavesAreCurrent'
  BY TaskAssumption, <1>1, <1>2, <1>3 DEF SavesAreCurrent, StoreKeepsUp, EnterIdly
<1>14. StoreKeepsUp'
  BY TaskAssumption, <1>1, <1>2, <1>3 DEF StoreKeepsUp, Saving, SavesAreCurrent, EnterIdly
<1>15. QueueIsKnown'
  BY TaskAssumption, <1>1, <1>2, <1>3 DEF QueueIsKnown, SavesAreCurrent, EnterIdly
<1>16. AcknowledgedMeansAll'
  BY TaskAssumption, <1>1, <1>2, <1>3 DEF AcknowledgedMeansAll, SavesAreCurrent, QueueIsKnown, EnterIdly
<1> QED
  BY <1>11, <1>12, <1>13, <1>14, <1>15, <1>16 DEF IInv

\* A call comes; if it submits, no other call has submitted its id.
LEMMA StartIInv ==
    ASSUME IInv, NEW c \in Calls, NEW op \in Ops, NEW id \in Ids,
           NEW task \in [state : States, progress : Int],
           op = "submit" => task \in Task,
           Start(c, op, id, task)
    PROVE  IInv'
<1>1. TypeOK /\ IdsAreFresh /\ SavesAreCurrent /\ StoreKeepsUp /\ QueueIsKnown
        /\ AcknowledgedMeansAll
  BY DEF IInv
<1>2. /\ call' \in [Calls -> Call]
      /\ call'[c] = [op |-> op, id |-> id, task |-> task, phase |-> "entering"]
      /\ \A d \in Calls : d # c => call'[d] = call[d]
  BY <1>1 DEF Start, TypeOK, Call, Phases
<1>3. /\ tasks' = tasks /\ queue' = queue /\ store' = store /\ laggards' = laggards
      /\ call[c].phase = "idle"
      /\ op = "submit" => \A d \in Calls : call[d].op = "submit" => call[d].id # id
  BY DEF Start
<1>4. call[c].op = "get"
  BY <1>1, <1>3 DEF IdsAreFresh
<1>11. TypeOK'
  BY <1>1, <1>2, <1>3 DEF TypeOK
<1>12. IdsAreFresh'
  BY <1>1, <1>2, <1>3, <1>4 DEF IdsAreFresh
<1>13. SavesAreCurrent'
  BY <1>1, <1>2, <1>3 DEF SavesAreCurrent
<1>14. StoreKeepsUp'
  BY <1>1, <1>2, <1>3 DEF StoreKeepsUp, Saving
<1>15. QueueIsKnown'
  BY <1>1, <1>3 DEF QueueIsKnown
<1>16. AcknowledgedMeansAll'
  BY <1>1, <1>2, <1>3 DEF AcknowledgedMeansAll
<1> QED
  BY <1>11, <1>12, <1>13, <1>14, <1>15, <1>16 DEF IInv

\* submit inserts a task nobody can have found before, and saves or queues it.
LEMMA EnterSubmitIInv ==
    ASSUME IInv, NEW c \in Calls, EnterSubmit(c)
    PROVE  IInv'
<1> DEFINE id == call[c].id
           task == call[c].task
<1>1. TypeOK /\ IdsAreFresh /\ SavesAreCurrent /\ StoreKeepsUp /\ QueueIsKnown
        /\ AcknowledgedMeansAll
  BY DEF IInv
<1>2. /\ call[c].op = "submit" /\ call[c].phase = "entering"
      /\ id \in Ids /\ task \in Task /\ task # None /\ tasks[id] = None
      /\ Persistent \in BOOLEAN
  BY <1>1, TaskAssumption DEF EnterSubmit, Enter, TypeOK, Call, IdsAreFresh
<1>3. /\ tasks' = [tasks EXCEPT ![id] = task]
      /\ store' = store /\ laggards' = laggards
  BY DEF EnterSubmit
<1>4. /\ tasks' \in [Ids -> Task \union {None}]
      /\ tasks'[id] = task
      /\ \A i \in Ids : i # id => tasks'[i] = tasks[i]
  BY <1>1, <1>2, <1>3 DEF TypeOK
<1>5. /\ queue' \in [Ids -> Task \union {None}]
      /\ \A i \in Ids : i # id => queue'[i] = queue[i]
      /\ Persistent => queue' = queue
      /\ ~Persistent => queue'[id] = task
  BY <1>1, <1>2 DEF EnterSubmit, TypeOK
<1>6. PICK p \in {"saving", "ok"} :
        /\ Persistent => p = "saving"
        /\ ~Persistent => p = "ok"
        /\ call' \in [Calls -> Call]
        /\ call'[c] = [op |-> call[c].op, id |-> id, task |-> task, phase |-> p]
        /\ \A d \in Calls : d # c => call'[d] = call[d]
  BY <1>1, <1>2, ToPhase, SavePhase DEF EnterSubmit, Phases
<1>7. \A d \in Calls : d # c =>
        /\ call[d].id \in Ids
        /\ call[d].id = id => call[d].op # "submit" /\ call[d].phase # "saving"
  BY <1>1, <1>2 DEF TypeOK, Call, IdsAreFresh, SavesAreCurrent
<1>11. TypeOK'
  BY <1>1, <1>3, <1>4, <1>5, <1>6 DEF TypeOK
<1>12. IdsAreFresh'
  BY <1>1, <1>2, <1>4, <1>6, <1>7 DEF IdsAreFresh
<1>13. SavesAreCurrent'
  BY <1>1, <1>2, <1>3, <1>4, <1>6, <1>7 DEF SavesAreCurrent
<1>14. StoreKeepsUp'
  BY <1>1, <1>2, <1>3, <1>4, <1>6 DEF StoreKeepsUp, Saving
<1>15. QueueIsKnown'
  BY <1>1, <1>2, <1>3, <1>4, <1>5 DEF QueueIsKnown
<1>16. AcknowledgedMeansAll'
  BY <1>1, <1>2, <1>3, <1>4, <1>5, <1>6, <1>7 DEF AcknowledgedMeansAll
<1> QED
  BY <1>11, <1>12, <1>13, <1>14, <1>15, <1>16 DEF IInv

\* cancel and update_progress change an entry under its lock: no other of them
\* can be saving the same task, and a submit that is makes the task a laggard.
LEMMA ChangedIInv ==
    ASSUME IInv, NEW c \in Calls, NEW task \in Task,
           call[c].op \in {"cancel", "update_progress"},
           call[c].phase = "entering",
           ~Locked(call[c].id), tasks[call[c].id] # None,
           Changed(c, task)
    PROVE  IInv'
<1> DEFINE id == call[c].id
<1>1. TypeOK /\ IdsAreFresh /\ SavesAreCurrent /\ StoreKeepsUp /\ QueueIsKnown
        /\ AcknowledgedMeansAll
  BY DEF IInv
<1>2. id \in Ids /\ task # None /\ Persistent \in BOOLEAN
  BY <1>1, TaskAssumption DEF TypeOK, Call
<1>3. /\ tasks' = [tasks EXCEPT ![id] = task]
      /\ queue' = queue /\ store' = store
      /\ laggards' = IF SubmitSaving(id) THEN laggards \union {id} ELSE laggards
  BY DEF Changed
<1>4. /\ tasks' \in [Ids -> Task \union {None}]
      /\ tasks'[id] = task
      /\ \A i \in Ids : i # id => tasks'[i] = tasks[i]
  BY <1>1, <1>2, <1>3 DEF TypeOK
<1>5. /\ laggards' \subseteq Ids /\ laggards \subseteq laggards'
      /\ SubmitSaving(id) => id \in laggards'
  BY <1>1, <1>2, <1>3 DEF TypeOK
<1>6. PICK p \in {"saving", "ok"} :
        /\ Persistent => p = "saving"
        /\ ~Persistent => p = "ok"
        /\ call' \in [Calls -> Call]
        /\ \E t : call'[c] = [op |-> call[c].op, id |-> id, task |-> t, phase |-> p]
                    /\ (Persistent => t = task)
        /\ \A d \in Calls : d # c => call'[d] = call[d]
  BY <1>1, <1>2, ToPhase, SavePhase DEF Changed, Phases
<1>7. \A d \in Calls : d # c /\ call[d].id = id /\ call[d].phase = "saving"
        => id \in laggards'
  <2> SUFFICES ASSUME NEW d \in Calls, d # c, call[d].id = id,
                      call[d].phase = "saving"
               PROVE  id \in laggards'
    OBVIOUS
  <2>1. call[d].op = "submit"
    BY <1>1 DEF Locked, Holding, Awaiting, SavesAreCurrent
  <2> QED
    BY <1>5, <2>1 DEF SubmitSaving
<1>8. \A d \in Calls : call[d].id \in Ids
  BY <1>1 DEF TypeOK, Call
<1>11. TypeOK'
  BY <1>1, <1>3, <1>4, <1>5, <1>6 DEF TypeOK
<1>12. IdsAreFresh'
  BY <1>1, <1>2, <1>4, <1>6, <1>8 DEF IdsAreFresh
<1>13. SavesAreCurrent'
  BY <1>1, <1>2, <1>3, <1>4, <1>5, <1>6, <1>7, <1>8 DEF SavesAreCurrent
<1>14. StoreKeepsUp'
  BY <1>1, <1>2, <1>3, <1>4, <1>5, <1>6 DEF StoreKeepsUp, Saving
<1>15. QueueIsKnown'
  BY <1>1, <1>2, <1>3, <1>4 DEF QueueIsKnown
<1>16. AcknowledgedMeansAll'
  BY <1>1, <1>2, <1>3, <1>4, <1>6, <1>8 DEF AcknowledgedMeansAll
<1> QED
  BY <1>11, <1>12, <1>13, <1>14, <1>15, <1>16 DEF IInv

\* A restart forgets everything but the store, which nobody compares with a
\* map that has no entry.
LEMMA RestartIInv == IInv /\ Restart => IInv'
<1> SUFFICES ASSUME IInv, Restart
             PROVE  IInv'
  OBVIOUS
<1>1. TypeOK /\ IdsAreFresh /\ SavesAreCurrent
  BY DEF IInv
<1>2. /\ tasks' = [id \in Ids |-> None] /\ queue' = [id \in Ids |-> None]
      /\ store' = store /\ laggards' = laggards
  BY DEF Restart
<1>3. /\ call' \in [Calls -> Call]
      /\ \A c \in Calls :
            /\ call'[c].op = call[c].op /\ call'[c].id = call[c].id
            /\ call'[c].task = call[c].task
            /\ call'[c].phase = IF call[c].phase = "idle" THEN "idle" ELSE "gone"
  BY <1>1 DEF Restart, TypeOK, Call, Phases
<1>11. TypeOK'
  BY <1>1, <1>2, <1>3 DEF TypeOK
<1>12. IdsAreFresh'
  BY <1>1, <1>2, <1>3 DEF IdsAreFresh
<1>13. SavesAreCurrent'
  BY <1>3 DEF SavesAreCurrent
<1>14. StoreKeepsUp' /\ QueueIsKnown'
  BY <1>2 DEF StoreKeepsUp, QueueIsKnown
<1>16. AcknowledgedMeansAll'
  BY <1>3 DEF AcknowledgedMeansAll
<1> QED
  BY <1>11, <1>12, <1>13, <1>14, <1>16 DEF IInv

-----------------------------------------------------------------------------

\* A step is a call that comes, a step of a call, or a restart.
LEMMA NextCases ==
    ASSUME Next
    PROVE  \/ \E c \in Calls, op \in Ops, id \in Ids,
                 task \in [state : States, progress : Int] :
                 /\ op = "submit" => task \in Task
                 /\ Start(c, op, id, task)
           \/ \E c \in Calls : Proceed(c)
           \/ \E c \in Calls : Drop(c)
           \/ Restart
<1>1. ASSUME NEW c \in Calls, NEW id \in Ids, NEW s \in Submitted,
             Start(c, "submit", id, [state |-> s, progress |-> 0])
      PROVE  \E op \in Ops, task \in [state : States, progress : Int] :
                 /\ op = "submit" => task \in Task
                 /\ Start(c, op, id, task)
  <2>1. [state |-> s, progress |-> 0] \in Task
    BY TaskAssumption DEF Task
  <2>2. [state |-> s, progress |-> 0] \in [state : States, progress : Int]
    BY TaskAssumption
  <2> QED
    BY <1>1, <2>1, <2>2 DEF Ops
<1>2. ASSUME NEW c \in Calls, NEW id \in Ids, NEW op \in {"cancel", "get"},
             Start(c, op, id, New)
      PROVE  \E o \in Ops, task \in [state : States, progress : Int] :
                 /\ o = "submit" => task \in Task
                 /\ Start(c, o, id, task)
  <2>1. New \in [state : States, progress : Int]
    BY DEF New, States
  <2> QED
    BY <1>2, <2>1 DEF Ops
<1>3. ASSUME NEW c \in Calls, NEW id \in Ids, NEW p \in Asked,
             Start(c, "update_progress", id, [state |-> "Pending", progress |-> p])
      PROVE  \E op \in Ops, task \in [state : States, progress : Int] :
                 /\ op = "submit" => task \in Task
                 /\ Start(c, op, id, task)
  <2>1. [state |-> "Pending", progress |-> p] \in [state : States, progress : Int]
    BY TaskAssumption DEF States
  <2> QED
    BY <1>3, <2>1 DEF Ops
<1> QED
  BY <1>1, <1>2, <1>3 DEF Next

\* What an entering cancel or update_progress makes of a task is a task.
LEMMA ChangesAreTasks ==
    ASSUME TypeOK, NEW c \in Calls, tasks[call[c].id] # None
    PROVE  /\ [tasks[call[c].id] EXCEPT !.state = "Cancelled"] \in Task
           /\ [tasks[call[c].id] EXCEPT !.progress = Clamped(call[c].task.progress)]
                \in Task
<1>1. tasks[call[c].id] \in Task /\ call[c].task.progress \in Int
  BY DEF TypeOK, Call
<1>2. \A p \in Int : Clamped(p) \in 0 .. Full
  BY TaskAssumption DEF Clamped
<1> QED
  BY <1>1, <1>2 DEF Task, States

\* Every step keeps the invariant.
LEMMA NextIInv == IInv /\ [Next]_vars => IInv'
<1> SUFFICES ASSUME IInv, [Next]_vars
             PROVE  IInv'
  OBVIOUS
<1>1. CASE UNCHANGED vars
  BY <1>1 DEF vars, IInv, TypeOK, IdsAreFresh, SavesAreCurrent, StoreKeepsUp,
     Saving, QueueIsKnown, AcknowledgedMeansAll
<1>2. ASSUME NEW c \in Calls, EnterCancel(c)
      PROVE  IInv'
  BY <1>2, ChangesAreTasks, ChangedIInv DEF EnterCancel, Enter, IInv
<1>3. ASSUME NEW c \in Calls, EnterUpdate(c)
      PROVE  IInv'
  BY <1>3, ChangesAreTasks, ChangedIInv DEF EnterUpdate, Enter, IInv
<1>4. ASSUME NEW c \in Calls, Proceed(c)
      PROVE  IInv'
  BY <1>2, <1>3, <1>4, EnterSubmitIInv, EnterIdlyIInv, CommitIInv, SaveFailsIInv,
     ResumeIInv DEF Proceed
<1>5. CASE Next
  BY <1>4, <1>5, NextCases, StartIInv, DropIInv, RestartIInv
<1> QED
  BY <1>1, <1>5

\* The invariant holds of every behaviour.
LEMMA Invariance == Spec => []IInv
  BY InitIInv, NextIInv, PTL DEF Spec

\* Progress stays within its bounds whatever update_progress is asked to set,
\* and every task, clone and row is well-formed.
THEOREM TypeCorrect == Spec => []TypeOK
  BY Invariance, PTL DEF IInv

\* Rows only lag behind the map for the three reasons StoreKeepsUp names.
THEOREM StoreCorrect == Spec => []StoreKeepsUp
  BY Invariance, PTL DEF IInv

\* What is queued is in the map and, if there is a store, has a row.
THEOREM QueueCorrect == Spec => []QueueIsKnown
  BY Invariance, PTL DEF IInv

\* An Ok from submit can be relied on.
THEOREM SubmitCorrect == Spec => []AcknowledgedMeansAll
  BY Invariance, PTL DEF IInv

\* No step takes a task out of a terminal state.
LEMMA StepKeepsOver ==
    ASSUME IInv, [Next]_vars, NEW id \in Ids, tasks[id] # None,
           IsTerminal(tasks[id].state), tasks'[id] # None
    PROVE  tasks'[id].state = tasks[id].state
<1>1. TypeOK /\ IdsAreFresh
  BY DEF IInv
<1>2. CASE tasks' = tasks
  BY <1>2
<1>3. ASSUME NEW c \in Calls, EnterSubmit(c)
      PROVE  tasks'[id].state = tasks[id].state
  BY <1>1, <1>3 DEF EnterSubmit, Enter, IdsAreFresh, TypeOK
<1>4. ASSUME NEW c \in Calls, EnterCancel(c)
      PROVE  tasks'[id].state = tasks[id].state
  BY <1>1, <1>4 DEF EnterCancel, Changed, TypeOK
<1>5. ASSUME NEW c \in Calls, EnterUpdate(c)
      PROVE  tasks'[id].state = tasks[id].state
  <2> DEFINE p == Clamped(call[c].task.progress)
  <2>1. tasks' = [tasks EXCEPT ![call[c].id] = [tasks[call[c].id] EXCEPT !.progress = p]]
    BY <1>5 DEF EnterUpdate, Changed
  <2> QED
    BY <1>1, <2>1 DEF TypeOK, Task
<1>6. CASE Restart
  BY <1>6 DEF Restart
<1>7. ASSUME NEW c \in Calls, Proceed(c)
      PROVE  tasks'[id].state = tasks[id].state
  BY <1>2, <1>3, <1>4, <1>5, <1>7
     DEF Proceed, EnterIdly, Commit, SaveFails, Resume
<1> QED
  BY <1>2, <1>6, <1>7, NextCases DEF Start, Drop, vars

\* A task that is over stays over until the process ends.
THEOREM TerminalIsFinal == Spec => OverIsOver
<1>1. IInv /\ [Next]_vars =>
        [\A id \in Ids :
            tasks[id] # None /\ IsTerminal(tasks[id].state) /\ tasks'[id] # None
                => tasks'[id].state = tasks[id].state]_vars
  BY StepKeepsOver
<1> QED
  BY <1>1, Invariance, PTL DEF Spec, OverIsOver

=============================================================================
