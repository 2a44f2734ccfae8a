---------------------------- MODULE SandboxProofs ---------------------------
(***************************************************************************)
(* What is left of a command and of its limits, for any number of calls on *)
(* any number of Sandboxes, and of requests, sandboxes and processes of    *)
(* the cgroup daemon.                                                      *)
(***************************************************************************)
EXTENDS Sandbox, CgroupHelper, TLAPS

SandboxSpec == SandboxInit /\ [][SandboxNext]_sandboxVars
HelperSpec == HelperInit /\ [][HelperNext]_helperVars

-----------------------------------------------------------------------------
(* Sandbox.  A call that is done well has no process left, so whoever is   *)
(* still in a cgroup when it is to be removed belongs to a call that uses  *)
(* it yet or has failed; that call is the directory's excuse.              *)

Phases == {"idle", "setup", "spawn", "add", "feed", "wait", "peak", "cleanup", "returned"}

Call_ == [sandbox : Sandboxes \union {"none"}, input : {"none", "taken"} \union Inputs,
          phase : Phases, cgroup : BOOLEAN,
          result : {"none", "error", "exit", "lost", "timed_out"}]

Process_ == [launcher : {"none", "started", "forked", "dying", "dead"},
             program : {"none", "running", "dead"},
             inside : SUBSET {"launcher", "program"}]

SandboxTypeOK ==
    /\ directory \subseteq Sandboxes
    /\ execution \in [Executions -> Call_]
    /\ process \in [Executions -> Process_]

ProcessFits(e) ==
    /\ execution[e].phase \in {"idle", "setup", "spawn"} => process[e] = NoProcess
    /\ "launcher" \in process[e].inside => process[e].launcher # "dead"
    /\ "program" \in process[e].inside => process[e].program = "running"
    /\ process[e].inside # {} => execution[e].cgroup \/ At(e, "returned")

ExecutionFits(e) ==
    /\ ~At(e, "idle") => Of(e) \in Sandboxes
    /\ execution[e].cgroup => Running(e) /\ ~At(e, "setup")
    /\ At(e, "add") => execution[e].cgroup
    /\ At(e, "peak") \/ At(e, "cleanup") => execution[e].result # "none"
    /\ execution[e].result = "exit" => Ended(e)

\* Why a directory is there.
Accounts(e) == execution[e].cgroup \/ (At(e, "returned") /\ execution[e].result # "exit")

DirectoryFits == \A s \in directory : \E e \in Executions : Of(e) = s /\ Accounts(e)

SandboxIInv ==
    /\ SandboxTypeOK
    /\ \A e \in Executions : ProcessFits(e) /\ ExecutionFits(e)
    /\ DirectoryFits /\ NeverRemovedAround

-----------------------------------------------------------------------------
(* Cgroup daemon.  Of a sandbox nobody pulled the directory from under one *)
(* request at most is between making it and entering it, and as long as it *)
(* is there is no process in it.                                           *)

Steps == {"idle", "received", "directory", "memory", "pids", "procs", "answered", "gone"}

Request_ == [op : {"none", "cleanup", "peak_memory", "other", "setup"},
             id : Ids \union {NoOne}, agent : Profiles \union {NoOne},
             pid : Processes \union {NoOne}, step : Steps,
             answer : {"none", "ok", "error", "unavailable"}]

Cgroup_ == [made : BOOLEAN, memory : Profiles \union {NoOne}, pids : Profiles \union {NoOne}]

HelperTypeOK ==
    /\ daemon \in {"down", "probing", "serving"} /\ starts \in Nat
    /\ delegated \in BOOLEAN /\ probe \in BOOLEAN /\ permitted \in BOOLEAN
    /\ cgroup \in [Ids -> Cgroup_]
    /\ within \in [Processes -> Ids \union {NoOne}]
    /\ alive \subseteq Processes
    /\ request \in [Requests -> Request_]
    /\ undermined \subseteq Ids

SetsUp(r, i) == request[r].id = i /\ request[r].step \in {"memory", "pids", "procs"}

RequestFits(r) ==
    /\ request[r].step = "received" => request[r].id \in Ids
    /\ request[r].step = "received" /\ request[r].op = "setup" => request[r].pid \in Processes
    /\ request[r].step \in {"directory", "memory", "pids", "procs"} =>
        /\ request[r].id \in Ids
        /\ request[r].agent \in Profiles
        /\ request[r].pid \in Processes

\* What a setup has written is what it finds.
Undisturbed(r, i) ==
    SetsUp(r, i) =>
        /\ cgroup[i].made
        /\ \A p \in alive : within[p] # i
        /\ request[r].step \in {"pids", "procs"} => cgroup[i].memory = request[r].agent
        /\ request[r].step = "procs" => cgroup[i].pids = request[r].agent

OneSetup ==
    \A i \in Ids \ undermined :
        /\ \A r, q \in Requests : SetsUp(r, i) /\ SetsUp(q, i) => r = q
        /\ \A r \in Requests : Undisturbed(r, i)

OccupiedIsMade == \A p \in alive : within[p] \in Ids => cgroup[within[p]].made

HelperIInv ==
    /\ HelperTypeOK
    /\ \A r \in Requests : RequestFits(r)
    /\ OneSetup /\ OccupiedIsMade /\ GrantsHold
    /\ daemon = "probing" => delegated

-----------------------------------------------------------------------------
(* Sandbox: the steps.                                                     *)

LEMMA SandboxInitFits ==
    ASSUME SandboxInit
    PROVE  SandboxIInv
<1>1. NoCall \in Call_ /\ NoProcess \in Process_
    BY DEF NoCall, NoProcess, Call_, Process_, Phases, Inputs
<1>2. SandboxTypeOK
    BY <1>1 DEF SandboxInit, SandboxTypeOK
<1> QED
    BY <1>2 DEF SandboxInit, SandboxIInv, ProcessFits, ExecutionFits, DirectoryFits,
        NeverRemovedAround, Inside, At, Of, Running, NoCall, NoProcess

\* A step of one call that removes no directory.
LEMMA OneCallStep ==
    ASSUME SandboxIInv, SandboxTypeOK', NEW e \in Executions,
           \A f \in Executions \ {e} :
               execution'[f] = execution[f] /\ process'[f] = process[f],
           ProcessFits(e)', ExecutionFits(e)',
           directory \subseteq directory',
           Accounts(e) => Accounts(e)' /\ Of(e)' = Of(e),
           \A s \in directory' \ directory : Of(e)' = s /\ Accounts(e)',
           process'[e].inside # {} => Of(e)' \in directory'
    PROVE  SandboxIInv'
<1>1. \A f \in Executions : ProcessFits(f)' /\ ExecutionFits(f)'
    BY DEF SandboxIInv, ProcessFits, ExecutionFits, At, Of, Running, Ended
<1>2. DirectoryFits'
    BY DEF SandboxIInv, DirectoryFits, Accounts, At, Of
<1>3. NeverRemovedAround'
    BY DEF SandboxIInv, NeverRemovedAround, Inside, Of
<1> QED
    BY <1>1, <1>2, <1>3 DEF SandboxIInv

LEMMA CallKeeps ==
    ASSUME SandboxIInv, NEW e \in Executions, Call(e)
    PROVE  SandboxIInv'
<1>1. PICK s \in Sandboxes, input \in {"none"} \union Inputs :
        execution' = [execution EXCEPT ![e] =
            [NoCall EXCEPT !.sandbox = s, !.input = input, !.phase = "setup"]]
    BY DEF Call
<1>2. process' = process /\ directory' = directory
    BY DEF Call
<1>3. /\ execution'[e] = [sandbox |-> s, input |-> input, phase |-> "setup",
                          cgroup |-> FALSE, result |-> "none"]
      /\ \A f \in Executions \ {e} : execution'[f] = execution[f]
      /\ execution' \in [Executions -> Call_]
    BY <1>1 DEF SandboxIInv, SandboxTypeOK, NoCall, Call_, Phases, Inputs
<1>4. SandboxTypeOK'
    BY <1>2, <1>3 DEF SandboxIInv, SandboxTypeOK
<1>5. process[e] = NoProcess /\ ~Accounts(e)
    BY DEF Call, SandboxIInv, ProcessFits, ExecutionFits, At, Running, Accounts
<1>6. ProcessFits(e)' /\ ExecutionFits(e)'
    BY <1>2, <1>3, <1>5 DEF ProcessFits, ExecutionFits, At, Of, Running, Ended, NoProcess
<1> QED
    BY <1>2, <1>3, <1>4, <1>5, <1>6, OneCallStep DEF NoProcess

\* The calls whose record changes by its fields alone.
LEMMA MovesOn ==
    ASSUME SandboxTypeOK, NEW e \in Executions, NEW x \in Call_,
           execution' = [execution EXCEPT ![e] = x]
    PROVE  /\ execution' \in [Executions -> Call_] /\ execution'[e] = x
           /\ \A f \in Executions \ {e} : execution'[f] = execution[f]
    BY DEF SandboxTypeOK

LEMMA ProcessMoves ==
    ASSUME SandboxTypeOK, NEW e \in Executions, NEW x \in Process_,
           process' = [process EXCEPT ![e] = x]
    PROVE  /\ process' \in [Executions -> Process_] /\ process'[e] = x
           /\ \A f \in Executions \ {e} : process'[f] = process[f]
    BY DEF SandboxTypeOK

LEMMA PhaseMoves ==
    ASSUME SandboxTypeOK, NEW e \in Executions, NEW phase \in Phases, To(e, phase)
    PROVE  /\ execution' \in [Executions -> Call_]
           /\ \A f \in Executions \ {e} : execution'[f] = execution[f]
           /\ execution'[e].phase = phase
           /\ execution'[e].sandbox = execution[e].sandbox
           /\ execution'[e].cgroup = execution[e].cgroup
           /\ execution'[e].result = execution[e].result
<1>1. execution[e] \in Call_
    BY DEF SandboxTypeOK
<1>2. [execution[e] EXCEPT !.phase = phase] \in Call_
    BY <1>1 DEF Call_
<1> QED
    BY <1>1, <1>2, MovesOn DEF To, Call_

LEMMA CallReturns ==
    ASSUME SandboxIInv, NEW e \in Executions, ~At(e, "idle"),
           NEW result \in {"error", "exit", "lost", "timed_out"},
           execution' = [execution EXCEPT ![e] = Returned(e, result)]
    PROVE  /\ execution' \in [Executions -> Call_]
           /\ \A f \in Executions \ {e} : execution'[f] = execution[f]
           /\ execution'[e].phase = "returned"
           /\ execution'[e].sandbox = execution[e].sandbox
           /\ ~execution'[e].cgroup
           /\ execution'[e].result = result
<1>1. Of(e) \in Sandboxes
    BY DEF SandboxIInv, ExecutionFits
<1>2. Returned(e, result) \in Call_
    BY <1>1 DEF Returned, NoCall, Call_, Phases
<1>3. /\ Returned(e, result).phase = "returned" /\ Returned(e, result).sandbox = Of(e)
      /\ ~Returned(e, result).cgroup /\ Returned(e, result).result = result
    BY DEF Returned, NoCall
<1>4. /\ execution' \in [Executions -> Call_] /\ execution'[e] = Returned(e, result)
      /\ \A f \in Executions \ {e} : execution'[f] = execution[f]
    BY <1>2, MovesOn DEF SandboxIInv
<1> QED
    BY <1>3, <1>4 DEF Of

LEMMA KillMoves ==
    ASSUME SandboxTypeOK, NEW e \in Executions, process' = Killed(e)
    PROVE  /\ process' \in [Executions -> Process_]
           /\ \A f \in Executions \ {e} : process'[f] = process[f]
           /\ process'[e].inside = process[e].inside
           /\ process'[e].program = process[e].program
           /\ process'[e].launcher = "dead" <=> process[e].launcher = "dead"
           /\ process[e].launcher = "none" => process'[e] = process[e]
<1>1. process[e] \in Process_
    BY DEF SandboxTypeOK
<1>2. CASE process[e].launcher \in {"started", "forked"}
    <2>1. [process[e] EXCEPT !.launcher = "dying"] \in Process_
        BY <1>1 DEF Process_
    <2>2. process' = [process EXCEPT ![e] = [process[e] EXCEPT !.launcher = "dying"]]
        BY <1>2 DEF Killed
    <2>3. process'[e] = [process[e] EXCEPT !.launcher = "dying"]
        BY <2>1, <2>2, ProcessMoves
    <2>4. /\ process'[e].launcher = "dying"
          /\ process'[e].program = process[e].program
          /\ process'[e].inside = process[e].inside
        BY <1>1, <2>3 DEF Process_
    <2> QED
        BY <1>2, <2>1, <2>2, <2>4, ProcessMoves
<1>3. CASE process[e].launcher \notin {"started", "forked"}
    BY <1>3 DEF Killed, SandboxTypeOK
<1> QED
    BY <1>2, <1>3

LEMMA SetupKeeps ==
    ASSUME SandboxIInv, NEW e \in Executions, SetupDirectory(e)
    PROVE  SandboxIInv'
<1>1. /\ process' = process /\ At(e, "setup") /\ SandboxTypeOK
      /\ Of(e) \in Sandboxes /\ process[e] = NoProcess /\ ~Accounts(e)
      /\ execution[e].result # "exit"
    BY DEF SetupDirectory, SandboxIInv, ProcessFits, ExecutionFits, At, Running, Accounts,
        Ended, NoProcess
<1>2. CASE To(e, "spawn") /\ UNCHANGED directory
    <2>1. /\ SandboxTypeOK' /\ execution'[e].phase = "spawn"
          /\ \A f \in Executions \ {e} : execution'[f] = execution[f]
          /\ Of(e)' = Of(e) /\ execution'[e].cgroup = execution[e].cgroup
          /\ execution'[e].result = execution[e].result
        BY <1>1, <1>2, PhaseMoves DEF SandboxTypeOK, Phases, Of
    <2>2. ProcessFits(e)' /\ ExecutionFits(e)'
        BY <1>1, <2>1 DEF ProcessFits, ExecutionFits, At, Running, Accounts, NoProcess
    <2> QED
        BY <1>1, <1>2, <2>1, <2>2, OneCallStep DEF NoProcess
<1>3. CASE /\ directory' = directory \union {Of(e)}
           /\ execution' = [execution EXCEPT ![e].cgroup = TRUE, ![e].phase = "spawn"]
    <2> DEFINE x == [execution[e] EXCEPT !.cgroup = TRUE, !.phase = "spawn"]
    <2>1. execution[e] \in Call_
        BY <1>1 DEF SandboxTypeOK
    <2>2. /\ x \in Call_ /\ x.phase = "spawn" /\ x.cgroup
          /\ x.sandbox = execution[e].sandbox /\ x.result = execution[e].result
        BY <2>1 DEF Call_, Phases
    <2>3. execution' = [execution EXCEPT ![e] = x]
        BY <1>1, <1>3 DEF SandboxTypeOK
    <2> HIDE DEF x
    <2>4. /\ SandboxTypeOK' /\ execution'[e] = x
          /\ \A f \in Executions \ {e} : execution'[f] = execution[f]
        BY <1>1, <1>3, <2>2, <2>3, MovesOn DEF SandboxTypeOK
    <2>5. Of(e)' = Of(e) /\ Accounts(e)'
        BY <2>2, <2>4 DEF Of, Accounts
    <2>6. ProcessFits(e)' /\ ExecutionFits(e)'
        BY <1>1, <2>2, <2>4, <2>5 DEF ProcessFits, ExecutionFits, At, Running, NoProcess
    <2> QED
        BY <1>1, <1>3, <2>4, <2>5, <2>6, OneCallStep DEF NoProcess
<1> QED
    BY <1>2, <1>3 DEF SetupDirectory

LEMMA SpawnKeeps ==
    ASSUME SandboxIInv, NEW e \in Executions, Spawn(e)
    PROVE  SandboxIInv'
<1>1. /\ directory' = directory /\ At(e, "spawn") /\ ~At(e, "idle") /\ SandboxTypeOK
      /\ Of(e) \in Sandboxes /\ process[e] = NoProcess
      /\ execution[e].result # "exit"
    BY DEF Spawn, SandboxIInv, ProcessFits, ExecutionFits, At, Ended, NoProcess
<1>2. CASE Fail(e) /\ UNCHANGED process
    <2>1. /\ SandboxTypeOK' /\ execution'[e].phase = "returned"
          /\ \A f \in Executions \ {e} : execution'[f] = execution[f]
          /\ Of(e)' = Of(e) /\ ~execution'[e].cgroup /\ execution'[e].result = "error"
        BY <1>1, <1>2, CallReturns DEF Fail, SandboxTypeOK, Of
    <2>2. ProcessFits(e)' /\ ExecutionFits(e)' /\ Accounts(e)'
        BY <1>1, <1>2, <2>1 DEF ProcessFits, ExecutionFits, At, Accounts, NoProcess
    <2> QED
        BY <1>1, <1>2, <2>1, <2>2, OneCallStep DEF NoProcess
<1>3. CASE /\ process' = [process EXCEPT ![e].launcher = "started"]
           /\ To(e, IF execution[e].cgroup THEN "add" ELSE "feed")
    <2>1. process[e] \in Process_
        BY <1>1 DEF SandboxTypeOK
    <2> DEFINE x == [process[e] EXCEPT !.launcher = "started"]
    <2>2. /\ x \in Process_ /\ x.launcher = "started" /\ x.inside = {}
          /\ process' = [process EXCEPT ![e] = x]
        BY <1>1, <1>3, <2>1 DEF SandboxTypeOK, Process_, NoProcess
    <2> HIDE DEF x
    <2>3. /\ process' \in [Executions -> Process_] /\ process'[e] = x
          /\ \A f \in Executions \ {e} : process'[f] = process[f]
        BY <1>1, <2>2, ProcessMoves
    <2>4. /\ SandboxTypeOK' /\ execution'[e].phase = IF execution[e].cgroup THEN "add" ELSE "feed"
          /\ \A f \in Executions \ {e} : execution'[f] = execution[f]
          /\ Of(e)' = Of(e) /\ execution'[e].cgroup = execution[e].cgroup
          /\ execution'[e].result = execution[e].result
        BY <1>1, <1>3, <2>3, PhaseMoves DEF SandboxTypeOK, Phases, Of
    <2>5. ProcessFits(e)' /\ ExecutionFits(e)' /\ (Accounts(e) => Accounts(e)')
        BY <1>1, <2>2, <2>3, <2>4 DEF ProcessFits, ExecutionFits, At, Running, Accounts
    <2> QED
        BY <1>1, <2>2, <2>3, <2>4, <2>5, OneCallStep
<1> QED
    BY <1>2, <1>3 DEF Spawn

LEMMA AddKeeps ==
    ASSUME SandboxIInv, NEW e \in Executions, AddProcess(e)
    PROVE  SandboxIInv'
<1>1. /\ directory' = directory /\ At(e, "add") /\ ~At(e, "idle") /\ SandboxTypeOK
      /\ execution[e].cgroup /\ ProcessFits(e) /\ ExecutionFits(e)
    BY DEF AddProcess, SandboxIInv, ExecutionFits, At
<1>2. process[e].inside # {} => Of(e) \in directory
    BY <1>1 DEF SandboxIInv, NeverRemovedAround, Inside, ExecutionFits
<1>3. CASE Fail(e) /\ process' = Killed(e)
    <2>1. /\ execution' \in [Executions -> Call_] /\ execution'[e].phase = "returned"
          /\ \A f \in Executions \ {e} : execution'[f] = execution[f]
          /\ Of(e)' = Of(e) /\ ~execution'[e].cgroup /\ execution'[e].result = "error"
        BY <1>1, <1>3, CallReturns DEF Fail, Of
    <2>2. /\ process' \in [Executions -> Process_]
          /\ \A f \in Executions \ {e} : process'[f] = process[f]
          /\ process'[e].inside = process[e].inside
          /\ process'[e].program = process[e].program
          /\ process'[e].launcher = "dead" <=> process[e].launcher = "dead"
        BY <1>1, <1>3, KillMoves
    <2>3. SandboxTypeOK'
        BY <1>1, <2>1, <2>2 DEF SandboxTypeOK
    <2>4. ProcessFits(e)' /\ ExecutionFits(e)' /\ Accounts(e)'
        BY <1>1, <2>1, <2>2 DEF ProcessFits, ExecutionFits, At, Accounts
    <2> QED
        BY <1>1, <1>2, <2>1, <2>2, <2>3, <2>4, OneCallStep
<1>4. CASE /\ Of(e) \in directory
           /\ process' = [process EXCEPT ![e].inside =
                IF process[e].launcher = "dead" THEN @ ELSE @ \union {"launcher"}]
           /\ To(e, "feed")
    <2> DEFINE x == [process[e] EXCEPT !.inside =
                IF process[e].launcher = "dead" THEN @ ELSE @ \union {"launcher"}]
    <2>1. process[e] \in Process_
        BY <1>1 DEF SandboxTypeOK
    <2>2. /\ x \in Process_ /\ x.launcher = process[e].launcher
          /\ x.program = process[e].program
          /\ x.inside = IF process[e].launcher = "dead" THEN process[e].inside
                        ELSE process[e].inside \union {"launcher"}
        BY <2>1 DEF Process_
    <2>3. process' = [process EXCEPT ![e] = x]
        BY <1>1, <1>4 DEF SandboxTypeOK
    <2> HIDE DEF x
    <2>4. /\ process' \in [Executions -> Process_] /\ process'[e] = x
          /\ \A f \in Executions \ {e} : process'[f] = process[f]
        BY <1>1, <2>2, <2>3, ProcessMoves
    <2>5. /\ SandboxTypeOK' /\ execution'[e].phase = "feed"
          /\ \A f \in Executions \ {e} : execution'[f] = execution[f]
          /\ Of(e)' = Of(e) /\ execution'[e].cgroup = execution[e].cgroup
          /\ execution'[e].result = execution[e].result
        BY <1>1, <1>4, <2>4, PhaseMoves DEF SandboxTypeOK, Phases, Of
    <2>6. ProcessFits(e)' /\ ExecutionFits(e)' /\ Accounts(e)'
        BY <1>1, <2>2, <2>4, <2>5 DEF ProcessFits, ExecutionFits, At, Running, Accounts, Ended
    <2> QED
        BY <1>1, <1>4, <2>4, <2>5, <2>6, OneCallStep
<1> QED
    BY <1>3, <1>4 DEF AddProcess

LEMMA FeedKeeps ==
    ASSUME SandboxIInv, NEW e \in Executions, Feed(e)
    PROVE  SandboxIInv'
<1>1. /\ directory' = directory /\ process' = process
      /\ At(e, "feed") /\ ~At(e, "idle") /\ SandboxTypeOK
      /\ ProcessFits(e) /\ ExecutionFits(e)
    BY DEF Feed, SandboxIInv, At
<1>2. process[e].inside # {} => Of(e) \in directory
    BY <1>1 DEF SandboxIInv, NeverRemovedAround, Inside, ExecutionFits
<1>3. CASE execution' = [execution EXCEPT ![e].phase = "wait", ![e].input = "none"]
    <2> DEFINE x == [execution[e] EXCEPT !.phase = "wait", !.input = "none"]
    <2>1. execution[e] \in Call_
        BY <1>1 DEF SandboxTypeOK
    <2>2. /\ x \in Call_ /\ x.phase = "wait" /\ x.cgroup = execution[e].cgroup
          /\ x.sandbox = execution[e].sandbox /\ x.result = execution[e].result
        BY <2>1 DEF Call_, Phases
    <2>3. execution' = [execution EXCEPT ![e] = x]
        BY <1>1, <1>3 DEF SandboxTypeOK
    <2> HIDE DEF x
    <2>4. /\ SandboxTypeOK' /\ execution'[e] = x
          /\ \A f \in Executions \ {e} : execution'[f] = execution[f]
        BY <1>1, <2>2, <2>3, MovesOn DEF SandboxTypeOK
    <2>5. Of(e)' = Of(e) /\ (Accounts(e) => Accounts(e)')
        BY <1>1, <2>2, <2>4 DEF Of, Accounts, At
    <2>6. ProcessFits(e)' /\ ExecutionFits(e)'
        BY <1>1, <2>2, <2>4, <2>5 DEF ProcessFits, ExecutionFits, At, Running, Ended
    <2> QED
        BY <1>1, <1>2, <2>4, <2>5, <2>6, OneCallStep
<1>4. CASE Fail(e)
    <2>1. /\ SandboxTypeOK' /\ execution'[e].phase = "returned"
          /\ \A f \in Executions \ {e} : execution'[f] = execution[f]
          /\ Of(e)' = Of(e) /\ ~execution'[e].cgroup /\ execution'[e].result = "error"
        BY <1>1, <1>4, CallReturns DEF Fail, SandboxTypeOK, Of
    <2>2. ProcessFits(e)' /\ ExecutionFits(e)' /\ Accounts(e)'
        BY <1>1, <2>1 DEF ProcessFits, ExecutionFits, At, Accounts
    <2> QED
        BY <1>1, <1>2, <2>1, <2>2, OneCallStep
<1> QED
    BY <1>3, <1>4 DEF Feed

LEMMA ResultMoves ==
    ASSUME SandboxIInv, NEW e \in Executions, ~At(e, "idle"),
           NEW result \in {"exit", "lost", "timed_out"}, Result(e, result)
    PROVE  /\ execution' \in [Executions -> Call_]
           /\ \A f \in Executions \ {e} : execution'[f] = execution[f]
           /\ execution'[e].phase = IF execution[e].cgroup THEN "peak" ELSE "returned"
           /\ execution'[e].sandbox = execution[e].sandbox
           /\ execution'[e].cgroup = execution[e].cgroup
           /\ execution'[e].result = result
<1>1. SandboxTypeOK /\ execution[e] \in Call_
    BY DEF SandboxIInv, SandboxTypeOK
<1>2. CASE execution[e].cgroup
    <2> DEFINE x == [execution[e] EXCEPT !.result = result, !.phase = "peak"]
    <2>1. /\ x \in Call_ /\ x.phase = "peak" /\ x.cgroup = execution[e].cgroup
          /\ x.sandbox = execution[e].sandbox /\ x.result = result
        BY <1>1 DEF Call_, Phases
    <2>2. execution' = [execution EXCEPT ![e] = x]
        BY <1>1, <1>2 DEF Result, SandboxTypeOK
    <2> HIDE DEF x
    <2>3. /\ execution' \in [Executions -> Call_] /\ execution'[e] = x
          /\ \A f \in Executions \ {e} : execution'[f] = execution[f]
        BY <1>1, <2>1, <2>2, MovesOn
    <2> QED
        BY <1>2, <2>1, <2>3
<1>3. CASE ~execution[e].cgroup
    <2>1. execution' = [execution EXCEPT ![e] = Returned(e, result)]
        BY <1>1, <1>3 DEF Result, SandboxTypeOK
    <2>2. /\ execution' \in [Executions -> Call_]
          /\ \A f \in Executions \ {e} : execution'[f] = execution[f]
          /\ execution'[e].phase = "returned"
          /\ execution'[e].sandbox = execution[e].sandbox
          /\ ~execution'[e].cgroup
          /\ execution'[e].result = result
        BY <2>1, CallReturns
    <2>3. execution'[e].cgroup = execution[e].cgroup
        BY <1>1, <1>3, <2>2 DEF Call_
    <2> QED
        BY <1>3, <2>2, <2>3
<1> QED
    BY <1>2, <1>3

LEMMA CompletesKeeps ==
    ASSUME SandboxIInv, NEW e \in Executions, Completes(e)
    PROVE  SandboxIInv'
<1>1. /\ directory' = directory /\ process' = process
      /\ At(e, "wait") /\ ~At(e, "idle") /\ Ended(e) /\ SandboxTypeOK
      /\ ProcessFits(e) /\ ExecutionFits(e)
    BY DEF Completes, SandboxIInv, At
<1>2. process[e].inside = {}
    BY <1>1 DEF SandboxTypeOK, Process_, ProcessFits, Ended
<1>3. /\ SandboxTypeOK'
      /\ \A f \in Executions \ {e} : execution'[f] = execution[f]
      /\ execution'[e].phase = IF execution[e].cgroup THEN "peak" ELSE "returned"
      /\ Of(e)' = Of(e) /\ execution'[e].cgroup = execution[e].cgroup
      /\ execution'[e].result = "exit"
    BY <1>1, ResultMoves DEF Completes, SandboxTypeOK, Of
<1>4. ProcessFits(e)' /\ ExecutionFits(e)' /\ (Accounts(e) => Accounts(e)')
    BY <1>1, <1>2, <1>3 DEF ProcessFits, ExecutionFits, At, Accounts, Running, Ended
<1> QED
    BY <1>1, <1>2, <1>3, <1>4, OneCallStep

\* TimesOut and WaitFails.
LEMMA GivesUpKeeps ==
    ASSUME SandboxIInv, NEW e \in Executions, TimesOut(e) \/ WaitFails(e)
    PROVE  SandboxIInv'
<1>1. /\ directory' = directory /\ process' = Killed(e)
      /\ At(e, "wait") /\ ~At(e, "idle") /\ SandboxTypeOK
      /\ ProcessFits(e) /\ ExecutionFits(e)
    BY DEF TimesOut, WaitFails, SandboxIInv, At
<1>2. process[e].inside # {} => Of(e) \in directory
    BY <1>1 DEF SandboxIInv, NeverRemovedAround, Inside, ExecutionFits
<1>3. PICK result \in {"lost", "timed_out"} : Result(e, result)
    BY DEF TimesOut, WaitFails
<1>4. /\ execution' \in [Executions -> Call_]
      /\ \A f \in Executions \ {e} : execution'[f] = execution[f]
      /\ execution'[e].phase = IF execution[e].cgroup THEN "peak" ELSE "returned"
      /\ Of(e)' = Of(e) /\ execution'[e].cgroup = execution[e].cgroup
      /\ execution'[e].result = result
    BY <1>1, <1>3, ResultMoves DEF Of
<1>5. /\ process' \in [Executions -> Process_]
      /\ \A f \in Executions \ {e} : process'[f] = process[f]
      /\ process'[e].inside = process[e].inside
      /\ process'[e].program = process[e].program
      /\ process'[e].launcher = "dead" <=> process[e].launcher = "dead"
    BY <1>1, KillMoves
<1>6. SandboxTypeOK'
    BY <1>1, <1>4, <1>5 DEF SandboxTypeOK
<1>7. ProcessFits(e)' /\ ExecutionFits(e)' /\ (Accounts(e) => Accounts(e)')
    BY <1>1, <1>4, <1>5 DEF ProcessFits, ExecutionFits, At, Accounts, Running, Ended
<1> QED
    BY <1>1, <1>2, <1>4, <1>5, <1>6, <1>7, OneCallStep

LEMMA PeakKeeps ==
    ASSUME SandboxIInv, NEW e \in Executions, ReadPeakMemory(e)
    PROVE  SandboxIInv'
<1>1. /\ directory' = directory /\ process' = process
      /\ At(e, "peak") /\ ~At(e, "idle") /\ SandboxTypeOK
      /\ ProcessFits(e) /\ ExecutionFits(e)
    BY DEF ReadPeakMemory, SandboxIInv, At
<1>2. process[e].inside # {} => Of(e) \in directory
    BY <1>1 DEF SandboxIInv, NeverRemovedAround, Inside, ExecutionFits
<1>3. /\ SandboxTypeOK' /\ execution'[e].phase = "cleanup"
      /\ \A f \in Executions \ {e} : execution'[f] = execution[f]
      /\ Of(e)' = Of(e) /\ execution'[e].cgroup = execution[e].cgroup
      /\ execution'[e].result = execution[e].result
    BY <1>1, PhaseMoves DEF ReadPeakMemory, SandboxTypeOK, Phases, Of
<1>4. ProcessFits(e)' /\ ExecutionFits(e)' /\ (Accounts(e) => Accounts(e)')
    BY <1>1, <1>3 DEF ProcessFits, ExecutionFits, At, Accounts, Running, Ended
<1> QED
    BY <1>1, <1>2, <1>3, <1>4, OneCallStep

\* The directory goes when nobody is in it.  When somebody is, either that is
\* this call's own program, and the call has not ended well, or it is another
\* call's, which accounts for the directory.
LEMMA CleanupKeeps ==
    ASSUME SandboxIInv, NEW e \in Executions, CleanupDirectory(e)
    PROVE  SandboxIInv'
<1>1. /\ process' = process
      /\ At(e, "cleanup") /\ ~At(e, "idle") /\ SandboxTypeOK
      /\ \A f \in Executions : ProcessFits(f) /\ ExecutionFits(f)
      /\ execution' = [execution EXCEPT ![e] = Returned(e, execution[e].result)]
    BY DEF CleanupDirectory, SandboxIInv, SandboxTypeOK, At
<1>2. execution[e].result \in {"error", "exit", "lost", "timed_out"}
    BY <1>1 DEF SandboxTypeOK, Call_, ExecutionFits
<1>3. /\ execution' \in [Executions -> Call_] /\ execution'[e].phase = "returned"
      /\ \A f \in Executions \ {e} : execution'[f] = execution[f]
      /\ execution'[e].sandbox = execution[e].sandbox /\ ~execution'[e].cgroup
      /\ execution'[e].result = execution[e].result
    BY <1>1, <1>2, CallReturns
<1>4. SandboxTypeOK'
    BY <1>1, <1>3 DEF CleanupDirectory, SandboxTypeOK
<1>5. \A f \in Executions : Of(f)' = Of(f) /\ ProcessFits(f)' /\ ExecutionFits(f)'
    BY <1>1, <1>3 DEF ProcessFits, ExecutionFits, At, Of, Running, Ended
<1>6. directory' \subseteq directory
    BY DEF CleanupDirectory
<1>7. DirectoryFits'
    <2> SUFFICES ASSUME NEW s \in directory'
                 PROVE  \E f \in Executions : Of(f)' = s /\ Accounts(f)'
        BY DEF DirectoryFits
    <2>1. PICK f \in Executions : Of(f) = s /\ Accounts(f)
        BY <1>6 DEF SandboxIInv, DirectoryFits
    <2>2. CASE f # e
        BY <1>3, <1>5, <2>1, <2>2 DEF Accounts, At
    <2>3. CASE f = e /\ execution[e].result # "exit"
        BY <1>3, <1>5, <2>1, <2>3 DEF Accounts, At
    <2>4. CASE f = e /\ execution[e].result = "exit"
        <3>1. PICK g \in Executions : Of(g) = s /\ process[g].inside # {}
            BY <2>1, <2>4 DEF CleanupDirectory, Inside
        <3>2. ~Ended(g)
            BY <1>1, <3>1 DEF SandboxTypeOK, Process_, ProcessFits, Ended
        <3>3. g # e /\ execution[g].result # "exit"
            BY <1>1, <2>4, <3>2 DEF ExecutionFits
        <3>4. Accounts(g)
            BY <1>1, <3>1, <3>3 DEF ProcessFits, Accounts
        <3> QED
            BY <1>3, <1>5, <3>1, <3>3, <3>4 DEF Accounts, At
    <2> QED
        BY <2>2, <2>3, <2>4
<1>8. NeverRemovedAround'
    <2> SUFFICES ASSUME NEW s \in Sandboxes, Inside(s)' # {}
                 PROVE  s \in directory'
        BY DEF NeverRemovedAround
    <2>1. Inside(s) # {}
        BY <1>1, <1>5 DEF Inside
    <2> QED
        BY <2>1 DEF SandboxIInv, NeverRemovedAround, CleanupDirectory
<1> QED
    BY <1>4, <1>5, <1>7, <1>8 DEF SandboxIInv

\* A step of the processes alone.
LEMMA ProcessStep ==
    ASSUME SandboxIInv, NEW e \in Executions, NEW x \in Process_,
           UNCHANGED <<directory, execution>>,
           process' = [process EXCEPT ![e] = x],
           process[e] # NoProcess,
           x.inside # {} => process[e].inside # {},
           "launcher" \in x.inside => x.launcher # "dead",
           "program" \in x.inside => x.program = "running",
           Ended(e) => x.launcher = "dead" /\ x.program # "running"
    PROVE  SandboxIInv'
<1>1. SandboxTypeOK /\ ProcessFits(e) /\ ExecutionFits(e)
    BY DEF SandboxIInv
<1>2. /\ process' \in [Executions -> Process_] /\ process'[e] = x
      /\ \A f \in Executions \ {e} : process'[f] = process[f]
    BY <1>1, ProcessMoves
<1>3. SandboxTypeOK'
    BY <1>1, <1>2 DEF SandboxTypeOK
<1>4. ProcessFits(e)' /\ ExecutionFits(e)' /\ Of(e)' = Of(e) /\ (Accounts(e) => Accounts(e)')
    BY <1>1, <1>2 DEF ProcessFits, ExecutionFits, At, Of, Accounts, Running, Ended
<1>5. process[e].inside # {} => Of(e) \in directory
    BY <1>1 DEF SandboxIInv, NeverRemovedAround, Inside, ExecutionFits, ProcessFits, At
<1> QED
    BY <1>2, <1>3, <1>4, <1>5, OneCallStep

LEMMA ProcessesKeep ==
    ASSUME SandboxIInv, NEW e \in Executions,
           Fork(e) \/ CannotUnshare(e) \/ ProgramEnds(e) \/ LauncherEnds(e)
    PROVE  SandboxIInv'
<1>1. /\ UNCHANGED <<directory, execution>> /\ ProcessFits(e)
      /\ process \in [Executions -> Process_] /\ process[e] \in Process_
    BY DEF Fork, CannotUnshare, ProgramEnds, LauncherEnds, SandboxIInv, SandboxTypeOK
<1>2. CASE Fork(e)
    <2> DEFINE x == [process[e] EXCEPT !.launcher = "forked", !.program = "running",
                        !.inside = IF @ = {} THEN {} ELSE {"launcher", "program"}]
    <2>1. /\ x \in Process_ /\ x.launcher = "forked" /\ x.program = "running"
          /\ x.inside = IF process[e].inside = {} THEN {} ELSE {"launcher", "program"}
        BY <1>1 DEF Process_
    <2>2. process' = [process EXCEPT ![e] = x]
        BY <1>1, <1>2 DEF Fork
    <2>3. process[e] # NoProcess /\ ~Ended(e)
        BY <1>2 DEF Fork, NoProcess, Ended
    <2> HIDE DEF x
    <2> QED
        BY <1>1, <2>1, <2>2, <2>3, ProcessStep
<1>3. CASE CannotUnshare(e) \/ LauncherEnds(e)
    <2> DEFINE x == [process[e] EXCEPT !.launcher = "dead", !.inside = @ \ {"launcher"}]
    <2>1. /\ x \in Process_ /\ x.launcher = "dead" /\ x.program = process[e].program
          /\ x.inside = process[e].inside \ {"launcher"}
        BY <1>1 DEF Process_
    <2>2. process' = [process EXCEPT ![e] = x]
        BY <1>1, <1>3 DEF CannotUnshare, LauncherEnds
    <2>3. process[e] # NoProcess /\ ~Ended(e)
        BY <1>3 DEF CannotUnshare, LauncherEnds, NoProcess, Ended
    <2> HIDE DEF x
    <2> QED
        BY <1>1, <2>1, <2>2, <2>3, ProcessStep DEF ProcessFits
<1>4. CASE ProgramEnds(e)
    <2> DEFINE x == [process[e] EXCEPT !.program = "dead", !.inside = @ \ {"program"}]
    <2>1. /\ x \in Process_ /\ x.program = "dead" /\ x.launcher = process[e].launcher
          /\ x.inside = process[e].inside \ {"program"}
        BY <1>1 DEF Process_
    <2>2. process' = [process EXCEPT ![e] = x]
        BY <1>1, <1>4 DEF ProgramEnds
    <2>3. process[e] # NoProcess /\ ~Ended(e)
        BY <1>4 DEF ProgramEnds, NoProcess, Ended
    <2> HIDE DEF x
    <2> QED
        BY <1>1, <2>1, <2>2, <2>3, ProcessStep DEF ProcessFits
<1> QED
    BY <1>2, <1>3, <1>4

LEMMA ReadsKeeps ==
    ASSUME SandboxIInv, NEW e \in Executions, ReadsInput(e)
    PROVE  SandboxIInv'
<1>1. /\ directory' = directory /\ process' = process
      /\ At(e, "feed") /\ SandboxTypeOK
      /\ ProcessFits(e) /\ ExecutionFits(e) /\ execution[e] \in Call_
    BY DEF ReadsInput, SandboxIInv, SandboxTypeOK
<1>2. process[e].inside # {} => Of(e) \in directory
    BY <1>1 DEF SandboxIInv, NeverRemovedAround, Inside, ExecutionFits, At
<1> DEFINE x == [execution[e] EXCEPT !.input = "taken"]
<1>3. /\ x \in Call_ /\ x.phase = execution[e].phase /\ x.cgroup = execution[e].cgroup
      /\ x.sandbox = execution[e].sandbox /\ x.result = execution[e].result
    BY <1>1 DEF Call_
<1>4. execution' = [execution EXCEPT ![e] = x]
    BY <1>1 DEF ReadsInput, SandboxTypeOK
<1> HIDE DEF x
<1>5. /\ SandboxTypeOK' /\ execution'[e] = x
      /\ \A f \in Executions \ {e} : execution'[f] = execution[f]
    BY <1>1, <1>3, <1>4, MovesOn DEF SandboxTypeOK
<1>6. /\ Of(e)' = Of(e) /\ (Accounts(e) => Accounts(e)')
      /\ ProcessFits(e)' /\ ExecutionFits(e)'
    BY <1>1, <1>3, <1>5 DEF Of, Accounts, ProcessFits, ExecutionFits, At, Running, Ended
<1> QED
    BY <1>1, <1>2, <1>5, <1>6, OneCallStep

LEMMA SandboxNextKeeps ==
    ASSUME SandboxIInv, [SandboxNext]_sandboxVars
    PROVE  SandboxIInv'
<1>1. CASE UNCHANGED sandboxVars
    BY <1>1 DEF SandboxIInv, SandboxTypeOK, ProcessFits, ExecutionFits, DirectoryFits,
        NeverRemovedAround, Accounts, Inside, At, Of, Running, Ended, sandboxVars
<1>2. CASE SandboxNext
    <2>1. PICK e \in Executions :
            \/ Call(e) \/ Step(e) \/ WaitFails(e) \/ Fork(e) \/ CannotUnshare(e)
            \/ ReadsInput(e) \/ ProgramEnds(e) \/ LauncherEnds(e)
        BY <1>2 DEF SandboxNext
    <2>2. CASE Step(e)
        BY <2>2, SetupKeeps, SpawnKeeps, AddKeeps, FeedKeeps, CompletesKeeps, GivesUpKeeps,
            PeakKeeps, CleanupKeeps DEF Step
    <2> QED
        BY <2>1, <2>2, CallKeeps, GivesUpKeeps, ProcessesKeep, ReadsKeeps
<1> QED
    BY <1>1, <1>2

\* A Sandbox's directory outlives its calls only if one of them failed, an
\* exit code is that of a program that has ended, and no cgroup is removed
\* around a process: whatever the calls, their sharing of directories, and
\* the order in which launchers, programs and timeouts end them.
THEOREM CommandsAreAccountedFor == SandboxSpec => []SandboxAccounts
<1>1. SandboxInit => SandboxIInv
    BY SandboxInitFits
<1>2. SandboxIInv /\ [SandboxNext]_sandboxVars => SandboxIInv'
    BY SandboxNextKeeps
<1>3. SandboxIInv => SandboxAccounts
    <2> SUFFICES ASSUME SandboxIInv PROVE SandboxAccounts
        OBVIOUS
    <2>1. OnlyFailuresLeaveDirectories
        BY DEF SandboxIInv, OnlyFailuresLeaveDirectories, DirectoryFits, Accounts, ExecutionFits
    <2>2. ExitMeansEnded
        BY DEF SandboxIInv, ExitMeansEnded, ExecutionFits
    <2> QED
        BY <2>1, <2>2 DEF SandboxIInv, SandboxAccounts
<1> QED
    BY <1>1, <1>2, <1>3, PTL DEF SandboxSpec

-----------------------------------------------------------------------------
(* Cgroup daemon: the steps.                                               *)

LEMMA HelperInitFits ==
    ASSUME HelperInit
    PROVE  HelperIInv
<1>1. Empty \in Cgroup_ /\ Idle \in Request_
    BY DEF Empty, Cgroup_, Idle, Request_, Steps
<1>2. HelperTypeOK
    BY <1>1 DEF HelperInit, HelperTypeOK
<1>3. /\ \A r \in Requests : RequestFits(r) /\ \A i \in Ids : ~SetsUp(r, i)
      /\ \A p \in alive : within[p] = NoOne
      /\ \A r \in Requests : request[r].step # "answered"
    BY DEF HelperInit, RequestFits, SetsUp, Idle
<1>4. OneSetup /\ OccupiedIsMade
    BY <1>3, HelperAssumption DEF OneSetup, Undisturbed, OccupiedIsMade
<1>5. GrantsHold
    BY <1>3, HelperAssumption DEF GrantsHold, LimitedByOneProfile, PlacedStays,
        PermissionIsDetected, HelperInit
<1> QED
    BY <1>2, <1>3, <1>4, <1>5 DEF HelperIInv, HelperInit

LEMMA RequestMoves ==
    ASSUME HelperTypeOK, NEW r \in Requests, NEW x \in Request_,
           request' = [request EXCEPT ![r] = x]
    PROVE  /\ request' \in [Requests -> Request_] /\ request'[r] = x
           /\ \A q \in Requests \ {r} : request'[q] = request[q]
    BY DEF HelperTypeOK

LEMMA OverIs ==
    ASSUME NEW step \in {"answered", "gone"},
           NEW a \in {"none", "ok", "error", "unavailable"},
           NEW p \in Processes \union {NoOne}
    PROVE  /\ Over(step, a, p) \in Request_
           /\ Over(step, a, p).step = step /\ Over(step, a, p).pid = p
    BY DEF Over, Idle, Request_, Steps

\* The conjuncts that a step which leaves the machine alone does not touch.
LEMMA MachineAlone ==
    ASSUME HelperIInv, UNCHANGED machine
    PROVE  /\ PermissionIsDetected' /\ (daemon = "probing" => delegated)'
           /\ daemon' \in {"down", "probing", "serving"} /\ starts' \in Nat
           /\ delegated' \in BOOLEAN /\ probe' \in BOOLEAN /\ permitted' \in BOOLEAN
    BY DEF machine, HelperIInv, HelperTypeOK, GrantsHold, PermissionIsDetected

\* A request that takes up work, or is answered without having placed anyone.
LEMMA QuietStep ==
    ASSUME HelperIInv, NEW r \in Requests, NEW x \in Request_,
           request' = [request EXCEPT ![r] = x],
           UNCHANGED machine, UNCHANGED filesystem,
           x.step \notin {"memory", "pids", "procs"},
           x.step = "answered" => x.pid = NoOne,
           x.step = "received" => x.id \in Ids,
           x.step = "received" /\ x.op = "setup" => x.pid \in Processes,
           x.step = "directory" =>
               x.id \in Ids /\ x.agent \in Profiles /\ x.pid \in Processes
    PROVE  HelperIInv'
<1>1. /\ request' \in [Requests -> Request_] /\ request'[r] = x
      /\ \A q \in Requests \ {r} : request'[q] = request[q]
    BY RequestMoves DEF HelperIInv
<1>2. UNCHANGED <<cgroup, within, alive, undermined>>
    BY DEF filesystem
<1>3. HelperTypeOK'
    BY <1>1, <1>2, MachineAlone DEF HelperIInv, HelperTypeOK
<1>4. \A q \in Requests : RequestFits(q)'
    BY <1>1 DEF HelperIInv, RequestFits
<1>5. \A q \in Requests, i \in Ids : SetsUp(q, i)' => q # r /\ SetsUp(q, i)
    BY <1>1 DEF SetsUp
<1>6. OneSetup'
    BY <1>1, <1>2, <1>5 DEF HelperIInv, OneSetup, Undisturbed
<1>7. OccupiedIsMade' /\ LimitedByOneProfile'
    BY <1>2 DEF HelperIInv, OccupiedIsMade, GrantsHold, LimitedByOneProfile
<1>8. PlacedStays'
    BY <1>1, <1>2, HelperAssumption DEF HelperIInv, HelperTypeOK, GrantsHold, PlacedStays
<1> QED
    BY <1>3, <1>4, <1>6, <1>7, <1>8, MachineAlone DEF HelperIInv, GrantsHold

LEMMA AnswerKeeps ==
    ASSUME HelperIInv, NEW r \in Requests, UNCHANGED machine, UNCHANGED filesystem,
           NEW a \in {"ok", "error", "unavailable"}, Answer(r, a)
    PROVE  HelperIInv'
<1>1. /\ Over("answered", a, NoOne) \in Request_
      /\ Over("answered", a, NoOne).step = "answered"
      /\ Over("answered", a, NoOne).pid = NoOne
    BY OverIs
<1> QED
    BY <1>1, QuietStep DEF Answer

LEMMA ReceiveKeeps ==
    ASSUME HelperIInv, NEW r \in Requests, Receive(r)
    PROVE  HelperIInv'
<1>1. UNCHANGED machine /\ UNCHANGED filesystem
    BY DEF Receive
<1>2. CASE request' = [request EXCEPT ![r] = Over("gone", "none", NoOne)]
    BY <1>1, <1>2, OverIs, QuietStep
<1>3. CASE \E i \in Ids, op \in {"cleanup", "peak_memory", "other"} :
            request' = [request EXCEPT ![r] = Asks(op, i, NoOne, NoOne)]
    <2>1. PICK i \in Ids, op \in {"cleanup", "peak_memory", "other"} :
            request' = [request EXCEPT ![r] = Asks(op, i, NoOne, NoOne)]
        BY <1>3
    <2> DEFINE x == Asks(op, i, NoOne, NoOne)
    <2>2. x \in Request_ /\ x.step = "received" /\ x.op = op /\ x.id = i
        BY DEF Asks, Request_, Steps
    <2> HIDE DEF x
    <2> QED
        BY <1>1, <2>1, <2>2, QuietStep DEF x
<1>4. CASE \E i \in Ids, agent \in Profiles \union {NoOne}, p \in Processes :
            request' = [request EXCEPT ![r] = Asks("setup", i, agent, p)]
    <2>1. PICK i \in Ids, agent \in Profiles \union {NoOne}, p \in Processes :
            request' = [request EXCEPT ![r] = Asks("setup", i, agent, p)]
        BY <1>4
    <2> DEFINE x == Asks("setup", i, agent, p)
    <2>2. x \in Request_ /\ x.step = "received" /\ x.id = i /\ x.pid = p
        BY DEF Asks, Request_, Steps
    <2>3. request' = [request EXCEPT ![r] = x]
        BY <2>1
    <2> HIDE DEF x
    <2> QED
        BY <1>1, <2>2, <2>3, QuietStep
<1> QED
    BY <1>2, <1>3, <1>4 DEF Receive

\* A setup that takes its next step.
LEMMA SetupMoves ==
    ASSUME HelperIInv, NEW r \in Requests, NEW step \in Steps, Then(r, step)
    PROVE  \E x \in Request_ :
             /\ request' = [request EXCEPT ![r] = x]
             /\ request' \in [Requests -> Request_] /\ request'[r] = x
             /\ \A q \in Requests \ {r} : request'[q] = request[q]
             /\ x.step = step /\ x.op = request[r].op /\ x.id = request[r].id
             /\ x.agent = request[r].agent /\ x.pid = request[r].pid
<1> DEFINE x == [request[r] EXCEPT !.step = step]
<1>1. HelperTypeOK /\ request[r] \in Request_
    BY DEF HelperIInv, HelperTypeOK
<1>2. /\ x \in Request_ /\ x.step = step /\ x.op = request[r].op /\ x.id = request[r].id
      /\ x.agent = request[r].agent /\ x.pid = request[r].pid
    BY <1>1 DEF Request_
<1>3. request' = [request EXCEPT ![r] = x]
    BY <1>1 DEF Then, HelperTypeOK
<1> HIDE DEF x
<1> QED
    BY <1>1, <1>2, <1>3, RequestMoves

LEMMA SetupRequestKeeps ==
    ASSUME HelperIInv, NEW r \in Requests, Setup(r)
    PROVE  HelperIInv'
<1>1. /\ UNCHANGED machine /\ UNCHANGED filesystem
      /\ request[r].step = "received" /\ request[r].op = "setup"
    BY DEF Setup, Doing
<1>2. CASE Answer(r, "unavailable") \/ Answer(r, "error")
    BY <1>1, <1>2, AnswerKeeps
<1>3. CASE request[r].agent \in Profiles /\ Then(r, "directory")
    <2>1. PICK x \in Request_ :
             /\ request' = [request EXCEPT ![r] = x]
             /\ x.step = "directory" /\ x.id = request[r].id
             /\ x.agent = request[r].agent /\ x.pid = request[r].pid
        BY <1>3, SetupMoves DEF Steps
    <2> QED
        BY <1>1, <1>3, <2>1, QuietStep DEF HelperIInv, RequestFits
<1>4. permitted \in BOOLEAN
    BY DEF HelperIInv, HelperTypeOK
<1> QED
    BY <1>2, <1>3, <1>4 DEF Setup

LEMMA MakeKeeps ==
    ASSUME HelperIInv, NEW r \in Requests, MakeDirectory(r)
    PROVE  HelperIInv'
<1> DEFINE i == request[r].id
<1>1. /\ UNCHANGED machine /\ UNCHANGED <<within, alive, undermined>>
      /\ request[r].step = "directory"
      /\ i \in Ids /\ request[r].agent \in Profiles /\ request[r].pid \in Processes
      /\ cgroup \in [Ids -> Cgroup_]
    BY DEF MakeDirectory, Doing, HelperIInv, RequestFits, HelperTypeOK
<1>2. CASE Answer(r, "error") /\ UNCHANGED cgroup
    BY <1>1, <1>2, AnswerKeeps DEF filesystem
<1>3. CASE ~cgroup[i].made /\ Then(r, "memory") /\ cgroup' = [cgroup EXCEPT ![i].made = TRUE]
    <2>1. PICK x \in Request_ :
             /\ request' \in [Requests -> Request_] /\ request'[r] = x
             /\ \A q \in Requests \ {r} : request'[q] = request[q]
             /\ x.step = "memory" /\ x.id = i
             /\ x.agent = request[r].agent /\ x.pid = request[r].pid
        BY <1>3, SetupMoves DEF Steps
    <2>2. i \in Ids
        BY <1>1
    <2> HIDE DEF i
    <2>3. /\ cgroup' \in [Ids -> Cgroup_] /\ cgroup'[i].made
          /\ \A j \in Ids \ {i} : cgroup'[j] = cgroup[j]
          /\ \A j \in Ids : cgroup[j].made => cgroup'[j] = cgroup[j]
        BY <1>1, <1>3, <2>2 DEF Cgroup_
    <2>4. HelperTypeOK'
        BY <1>1, <2>1, <2>3, MachineAlone DEF HelperIInv, HelperTypeOK
    <2>5. \A q \in Requests : RequestFits(q)'
        BY <1>1, <2>1, <2>2 DEF HelperIInv, RequestFits
    <2>6. \A p \in alive : within[p] # i
        BY <1>3, <2>2 DEF HelperIInv, OccupiedIsMade
    <2>7. OneSetup'
        <3> SUFFICES ASSUME NEW j \in Ids \ undermined
                     PROVE  /\ \A q, o \in Requests :
                                 SetsUp(q, j)' /\ SetsUp(o, j)' => q = o
                            /\ \A q \in Requests : Undisturbed(q, j)'
            BY <1>1 DEF OneSetup
        <3>1. CASE j # i
            <4>1. \A q \in Requests : SetsUp(q, j)' => q # r /\ SetsUp(q, j)
                BY <2>1, <3>1 DEF SetsUp
            <4> QED
                BY <1>1, <2>1, <2>3, <3>1, <4>1 DEF HelperIInv, OneSetup, Undisturbed
        <3>2. CASE j = i
            <4>1. \A q \in Requests : ~SetsUp(q, j)
                BY <1>3, <3>2 DEF HelperIInv, OneSetup, Undisturbed
            <4>2. \A q \in Requests : SetsUp(q, j)' => q = r
                BY <2>1, <4>1 DEF SetsUp
            <4> QED
                BY <1>1, <2>1, <2>3, <2>6, <3>2, <4>2 DEF Undisturbed
        <3> QED
            BY <3>1, <3>2
    <2>8. OccupiedIsMade' /\ LimitedByOneProfile'
        BY <1>1, <2>3, <2>6 DEF HelperIInv, OccupiedIsMade, GrantsHold, LimitedByOneProfile
    <2>9. PlacedStays'
        BY <1>1, <2>1, <2>3 DEF HelperIInv, GrantsHold, PlacedStays
    <2> QED
        BY <1>1, <2>4, <2>5, <2>7, <2>8, <2>9, MachineAlone DEF HelperIInv, GrantsHold
<1> QED
    BY <1>2, <1>3 DEF MakeDirectory

\* Writing a limit: what was there is this request's, or the directory was
\* once pulled from under a setup.
LEMMA LimitWritten ==
    ASSUME HelperIInv, NEW r \in Requests, UNCHANGED machine,
           UNCHANGED <<within, alive, undermined>>,
           NEW i \in Ids, SetsUp(r, i), NEW step \in {"pids", "procs"}, Then(r, step),
           NEW y \in Cgroup_, y.made, cgroup' = [cgroup EXCEPT ![i] = y],
           i \notin undermined =>
               /\ y.memory = request[r].agent
               /\ step = "procs" => y.pids = request[r].agent
    PROVE  HelperIInv'
<1>1. PICK x \in Request_ :
         /\ request' \in [Requests -> Request_] /\ request'[r] = x
         /\ \A q \in Requests \ {r} : request'[q] = request[q]
         /\ x.step = step /\ x.id = i
         /\ x.agent = request[r].agent /\ x.pid = request[r].pid
    BY SetupMoves DEF Steps, SetsUp
<1>2. /\ cgroup' \in [Ids -> Cgroup_] /\ cgroup'[i] = y
      /\ \A j \in Ids \ {i} : cgroup'[j] = cgroup[j]
    BY DEF HelperIInv, HelperTypeOK
<1>3. HelperTypeOK'
    BY <1>1, <1>2, MachineAlone DEF HelperIInv, HelperTypeOK
<1>4. \A q \in Requests : RequestFits(q)'
    BY <1>1 DEF HelperIInv, RequestFits, SetsUp
<1>5. \A q \in Requests, j \in Ids : SetsUp(q, j)' => SetsUp(q, j)
    BY <1>1 DEF SetsUp
<1>6. i \notin undermined =>
        /\ \A q \in Requests : SetsUp(q, i) => q = r
        /\ \A p \in alive : within[p] # i
    BY DEF HelperIInv, OneSetup, Undisturbed
<1>7. OneSetup'
    <2> SUFFICES ASSUME NEW j \in Ids \ undermined
                 PROVE  /\ \A q, o \in Requests :
                             SetsUp(q, j)' /\ SetsUp(o, j)' => q = o
                        /\ \A q \in Requests : Undisturbed(q, j)'
        BY DEF OneSetup
    <2>1. CASE j # i
        <3>1. \A q \in Requests : SetsUp(q, j)' => q # r
            BY <1>1, <2>1 DEF SetsUp
        <3> QED
            BY <1>1, <1>2, <1>5, <2>1, <3>1 DEF HelperIInv, OneSetup, Undisturbed
    <2>2. CASE j = i
        BY <1>1, <1>2, <1>5, <1>6, <2>2 DEF Undisturbed
    <2> QED
        BY <2>1, <2>2
<1>8. OccupiedIsMade' /\ LimitedByOneProfile'
    BY <1>2, <1>6 DEF HelperIInv, OccupiedIsMade, GrantsHold, LimitedByOneProfile
<1>9. PlacedStays'
    BY <1>1, <1>2 DEF HelperIInv, GrantsHold, PlacedStays
<1> QED
    BY <1>3, <1>4, <1>7, <1>8, <1>9, MachineAlone DEF HelperIInv, GrantsHold

LEMMA WritesKeep ==
    ASSUME HelperIInv, NEW r \in Requests, WriteMemory(r) \/ WritePids(r)
    PROVE  HelperIInv'
<1>1. /\ UNCHANGED machine /\ UNCHANGED <<within, alive, undermined>>
      /\ request[r].step \in {"memory", "pids"}
      /\ request[r].id \in Ids /\ request[r].agent \in Profiles
      /\ cgroup \in [Ids -> Cgroup_] /\ cgroup[request[r].id] \in Cgroup_
      /\ SetsUp(r, request[r].id)
    BY DEF WriteMemory, WritePids, Doing, HelperIInv, RequestFits, HelperTypeOK, SetsUp
<1>2. CASE Answer(r, "error") /\ UNCHANGED cgroup
    BY <1>1, <1>2, AnswerKeeps DEF filesystem
<1>3. CASE /\ cgroup[request[r].id].made /\ Then(r, "pids")
           /\ cgroup' = [cgroup EXCEPT ![request[r].id].memory = request[r].agent]
    <2> DEFINE y == [cgroup[request[r].id] EXCEPT !.memory = request[r].agent]
    <2>1. y \in Cgroup_ /\ y.made /\ y.memory = request[r].agent
        BY <1>1, <1>3 DEF Cgroup_
    <2>2. cgroup' = [cgroup EXCEPT ![request[r].id] = y]
        BY <1>1, <1>3
    <2> HIDE DEF y
    <2> QED
        BY <1>1, <1>3, <2>1, <2>2, LimitWritten
<1>4. CASE /\ cgroup[request[r].id].made /\ Then(r, "procs") /\ request[r].step = "pids"
           /\ cgroup' = [cgroup EXCEPT ![request[r].id].pids = request[r].agent]
    <2> DEFINE y == [cgroup[request[r].id] EXCEPT !.pids = request[r].agent]
    <2>1. /\ y \in Cgroup_ /\ y.made /\ y.pids = request[r].agent
          /\ y.memory = cgroup[request[r].id].memory
        BY <1>1, <1>4 DEF Cgroup_
    <2>2. cgroup' = [cgroup EXCEPT ![request[r].id] = y]
        BY <1>1, <1>4
    <2>3. request[r].id \notin undermined => y.memory = request[r].agent
        BY <1>1, <1>4, <2>1 DEF HelperIInv, OneSetup, Undisturbed
    <2> HIDE DEF y
    <2> QED
        BY <1>1, <1>4, <2>1, <2>2, <2>3, LimitWritten
<1> QED
    BY <1>2, <1>3, <1>4 DEF WriteMemory, WritePids, Doing

LEMMA EnterKeeps ==
    ASSUME HelperIInv, NEW r \in Requests, EnterCgroup(r)
    PROVE  HelperIInv'
<1> DEFINE i == request[r].id
           p0 == request[r].pid
<1>1. /\ UNCHANGED machine /\ UNCHANGED <<cgroup, alive, undermined>>
      /\ request[r].step = "procs" /\ SetsUp(r, i)
      /\ i \in Ids /\ request[r].agent \in Profiles /\ p0 \in Processes
      /\ HelperTypeOK
    BY DEF EnterCgroup, Doing, HelperIInv, RequestFits, SetsUp
<1>2. CASE Answer(r, "error") /\ UNCHANGED within
    BY <1>1, <1>2, AnswerKeeps DEF filesystem
<1>3. CASE /\ cgroup[i].made /\ p0 \in alive /\ within' = [within EXCEPT ![p0] = i]
           /\ request' = [request EXCEPT ![r] = Over("answered", "ok", p0)]
    <2> DEFINE x == Over("answered", "ok", p0)
    <2>1. x \in Request_ /\ x.step = "answered" /\ x.pid = p0
        BY <1>1, OverIs
    <2>2. request' = [request EXCEPT ![r] = x]
        BY <1>3
    <2> HIDE DEF x, i, p0
    <2>3. /\ request' \in [Requests -> Request_] /\ request'[r] = x
          /\ \A q \in Requests \ {r} : request'[q] = request[q]
        BY <1>1, <2>1, <2>2, RequestMoves
    <2>4. /\ within' \in [Processes -> Ids \union {NoOne}] /\ within'[p0] = i
          /\ \A p \in Processes \ {p0} : within'[p] = within[p]
        BY <1>1, <1>3 DEF HelperTypeOK
    <2>5. HelperTypeOK'
        BY <1>1, <2>3, <2>4, MachineAlone DEF HelperTypeOK
    <2>6. \A q \in Requests : RequestFits(q)'
        BY <2>1, <2>3 DEF HelperIInv, RequestFits
    <2>7. \A q \in Requests, j \in Ids : SetsUp(q, j)' => q # r /\ SetsUp(q, j)
        BY <2>1, <2>3 DEF SetsUp
    <2>8. i \notin undermined =>
            /\ \A q \in Requests : SetsUp(q, i) => q = r
            /\ cgroup[i].memory \in Profiles /\ cgroup[i].pids = cgroup[i].memory
        BY <1>1 DEF HelperIInv, OneSetup, Undisturbed
    <2>9. OneSetup'
        <3> SUFFICES ASSUME NEW j \in Ids \ undermined
                     PROVE  /\ \A q, o \in Requests :
                                 SetsUp(q, j)' /\ SetsUp(o, j)' => q = o
                            /\ \A q \in Requests : Undisturbed(q, j)'
            BY <1>1 DEF OneSetup
        <3>1. CASE j # i
            <4>1. \A p \in alive : within'[p] = j => within[p] = j
                BY <1>1, <2>4, <3>1 DEF HelperTypeOK
            <4> QED
                BY <1>1, <2>3, <2>7, <4>1 DEF HelperIInv, OneSetup, Undisturbed
        <3>2. CASE j = i
            BY <2>7, <2>8, <3>2 DEF Undisturbed
        <3> QED
            BY <3>1, <3>2
    <2>10. OccupiedIsMade' /\ LimitedByOneProfile'
        BY <1>1, <1>3, <2>4, <2>8 DEF HelperIInv, HelperTypeOK, OccupiedIsMade, GrantsHold,
            LimitedByOneProfile
    <2>11. PlacedStays'
        <3> SUFFICES ASSUME NEW q \in Requests, request'[q].step = "answered",
                            request'[q].pid \in alive
                     PROVE  within'[request'[q].pid] \in Ids /\ cgroup[within'[request'[q].pid]].made
            BY <1>1 DEF PlacedStays
        <3>1. CASE request'[q].pid = p0
            BY <1>1, <1>3, <2>4, <3>1
        <3>2. CASE request'[q].pid # p0
            <4>1. q # r /\ request'[q] = request[q] /\ request[q].pid \in Processes
                BY <1>1, <2>1, <2>3, <3>2 DEF HelperTypeOK
            <4>2. within'[request[q].pid] = within[request[q].pid]
                BY <2>4, <3>2, <4>1
            <4> QED
                BY <4>1, <4>2 DEF HelperIInv, GrantsHold, PlacedStays
        <3> QED
            BY <3>1, <3>2
    <2> QED
        BY <1>1, <2>5, <2>6, <2>9, <2>10, <2>11, MachineAlone DEF HelperIInv, GrantsHold
<1> QED
    BY <1>2, <1>3 DEF EnterCgroup

LEMMA HelperCleanupKeeps ==
    ASSUME HelperIInv, NEW r \in Requests, Cleanup(r)
    PROVE  HelperIInv'
<1> DEFINE i == request[r].id
<1>1. /\ UNCHANGED machine /\ UNCHANGED <<within, alive>> /\ Answer(r, "ok")
      /\ i \in Ids /\ HelperTypeOK
    BY DEF Cleanup, Doing, HelperIInv, RequestFits
<1>2. CASE UNCHANGED <<cgroup, undermined>>
    BY <1>1, <1>2, AnswerKeeps DEF filesystem
<1>3. CASE /\ Removable(i) /\ cgroup' = [cgroup EXCEPT ![i] = Empty]
           /\ undermined' = IF BeingSetUp(i) THEN undermined \union {i} ELSE undermined
    <2> DEFINE x == Over("answered", "ok", NoOne)
    <2>1. x \in Request_ /\ x.step = "answered" /\ x.pid = NoOne
        BY OverIs
    <2>2. request' = [request EXCEPT ![r] = x]
        BY <1>1 DEF Answer
    <2> HIDE DEF x, i
    <2>3. /\ request' \in [Requests -> Request_] /\ request'[r] = x
          /\ \A q \in Requests \ {r} : request'[q] = request[q]
        BY <1>1, <2>1, <2>2, RequestMoves
    <2>4. /\ cgroup' \in [Ids -> Cgroup_]
          /\ \A j \in Ids \ {i} : cgroup'[j] = cgroup[j]
        BY <1>1, <1>3 DEF HelperTypeOK, Empty, Cgroup_
    <2>5. undermined' \subseteq Ids /\ undermined \subseteq undermined'
        BY <1>1, <1>3 DEF HelperTypeOK
    <2>6. HelperTypeOK'
        BY <1>1, <2>3, <2>4, <2>5, MachineAlone DEF HelperTypeOK
    <2>7. \A q \in Requests : RequestFits(q)'
        BY <2>1, <2>3 DEF HelperIInv, RequestFits
    <2>8. \A q \in Requests, j \in Ids : SetsUp(q, j)' => q # r /\ SetsUp(q, j)
        BY <2>1, <2>3 DEF SetsUp
    <2>9. i \notin undermined' => \A q \in Requests : ~SetsUp(q, i)
        BY <1>3 DEF BeingSetUp, SetsUp
    <2>10. \A p \in alive : within[p] # i
        BY <1>3 DEF Removable
    <2>11. OneSetup'
        <3> SUFFICES ASSUME NEW j \in Ids \ undermined'
                     PROVE  /\ \A q, o \in Requests :
                                 SetsUp(q, j)' /\ SetsUp(o, j)' => q = o
                            /\ \A q \in Requests : Undisturbed(q, j)'
            BY DEF OneSetup
        <3>1. CASE j # i
            BY <1>1, <2>3, <2>4, <2>5, <2>8, <3>1 DEF HelperIInv, OneSetup, Undisturbed
        <3>2. CASE j = i
            BY <1>1, <2>8, <2>9, <3>2 DEF Undisturbed
        <3> QED
            BY <3>1, <3>2
    <2>12. OccupiedIsMade' /\ LimitedByOneProfile'
        BY <1>1, <2>4, <2>5, <2>10 DEF HelperIInv, OccupiedIsMade, GrantsHold,
            LimitedByOneProfile
    <2>13. PlacedStays'
        BY <1>1, <2>1, <2>3, <2>4, <2>10, HelperAssumption DEF HelperIInv, HelperTypeOK,
            GrantsHold, PlacedStays
    <2> QED
        BY <1>1, <2>6, <2>7, <2>11, <2>12, <2>13, MachineAlone DEF HelperIInv, GrantsHold
<1> QED
    BY <1>2, <1>3 DEF Cleanup

\* The daemon's own steps; a request that is gone has lost its hold on anything.
LEMMA DaemonKeeps ==
    ASSUME HelperIInv, Listen \/ Probed \/ Ends
    PROVE  HelperIInv'
<1>1. UNCHANGED <<cgroup, within, alive, undermined>> /\ HelperTypeOK
    BY DEF Listen, Probed, Ends, filesystem, HelperIInv
<1>2. CASE Listen \/ Probed
    <2>1. request' = request
        BY <1>2 DEF Listen, Probed
    <2>2. HelperTypeOK'
        <3>1. starts' \in Nat
            BY <1>1, <1>2 DEF HelperTypeOK, Listen, Probed
        <3>2. /\ delegated' \in BOOLEAN /\ probe' \in BOOLEAN /\ permitted' \in BOOLEAN
              /\ daemon' \in {"down", "probing", "serving"}
            BY <1>1, <1>2, Zenon DEF HelperTypeOK, Listen, Probed
        <3> QED
            BY <1>1, <2>1, <3>1, <3>2 DEF HelperTypeOK
    <2>3. (daemon = "probing" => delegated)' /\ PermissionIsDetected'
        <3>1. CASE Listen
            BY <1>1, <3>1 DEF HelperTypeOK, Listen, PermissionIsDetected
        <3>2. CASE Probed
            BY <1>1, <3>2 DEF HelperIInv, HelperTypeOK, Probed, PermissionIsDetected
        <3> QED
            BY <1>2, <3>1, <3>2
    <2>4. (\A r \in Requests : RequestFits(r))' /\ OneSetup' /\ OccupiedIsMade'
        BY <1>1, <2>1 DEF HelperIInv, RequestFits, OneSetup, Undisturbed, SetsUp, OccupiedIsMade
    <2>5. LimitedByOneProfile' /\ PlacedStays'
        BY <1>1, <2>1 DEF HelperIInv, GrantsHold, LimitedByOneProfile, PlacedStays
    <2> QED
        BY <2>2, <2>3, <2>4, <2>5 DEF HelperIInv, GrantsHold
<1>3. CASE Ends
    <2> DEFINE x == Over("gone", "none", NoOne)
    <2>1. x \in Request_ /\ x.step = "gone"
        BY OverIs
    <2>2. request' = [r \in Requests |-> IF Underway(r) THEN x ELSE request[r]]
        BY <1>3 DEF Ends
    <2> HIDE DEF x
    <2>3. /\ request' \in [Requests -> Request_]
          /\ \A r \in Requests : request'[r] = x \/ request'[r] = request[r]
        BY <1>1, <2>1, <2>2 DEF HelperTypeOK
    <2>4. HelperTypeOK'
        BY <1>1, <1>3, <2>3 DEF HelperTypeOK, Ends
    <2>5. (daemon = "probing" => delegated)' /\ PermissionIsDetected'
        BY <1>3 DEF Ends, PermissionIsDetected
    <2>6. \A r \in Requests : RequestFits(r)'
        BY <2>1, <2>3 DEF HelperIInv, RequestFits
    <2>7. \A r \in Requests, i \in Ids :
            SetsUp(r, i)' => SetsUp(r, i) /\ request'[r] = request[r]
        BY <2>1, <2>3 DEF SetsUp
    <2>8. OneSetup' /\ OccupiedIsMade'
        BY <1>1, <2>7 DEF HelperIInv, OneSetup, Undisturbed, OccupiedIsMade
    <2>9. LimitedByOneProfile' /\ PlacedStays'
        BY <1>1, <2>1, <2>3 DEF HelperIInv, GrantsHold, LimitedByOneProfile, PlacedStays
    <2> QED
        BY <2>4, <2>5, <2>6, <2>8, <2>9 DEF HelperIInv, GrantsHold
<1> QED
    BY <1>2, <1>3

LEMMA ProcessEndsKeeps ==
    ASSUME HelperIInv, NEW p0 \in Processes, ProcessEnds(p0)
    PROVE  HelperIInv'
<1>1. /\ UNCHANGED machine /\ UNCHANGED <<cgroup, request, undermined>> /\ HelperTypeOK
      /\ alive' \subseteq alive /\ alive' = alive \ {p0}
      /\ within' = [within EXCEPT ![p0] = NoOne]
    BY DEF ProcessEnds, HelperIInv
<1>2. /\ within' \in [Processes -> Ids \union {NoOne}]
      /\ \A p \in alive' : within'[p] = within[p]
    BY <1>1 DEF HelperTypeOK
<1>3. HelperTypeOK'
    BY <1>1, <1>2, MachineAlone DEF HelperTypeOK
<1>4. (\A r \in Requests : RequestFits(r))' /\ OneSetup' /\ OccupiedIsMade'
    BY <1>1, <1>2 DEF HelperIInv, RequestFits, OneSetup, Undisturbed, SetsUp, OccupiedIsMade
<1>5. LimitedByOneProfile' /\ PlacedStays'
    BY <1>1, <1>2 DEF HelperIInv, GrantsHold, LimitedByOneProfile, PlacedStays
<1> QED
    BY <1>1, <1>3, <1>4, <1>5, MachineAlone DEF HelperIInv, GrantsHold

LEMMA HelperNextKeeps ==
    ASSUME HelperIInv, [HelperNext]_helperVars
    PROVE  HelperIInv'
<1>1. CASE UNCHANGED helperVars
    <2>1. UNCHANGED machine /\ UNCHANGED filesystem /\ UNCHANGED request
        BY <1>1 DEF helperVars, machine, filesystem
    <2>2. HelperTypeOK' /\ (\A r \in Requests : RequestFits(r))'
        BY <2>1, MachineAlone DEF HelperIInv, HelperTypeOK, RequestFits, filesystem
    <2>3. OneSetup' /\ OccupiedIsMade'
        BY <2>1 DEF HelperIInv, OneSetup, Undisturbed, SetsUp, OccupiedIsMade, filesystem
    <2>4. LimitedByOneProfile' /\ PlacedStays'
        BY <2>1 DEF HelperIInv, GrantsHold, LimitedByOneProfile, PlacedStays, filesystem
    <2> QED
        BY <2>1, <2>2, <2>3, <2>4, MachineAlone DEF HelperIInv, GrantsHold
<1>2. CASE \E r \in Requests :
        \/ Receive(r) \/ Setup(r) \/ MakeDirectory(r) \/ WriteMemory(r) \/ WritePids(r)
        \/ EnterCgroup(r) \/ Cleanup(r) \/ PeakMemory(r) \/ OtherOperation(r)
    <2>1. PICK r \in Requests :
        \/ Receive(r) \/ Setup(r) \/ MakeDirectory(r) \/ WriteMemory(r) \/ WritePids(r)
        \/ EnterCgroup(r) \/ Cleanup(r) \/ PeakMemory(r) \/ OtherOperation(r)
        BY <1>2
    <2>2. CASE PeakMemory(r) \/ OtherOperation(r)
        BY <2>2, AnswerKeeps DEF PeakMemory, OtherOperation
    <2> QED
        BY <2>1, <2>2, ReceiveKeeps, SetupRequestKeeps, MakeKeeps, WritesKeep, EnterKeeps,
            HelperCleanupKeeps
<1> QED
    BY <1>1, <1>2, DaemonKeeps, ProcessEndsKeeps DEF HelperNext

\* Whatever requests of a sandbox interleave and fail, and whenever the daemon
\* ends: a process is under the limits of one profile, unless a cleanup once
\* pulled that sandbox's directory from under a setup; one that was said to
\* be limited is in a cgroup; and permission is doubted only over the litter of
\* a test cut short.
THEOREM LimitsAreAsGranted == HelperSpec => []GrantsHold
<1>1. HelperInit => HelperIInv
    BY HelperInitFits
<1>2. HelperIInv /\ [HelperNext]_helperVars => HelperIInv'
    BY HelperNextKeeps
<1>3. HelperIInv => GrantsHold
    BY DEF HelperIInv
<1> QED
    BY <1>1, <1>2, <1>3, PTL DEF HelperSpec

=============================================================================
