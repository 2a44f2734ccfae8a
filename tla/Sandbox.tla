------------------------------- MODULE Sandbox ------------------------------
(***************************************************************************)
(* Sandbox::execute_command and execute_with_input: a cgroup is made, the  *)
(* program is started through `unshare -p -f`, its process is put in the   *)
(* cgroup, fed, awaited up to the timeout, and the cgroup is removed.      *)
(*                                                                         *)
(* An execution has two processes: the launcher (unshare), whose pid is    *)
(* known, and the program it forks, which inherits the launcher's cgroup   *)
(* of that moment and outlives a launcher that is killed.  The directory   *)
(* is named for the Sandbox, so executions of one Sandbox share it.        *)
(***************************************************************************)
EXTENDS Naturals, FiniteSets

CONSTANTS
    Executions,   \* calls of execute_command or execute_with_input
    Sandboxes,    \* Sandbox values, by sandbox_id
    Config        \* the configuration of each

Limits == {"none", "zero", "some"}

Valid(c) == c.max_memory # "zero" /\ c.max_cpu_time # "zero"

\* Sandbox::new makes no Sandbox with a limit of zero.
ASSUME SandboxAssumption ==
    /\ Config \in [Sandboxes -> [max_memory : Limits, max_cpu_time : Limits]]
    /\ \A s \in Sandboxes : Valid(Config[s])

VARIABLES
    directory,    \* the Sandboxes whose cgroup directory exists
    execution,    \* execution[e]: how far the call is and what it returned
    process       \* process[e]: the launcher, the program, which are in the cgroup

sandboxVars == <<directory, execution, process>>

NoCall == [sandbox |-> "none", input |-> "none", phase |-> "idle",
           cgroup |-> FALSE, result |-> "none"]

NoProcess == [launcher |-> "none", program |-> "none", inside |-> {}]

SandboxInit ==
    /\ directory = {}
    /\ execution = [e \in Executions |-> NoCall]
    /\ process = [e \in Executions |-> NoProcess]

-----------------------------------------------------------------------------
(* A call.                                                                 *)

At(e, phase) == execution[e].phase = phase

To(e, phase) == execution' = [execution EXCEPT ![e].phase = phase]

Of(e) == execution[e].sandbox

\* execute_command has no input.  Input that fits the pipe is written at
\* once; more waits for a reader.
Inputs == {"small", "large"}

Call(e) ==
    /\ At(e, "idle")
    /\ \E s \in Sandboxes, input \in {"none"} \union Inputs :
        execution' = [execution EXCEPT ![e] =
            [NoCall EXCEPT !.sandbox = s, !.input = input, !.phase = "setup"]]
    /\ UNCHANGED <<directory, process>>

\* Without a cgroup file system or the right to use it the call goes on
\* without limits, and so it does with a limit that cannot be written;
\* create_dir_all is content with a directory that is there.
SetupDirectory(e) ==
    /\ At(e, "setup")
    /\ \/ To(e, "spawn") /\ UNCHANGED directory
       \/ /\ directory' = directory \union {Of(e)}
          /\ execution' = [execution EXCEPT ![e].cgroup = TRUE, ![e].phase = "spawn"]
    /\ UNCHANGED process

Returned(e, result) ==
    [NoCall EXCEPT !.sandbox = Of(e), !.phase = "returned", !.result = result]

Fail(e) == execution' = [execution EXCEPT ![e] = Returned(e, "error")]

\* An error here leaves the directory.
Spawn(e) ==
    /\ At(e, "spawn")
    /\ \/ Fail(e) /\ UNCHANGED process
       \/ /\ process' = [process EXCEPT ![e].launcher = "started"]
          /\ To(e, IF execution[e].cgroup THEN "add" ELSE "feed")
    /\ UNCHANGED directory

\* kill_on_drop: the launcher gets the signal, the program it forked does not.
Killed(e) ==
    IF process[e].launcher \in {"started", "forked"}
        THEN [process EXCEPT ![e].launcher = "dying"]
        ELSE process

\* Moves the launcher alone; one that has ended is not moved, and no error.
AddProcess(e) ==
    /\ At(e, "add")
    /\ \/ Fail(e) /\ process' = Killed(e)
       \/ /\ Of(e) \in directory
          /\ process' = [process EXCEPT ![e].inside =
                IF process[e].launcher = "dead" THEN @ ELSE @ \union {"launcher"}]
          /\ To(e, "feed")
    /\ UNCHANGED directory

Ended(e) == process[e].launcher = "dead" /\ process[e].program # "running"

\* write_all is under no timeout; it fails when nobody holds the other end.
Feed(e) ==
    /\ At(e, "feed")
    /\ \/ /\ \/ execution[e].input \in {"none", "taken"}
             \/ execution[e].input = "small" /\ ~Ended(e)
          /\ execution' = [execution EXCEPT ![e].phase = "wait", ![e].input = "none"]
       \/ execution[e].input \in Inputs /\ Ended(e) /\ Fail(e)
    /\ UNCHANGED <<directory, process>>

Result(e, result) ==
    execution' = [execution EXCEPT ![e] =
        IF @.cgroup THEN [@ EXCEPT !.result = result, !.phase = "peak"]
                    ELSE Returned(e, result)]

\* Mutant: a call whose program has ended returns its code at once.
ReturnsAtOnce(e) ==
    /\ At(e, "wait") /\ Ended(e)
    /\ execution' = [execution EXCEPT ![e] = Returned(e, "exit")]
    /\ UNCHANGED <<directory, process>>

\* Both ends of the output are closed: launcher and program are gone.
Completes(e) ==
    /\ At(e, "wait") /\ Ended(e)
    /\ Result(e, "exit")
    /\ UNCHANGED <<directory, process>>

\* The pipes or the process could not be read: not to be relied on.
WaitFails(e) ==
    /\ At(e, "wait")
    /\ Result(e, "lost") /\ process' = Killed(e)
    /\ UNCHANGED directory

\* Mutant: the timeout is the configuration's, and none where it has none.
TimesOutIfLimited(e) ==
    /\ At(e, "wait") /\ Config[Of(e)].max_cpu_time = "some"
    /\ Result(e, "timed_out") /\ process' = Killed(e)
    /\ UNCHANGED directory

\* Thirty seconds where the configuration has no limit.
TimesOut(e) ==
    /\ At(e, "wait")
    /\ Result(e, "timed_out") /\ process' = Killed(e)
    /\ UNCHANGED directory

ReadPeakMemory(e) ==
    /\ At(e, "peak")
    /\ To(e, "cleanup")
    /\ UNCHANGED <<directory, process>>

Inside(s) == {e \in Executions : Of(e) = s /\ process[e].inside # {}}

\* remove_dir fails while a process is in the cgroup; the failure is logged.
CleanupDirectory(e) ==
    /\ At(e, "cleanup")
    /\ directory' = IF Inside(Of(e)) = {} THEN directory \ {Of(e)} ELSE directory
    /\ execution' = [execution EXCEPT ![e] = Returned(e, @.result)]
    /\ UNCHANGED process

Step(e) ==
    \/ SetupDirectory(e)
    \/ Spawn(e)
    \/ AddProcess(e)
    \/ Feed(e)
    \/ Completes(e)
    \/ TimesOut(e)
    \/ ReadPeakMemory(e)
    \/ CleanupDirectory(e)

-----------------------------------------------------------------------------
(* The processes.                                                          *)

\* unshare enters its namespaces and forks, or it cannot.
Fork(e) ==
    /\ process[e].launcher = "started"
    /\ process' = [process EXCEPT ![e].launcher = "forked", ![e].program = "running",
            ![e].inside = IF @ = {} THEN {} ELSE {"launcher", "program"}]
    /\ UNCHANGED <<directory, execution>>

CannotUnshare(e) ==
    /\ process[e].launcher = "started"
    /\ process' = [process EXCEPT ![e].launcher = "dead", ![e].inside = @ \ {"launcher"}]
    /\ UNCHANGED <<directory, execution>>

ReadsInput(e) ==
    /\ process[e].program = "running" /\ At(e, "feed") /\ execution[e].input \in Inputs
    /\ execution' = [execution EXCEPT ![e].input = "taken"]
    /\ UNCHANGED <<directory, process>>

\* The program is process 1 of its namespace: what it started ends with it.
ProgramEnds(e) ==
    /\ process[e].program = "running"
    /\ process' = [process EXCEPT ![e].program = "dead", ![e].inside = @ \ {"program"}]
    /\ UNCHANGED <<directory, execution>>

LauncherEnds(e) ==
    /\ \/ process[e].launcher = "forked" /\ process[e].program = "dead"
       \/ process[e].launcher = "dying"
    /\ process' = [process EXCEPT ![e].launcher = "dead", ![e].inside = @ \ {"launcher"}]
    /\ UNCHANGED <<directory, execution>>

SandboxNext ==
    \/ \E e \in Executions :
        \/ Call(e)
        \/ Step(e)
        \/ WaitFails(e)
        \/ Fork(e)
        \/ CannotUnshare(e)
        \/ ReadsInput(e)
        \/ ProgramEnds(e)
        \/ LauncherEnds(e)

-----------------------------------------------------------------------------

Running(e) == ~At(e, "idle") /\ ~At(e, "returned")

\* A cgroup nobody uses any more is there only if a call on its Sandbox failed
\* half way, lost its process or timed out: calls that ended well, those that
\* shared the directory included, leave nothing.
OnlyFailuresLeaveDirectories ==
    \A s \in Sandboxes :
        s \in directory /\ (\A e \in Executions : Of(e) = s => ~Running(e))
            => \E e \in Executions : Of(e) = s /\ execution[e].result # "exit"

\* A program is still running after its call returned only if the call failed
\* or timed out: an exit code is the code of a program that has ended.
ExitMeansEnded ==
    \A e \in Executions :
        At(e, "returned") /\ execution[e].result = "exit" => Ended(e)

\* A cgroup is never removed around a running process, although the calls on
\* one Sandbox name the same directory and each removes it when it is done.
NeverRemovedAround ==
    \A s \in Sandboxes : Inside(s) # {} => s \in directory

SandboxAccounts ==
    OnlyFailuresLeaveDirectories /\ ExitMeansEnded /\ NeverRemovedAround

\* The call waits for a program that does not read its input.
Stuck(e) == At(e, "feed") /\ execution[e].input = "large" /\ ~Ended(e)

\* Every call returns, whatever its program does, except one that has more
\* input than the pipe takes for a program that never reads it: the timeout
\* starts after the input is written.
CallsReturn ==
    \A e \in Executions : []<>~Stuck(e) => (Running(e) ~> At(e, "returned"))
=============================================================================
