---------------------------- MODULE CgroupHelper ----------------------------
(***************************************************************************)
(* The privileged daemon that makes cgroups for sandboxes: one task per    *)
(* connection, one request per connection, every file operation an await.  *)
(* The only memory is the cgroup file system, so what two requests of one  *)
(* sandbox, a failed write, or the end of the daemon leave there is what   *)
(* the next request finds.                                                 *)
(***************************************************************************)
EXTENDS Naturals, FiniteSets

CONSTANTS
    Requests,    \* connections
    Ids,         \* sandbox ids
    Processes,   \* the processes to be limited
    Profiles,    \* AGENT_PROFILES, by name
    MaxStarts,   \* bound: how often the daemon is started
    NoOne        \* no profile, no cgroup, no process

ASSUME HelperAssumption ==
    /\ NoOne \notin Ids \union Profiles \union Processes
    /\ MaxStarts \in Nat

VARIABLES
    daemon,      \* "down", "probing" or "serving"
    starts,      \* how often it was started
    delegated,   \* the kernel lets it make cgroups
    probe,       \* the directory of the permission test exists
    permitted,   \* has_permission
    cgroup,      \* cgroup[i]: made, and whose limits are in memory.max and pids.max
    within,      \* within[p]: the cgroup of a process
    alive,       \* the processes that still run
    request,     \* request[r]: what it asks, how far its task is, its answer
    undermined   \* history: cgroups removed while a setup was at work in them

helperVars == <<daemon, starts, delegated, probe, permitted, cgroup, within,
                alive, request, undermined>>

Empty == [made |-> FALSE, memory |-> NoOne, pids |-> NoOne]

Idle == [op |-> "none", id |-> NoOne, agent |-> NoOne, pid |-> NoOne,
         step |-> "idle", answer |-> "none"]

HelperInit ==
    /\ daemon = "down" /\ starts = 0
    /\ delegated \in BOOLEAN
    /\ probe = FALSE /\ permitted = FALSE
    /\ cgroup = [i \in Ids |-> Empty]
    /\ within = [p \in Processes |-> NoOne]
    /\ alive = Processes
    /\ request = [r \in Requests |-> Idle]
    /\ undermined = {}

-----------------------------------------------------------------------------
(* The daemon.                                                             *)

filesystem == <<cgroup, within, alive, undermined>>

\* Binds its socket, then tries a directory of a fixed name.
Listen ==
    /\ daemon = "down" /\ starts < MaxStarts
    /\ starts' = starts + 1
    /\ IF delegated /\ ~probe
         THEN daemon' = "probing" /\ probe' = TRUE /\ UNCHANGED permitted
         ELSE daemon' = "serving" /\ permitted' = FALSE /\ UNCHANGED probe
    /\ UNCHANGED <<delegated, request, filesystem>>

Probed ==
    /\ daemon = "probing"
    /\ daemon' = "serving" /\ permitted' = TRUE /\ probe' = FALSE
    /\ UNCHANGED <<starts, delegated, request, filesystem>>

\* The task is over; what it placed is kept for the invariants.
Over(step, a, p) == [Idle EXCEPT !.step = step, !.answer = a, !.pid = p]

Underway(r) == request[r].step \notin {"idle", "answered", "gone"}

\* accept failed, or the daemon was killed: its tasks end where they are.
Ends ==
    /\ daemon # "down"
    /\ daemon' = "down"
    /\ request' = [r \in Requests |->
            IF Underway(r) THEN Over("gone", "none", NoOne) ELSE request[r]]
    /\ UNCHANGED <<starts, delegated, probe, permitted, filesystem>>

-----------------------------------------------------------------------------
(* One request.                                                            *)

machine == <<daemon, starts, delegated, probe, permitted>>

Asks(op, i, agent, p) ==
    [op |-> op, id |-> i, agent |-> agent, pid |-> p, step |-> "received", answer |-> "none"]

\* A line that is no request ends the task without an answer.
Receive(r) ==
    /\ daemon = "serving" /\ request[r].step = "idle"
    /\ \/ request' = [request EXCEPT ![r] = Over("gone", "none", NoOne)]
       \/ \E i \in Ids, op \in {"cleanup", "peak_memory", "other"} :
            request' = [request EXCEPT ![r] = Asks(op, i, NoOne, NoOne)]
       \/ \E i \in Ids, agent \in Profiles \union {NoOne}, p \in Processes :
            request' = [request EXCEPT ![r] = Asks("setup", i, agent, p)]
    /\ UNCHANGED <<machine, filesystem>>

Doing(r, step) == daemon = "serving" /\ request[r].step = step

Answer(r, a) == request' = [request EXCEPT ![r] = Over("answered", a, NoOne)]

Then(r, step) == request' = [request EXCEPT ![r].step = step]

Setup(r) ==
    /\ Doing(r, "received") /\ request[r].op = "setup"
    /\ CASE ~permitted -> Answer(r, "unavailable")
         [] permitted /\ request[r].agent \notin Profiles -> Answer(r, "error")
         [] OTHER -> Then(r, "directory")
    /\ UNCHANGED <<machine, filesystem>>

\* Mutant: create_dir_all is content with a directory that is there.
MakeShared(r) ==
    /\ Doing(r, "directory")
    /\ cgroup' = [cgroup EXCEPT ![request[r].id].made = TRUE]
    /\ Then(r, "memory")
    /\ UNCHANGED <<machine, within, alive, undermined>>

\* create_dir_all of the subtree, create_dir of the cgroup: one that is there
\* is an error.
MakeDirectory(r) ==
    /\ Doing(r, "directory")
    /\ \/ /\ ~cgroup[request[r].id].made
          /\ cgroup' = [cgroup EXCEPT ![request[r].id].made = TRUE]
          /\ Then(r, "memory")
       \/ Answer(r, "error") /\ UNCHANGED cgroup
    /\ UNCHANGED <<machine, within, alive, undermined>>

\* A write fails when the directory is gone, and may fail anyhow.
WriteMemory(r) ==
    /\ Doing(r, "memory")
    /\ \/ /\ cgroup[request[r].id].made
          /\ cgroup' = [cgroup EXCEPT ![request[r].id].memory = request[r].agent]
          /\ Then(r, "pids")
       \/ Answer(r, "error") /\ UNCHANGED cgroup
    /\ UNCHANGED <<machine, within, alive, undermined>>

WritePids(r) ==
    /\ Doing(r, "pids")
    /\ \/ /\ cgroup[request[r].id].made
          /\ cgroup' = [cgroup EXCEPT ![request[r].id].pids = request[r].agent]
          /\ Then(r, "procs")
       \/ Answer(r, "error") /\ UNCHANGED cgroup
    /\ UNCHANGED <<machine, within, alive, undermined>>

EnterCgroup(r) ==
    /\ Doing(r, "procs")
    /\ \/ /\ cgroup[request[r].id].made /\ request[r].pid \in alive
          /\ within' = [within EXCEPT ![request[r].pid] = request[r].id]
          /\ request' = [request EXCEPT ![r] = Over("answered", "ok", request[r].pid)]
       \/ Answer(r, "error") /\ UNCHANGED within
    /\ UNCHANGED <<machine, cgroup, alive, undermined>>

\* remove_dir succeeds on a cgroup without processes.
Removable(i) == cgroup[i].made /\ \A p \in alive : within[p] # i

BeingSetUp(i) ==
    \E r \in Requests : request[r].id = i /\ request[r].step \in {"memory", "pids", "procs"}

\* The answer is ok whether the directory went or not.
Cleanup(r) ==
    /\ Doing(r, "received") /\ request[r].op = "cleanup"
    /\ Answer(r, "ok")
    /\ LET i == request[r].id IN
       IF permitted /\ Removable(i)
         THEN /\ cgroup' = [cgroup EXCEPT ![i] = Empty]
              /\ undermined' = IF BeingSetUp(i) THEN undermined \union {i} ELSE undermined
         ELSE UNCHANGED <<cgroup, undermined>>
    /\ UNCHANGED <<machine, within, alive>>

PeakMemory(r) ==
    /\ Doing(r, "received") /\ request[r].op = "peak_memory"
    /\ Answer(r, "ok")
    /\ UNCHANGED <<machine, filesystem>>

OtherOperation(r) ==
    /\ Doing(r, "received") /\ request[r].op = "other"
    /\ Answer(r, "error")
    /\ UNCHANGED <<machine, filesystem>>

ProcessEnds(p) ==
    /\ p \in alive
    /\ alive' = alive \ {p}
    /\ within' = [within EXCEPT ![p] = NoOne]
    /\ UNCHANGED <<machine, cgroup, request, undermined>>

HelperNext ==
    \/ Listen
    \/ Probed
    \/ Ends
    \/ \E r \in Requests :
        \/ Receive(r)
        \/ Setup(r)
        \/ MakeDirectory(r)
        \/ WriteMemory(r)
        \/ WritePids(r)
        \/ EnterCgroup(r)
        \/ Cleanup(r)
        \/ PeakMemory(r)
        \/ OtherOperation(r)
    \/ \E p \in Processes : ProcessEnds(p)

-----------------------------------------------------------------------------

\* No process is in a cgroup that lacks a limit or mixes those of two
\* profiles, however the requests of a sandbox interleave and fail and the
\* daemon ends, except where a cleanup removed the directory under a setup
\* that goes on to write into its successor.
LimitedByOneProfile ==
    \A p \in alive :
        within[p] \in Ids \ undermined =>
            /\ cgroup[within[p]].memory \in Profiles
            /\ cgroup[within[p]].pids = cgroup[within[p]].memory

\* A process somebody was told is limited is in a cgroup until it ends.
PlacedStays ==
    \A r \in Requests :
        request[r].step = "answered" /\ request[r].pid \in alive =>
            within[request[r].pid] \in Ids /\ cgroup[within[request[r].pid]].made

\* The daemon does without cgroups it may make only when an earlier one died
\* between the two steps of its permission test, which nothing tidies up.
PermissionIsDetected ==
    daemon = "serving" /\ permitted # delegated => delegated /\ probe

\* What the answers and the test of the cgroup daemon say of the file system.
GrantsHold == LimitedByOneProfile /\ PlacedStays /\ PermissionIsDetected
=============================================================================
