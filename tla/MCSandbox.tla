------------------------------ MODULE MCSandbox ------------------------------
(***************************************************************************)
(* TLC instance: two calls on up to two Sandboxes, or three requests to    *)
(* the cgroup daemon about one sandbox, two processes and two profiles.    *)
(* The two write to different directories and share nothing, so a          *)
(* behaviour is of one or of the other.                                    *)
(***************************************************************************)
EXTENDS Sandbox, CgroupHelper

MCConfig ==
    [s1 |-> [max_memory |-> "some", max_cpu_time |-> "some"],
     s2 |-> [max_memory |-> "none", max_cpu_time |-> "none"]]

VARIABLE part

MCInit == SandboxInit /\ HelperInit /\ part \in {"sandbox", "helper"}

MCNext ==
    /\ UNCHANGED part
    /\ \/ part = "sandbox" /\ SandboxNext /\ UNCHANGED helperVars
       \/ part = "helper" /\ HelperNext /\ UNCHANGED sandboxVars

vars == <<sandboxVars, helperVars, part>>

\* The runtime polls a call that can go on, and a timer fires.
MCSpec ==
    /\ MCInit /\ [][MCNext]_vars
    /\ \A e \in Executions :
        WF_vars(part = "sandbox" /\ Step(e) /\ UNCHANGED <<helperVars, part>>)
=============================================================================
