------------------------------- MODULE MCTasks ------------------------------
(***************************************************************************)
(* Three calls on two tasks that share a shard.                            *)
(***************************************************************************)
EXTENDS TaskProperties

CONSTANTS t1, t2

MCIds == {t1, t2}
MCCalls == 1 .. 3
MCShard == [id \in MCIds |-> t1]
MCSubmitted == {"Pending"}
MCAsked == {-1, 2}

=============================================================================
