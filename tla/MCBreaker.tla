------------------------------ MODULE MCBreaker -----------------------------
(***************************************************************************)
(* Two providers with different configurations and a name without a        *)
(* provider.  Each threshold of 1, 2 and 3 and a wait of 1 and 2 occurs.   *)
(***************************************************************************)
EXTENDS BreakerHistory

CONSTANTS deepseek, llamacpp, unknown

MCNames == {deepseek, llamacpp, unknown}
MCRegistered == {deepseek, llamacpp}

MCConfig ==
    [p \in MCRegistered |->
        IF p = deepseek
        THEN [failure_threshold |-> 3, success_threshold |-> 2, timeout_secs |-> 2]
        ELSE [failure_threshold |-> 1, success_threshold |-> 1, timeout_secs |-> 1]]

=============================================================================
