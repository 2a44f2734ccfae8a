------------------------------- MODULE MCChat -------------------------------
(***************************************************************************)
(* Two registered providers, one of them with two models, and one that is  *)
(* priced but not registered.  deepseek has a price, llamacpp has none.    *)
(* Requests without X-Provider share deepseek's bucket, of one token, and  *)
(* openai stands for the names that have none.                             *)
(***************************************************************************)
EXTENDS ApiServer

CONSTANTS r1, r2, deepseek, llamacpp, openai, chat, coder, local, gpt

MCRequests == {r1, r2}
MCNames == {deepseek, llamacpp, openai}
MCRegistered == {deepseek, llamacpp}

dsChat == [provider |-> deepseek, model |-> chat]
dsCoder == [provider |-> deepseek, model |-> coder]
llLocal == [provider |-> llamacpp, model |-> local]
oaGpt == [provider |-> openai, model |-> gpt]

MCKeys == {dsChat, dsCoder, llLocal, oaGpt}
MCAutoChain == <<dsChat, oaGpt, llLocal>>
MCTiers == <<[keys |-> {dsChat}, cost |-> 2], [keys |-> {dsChat, dsCoder}, cost |-> 3]>>

MCConfig ==
    [p \in MCRegistered |->
        IF p = deepseek
        THEN [failure_threshold |-> 2, success_threshold |-> 1, timeout_secs |-> 1]
        ELSE [failure_threshold |-> 1, success_threshold |-> 2, timeout_secs |-> 1]]

MCHeaders == {NoHeader, openai}
MCLimited == {deepseek}
MCBurst == [p \in MCLimited |-> 1]

=============================================================================
