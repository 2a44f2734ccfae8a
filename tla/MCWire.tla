------------------------------- MODULE MCWire -------------------------------
(***************************************************************************)
(* One request over the eight providers, whose breakers open at the first  *)
(* failure; "auto" stands for three of them.                               *)
(***************************************************************************)
EXTENDS WireProperties

CONSTANT r1

MCKey(p) == [provider |-> p, model |-> "m"]
MCProviders == ProviderNames
MCKeys == {MCKey(p) : p \in MCProviders}
MCAutoChain == <<MCKey("llamacpp"), MCKey("deepseek"), MCKey("anthropic")>>
MCTiers == <<[keys |-> {MCKey("anthropic")}, cost |-> 2]>>
MCConfig ==
    [p \in MCProviders |->
        [failure_threshold |-> 1, success_threshold |-> 1, timeout_secs |-> 1]]

MCChats ==
    {[in_range |-> TRUE,
      messages |-> <<[role |-> "system", text |-> "be brief"],
                     [role |-> "user", text |-> "hello"],
                     [role |-> "assistant", text |-> "hi"],
                     [role |-> "tool", text |-> "42"]>>],
     [in_range |-> FALSE, messages |-> <<[role |-> "user", text |-> "hello"],
                                          [role |-> "function", text |-> "42"]>>]}

MCReplies ==
    {NoReply, Garbage, Reply(<<"yes", "no">>, "stop"), Reply(<<"ye">>, "length"), Reply(<<>>, "length")}

MCSays == <<Chunk(<<"he", Lead, Cont>>, NoFinish), KeepAlive, Usage, Chunk(<<>>, "length"), Done>>
MCBroken == <<Chunk(<<"he">>, NoFinish), Failure, Chunk(<<"llo">>, "stop"), Done>>
MCEndless == <<Chunk(<<"he">>, NoFinish), Chunk(<<"llo">>, "tool_calls")>>

MCBodies ==
    {Body(e, n) : e \in {MCSays, MCBroken, MCEndless}, n \in {<<LF>>, <<CR, LF>>}}

=============================================================================
