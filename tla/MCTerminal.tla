----------------------------- MODULE MCTerminal -----------------------------
(***************************************************************************)
(* Small terminals: every provider, a REPL of three lines, a TUI of two    *)
(* messages, three tabs, an overlay with every kind of trigger, two turns  *)
(* of an agent that share a cache of one result, conversations of three    *)
(* messages.                                                               *)
(***************************************************************************)
EXTENDS Terminal

CONSTANTS t1, t2

MCLetters == {"i", "v", ":"}
MCTuiReplies == {NoReply, Reply(<<"yes">>, "stop")}

MCReplNames == ProviderNames \union {"mlops"}
MCSystems == {<<>>, <<"be brief">>}
MCLines == {"hello", "and?"}
MCReplReplies ==
    {NoReply, Reply(<<>>, "stop"), Reply(<<"one">>, "stop"), Reply(<<"two">>, "stop")}

MCCliNames == {"deepseek", "openai", "anthropic", "ollama"}
MCCliReplies == {NoReply, Refusal, Garbage, Reply(<<>>, "stop"), Reply(<<"yes">>, "stop")}

MCSymbols == {"@test", "@query", "list"}
MCDirect == [s \in {"@test"} |-> <<"just", "test">>]
MCGenerated == {NoCommand, <<"ls">>, <<"rm">>}

MCCall(tool, params, json) == [tool |-> tool, params |-> params, json |-> json]
MCAnswers ==
    {[wellformed |-> TRUE, calls |-> <<>>],
     [wellformed |-> TRUE,
      calls |-> <<MCCall("echo", "x", "flat"), MCCall("echo", "y", "nested")>>],
     [wellformed |-> FALSE,
      calls |-> <<MCCall("echo", "y", "nested"), MCCall("echo", "x", "flat")>>],
     [wellformed |-> TRUE,
      calls |-> <<MCCall("echo", "x", "bad"), MCCall("find", "x", "flat")>>]}
MCResults == {[success |-> s, output |-> "o"] : s \in BOOLEAN}

MCMessages == [role : {"system", "user"}, tokens : 0 .. 3]
MCConversations == UNION {[1 .. n -> MCMessages] : n \in 0 .. 3}
MCTexts ==
    {[length |-> n, stops |-> s] : n \in {0, 3, 12, 25, 40}, s \in SUBSET {2, 11, 22}}

=============================================================================
