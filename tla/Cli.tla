-------------------------------- MODULE Cli ---------------------------------
(***************************************************************************)
(* The commands of securellm that ask one provider once: chat, health,     *)
(* models and info.                                                        *)
(***************************************************************************)
EXTENDS ProviderClients

CONSTANTS
    CliNames,     \* the providers clap lets through; "ollama" is one of them
    CliSystems,   \* what --system may give; <<>> is nothing
    CliReplies    \* what upstreams reply to chat

\* The value_parser of every command that names a provider.
ASSUME CliAssumption ==
    /\ CliNames \subseteq {"deepseek", "openai", "anthropic", "ollama"}
    /\ \A reply \in CliReplies : reply.kind \in ReplyKinds

VARIABLES cli     \* the command: pc, what, provider, key, and what it did

cliVars == <<cli>>

CliCommands == {"chat", "health", "models", "info"}
Fresh ==
    [pc |-> "parse", what |-> "none", provider |-> "none", key |-> "", system |-> <<>>,
     wire |-> NothingSent, found |-> "none", printed |-> "nothing"]

CliInit == cli = Fresh

\* Cli::parse; info takes no key.
ParseCommand(what, name, key, system) ==
    /\ cli.pc = "parse" /\ (what = "info" => key = "") /\ (what # "chat" => system = <<>>)
    /\ cli' = [cli EXCEPT !.pc = "key", !.what = what, !.provider = name, !.key = key,
                          !.system = system]

\* resolve_api_key, or the dummy key of info; then build_provider.
Prepare(own, generic) ==
    LET key == IF cli.what = "info" THEN "dummy"
               ELSE ApiKey(cli.provider, cli.key, own, generic) IN
    /\ cli.pc = "key"
    /\ cli' = IF key # "" /\ CanBuild(cli.provider)
              THEN [cli EXCEPT !.pc = "ask", !.key = key, !.provider = Built(@)]
              ELSE [cli EXCEPT !.pc = "failed", !.key = key]

\* handle_chat passes the prompt in the request's system field.
CliRequest ==
    [messages |-> <<Said("user", "message")>>, system |-> cli.system, in_range |-> TRUE]

Chat(reply) ==
    /\ cli.pc = "ask" /\ cli.what = "chat"
    /\ \E x \in {SendRequest(cli.provider, CliRequest, reply)} :
        cli' = IF x.result.ok /\ HasText(x.result)
               THEN [cli EXCEPT !.pc = "done", !.wire = x.wire, !.found = reply,
                                !.printed = ResponseText(x.result)]
               ELSE [cli EXCEPT !.pc = "failed", !.wire = x.wire, !.found = reply]

\* A provider that is ill ends the command with success all the same.
Health(probe) ==
    /\ cli.pc = "ask" /\ cli.what = "health"
    /\ cli' = [cli EXCEPT !.pc = "done", !.found = probe,
                          !.printed = ServicesOf(cli.provider, probe, <<>>).health]

Models(probe, listed) ==
    /\ cli.pc = "ask" /\ cli.what = "models"
    /\ LET models == ServicesOf(cli.provider, probe, listed).models IN
       cli' = IF models = Unparsable
              THEN [cli EXCEPT !.pc = "failed", !.found = probe]
              ELSE [cli EXCEPT !.pc = "done", !.found = probe, !.printed = models]

Info ==
    /\ cli.pc = "ask" /\ cli.what = "info"
    /\ cli' = [cli EXCEPT !.pc = "done",
            !.printed = ServicesOf(cli.provider, "none", <<>>).capabilities]

CliNext ==
    \/ \E what \in CliCommands, name \in CliNames, key \in {"", "option"}, s \in CliSystems :
        ParseCommand(what, name, key, s)
    \/ \E own \in {"", "own"}, generic \in {"", "generic"} : Prepare(own, generic)
    \/ \E reply \in CliReplies : Chat(reply)
    \/ \E probe \in Probes :
        \/ Health(probe)
        \/ \E listed \in {<<>>, <<"local">>, Unparsable} : Models(probe, listed)
    \/ Info

-----------------------------------------------------------------------------

\* A command that succeeds has asked its provider: chat prints what the model
\* answered and nothing else, and health says Healthy or Degraded only of a
\* provider that responded.
CliTells ==
    cli.pc = "done" =>
        /\ cli.what = "chat" =>
            /\ cli.found.kind = "answer"
            /\ cli.printed = FirstOrEmpty(cli.found.texts)[1]
        /\ cli.what = "health" /\ cli.found = "none" => cli.printed = "Unhealthy"
        /\ cli.what = "health" /\ cli.found # "2xx" => cli.printed # "Healthy"

\* main.rs: "/// System prompt", of the option --system, and `info` prints
\* "System Prompts: Yes" of every provider.  With openai and deepseek the
\* prompt is dropped.
SystemPromptArrives ==
    cli.pc = "done" /\ cli.what = "chat" /\ cli.system # <<>> =>
        \/ cli.wire.system = cli.system
        \/ \E i \in DOMAIN cli.wire.turns :
            cli.wire.turns[i] = [role |-> "system", text |-> cli.system]

=============================================================================
