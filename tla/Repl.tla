-------------------------------- MODULE Repl --------------------------------
(***************************************************************************)
(* securellm repl: a conversation in a terminal.  A line is read, sent     *)
(* with all that was said before, and its answer printed.                  *)
(***************************************************************************)
EXTENDS ProviderClients

CONSTANTS
    ReplNames,    \* providers a user may name
    ReplSystems,  \* system prompts given with --system; <<>> is none
    ReplLines,    \* what a user may type
    ReplReplies,  \* what upstreams reply
    MaxLines      \* bound: lines of a session

ASSUME ReplAssumption == \A reply \in ReplReplies : reply.kind \in ReplyKinds

VARIABLES
    repl,      \* the session: pc, provider, system, and history
    upstream,  \* what the last request sent the provider
    dialog     \* history: the lines typed, each with what came of it

replVars == <<repl, upstream, dialog>>

Waiting == [kind |-> "waiting"]

ReplInit ==
    /\ repl = [pc |-> "configure", provider |-> "none", system |-> <<>>, history |-> <<>>]
    /\ upstream = NothingSent
    /\ dialog = <<>>

\* The provider is built; a name the factory does not know ends the program.
Configure(name, system) ==
    /\ repl.pc = "configure"
    /\ repl' = IF ~CanBuild(name) THEN [repl EXCEPT !.pc = "over"]
               ELSE [pc |-> "prompt", provider |-> Built(name), system |-> system,
                     history |-> IF system = <<>> THEN <<>>
                                 ELSE <<Said("system", system[1])>>]
    /\ UNCHANGED <<upstream, dialog>>

\* read_line, for a line that is not blank.  (A blank line, and the end of the
\* input as well, is answered with the next prompt.)
ReadLine(line) ==
    /\ repl.pc = "prompt" /\ line # "exit" /\ Len(dialog) < MaxLines
    /\ repl' = [repl EXCEPT !.pc = "thinking", !.history = Append(@, Said("user", line))]
    /\ dialog' = Append(dialog, [line |-> line, reply |-> Waiting])
    /\ UNCHANGED upstream

Exit ==
    /\ repl.pc = "prompt"
    /\ repl' = [repl EXCEPT !.pc = "over"]
    /\ UNCHANGED <<upstream, dialog>>

ReplRequest(history) == [messages |-> history, system |-> <<>>, in_range |-> TRUE]

\* Mutant: after an error the history loses its oldest entry.
RespondsForgetful(reply) ==
    /\ repl.pc = "thinking"
    /\ \E x \in {SendRequest(repl.provider, ReplRequest(repl.history), reply)} :
        /\ upstream' = x.wire
        /\ repl' = [repl EXCEPT !.pc = "prompt",
                        !.history =
                            IF ~x.result.ok \/ ~HasText(x.result) THEN Tail(@)
                            ELSE Append(@, Said("assistant", ResponseText(x.result)))]
    /\ dialog' = [dialog EXCEPT ![Len(dialog)].reply = reply]

\* send_request returns; the text is printed and joins the history.  After an
\* error the line stays in the history without an answer.
Responds(reply) ==
    /\ repl.pc = "thinking"
    /\ \E x \in {SendRequest(repl.provider, ReplRequest(repl.history), reply)} :
        /\ upstream' = x.wire
        /\ repl' = [repl EXCEPT !.pc = "prompt",
                        !.history =
                            IF ~x.result.ok THEN @
                            ELSE Append(@, Said("assistant",
                                    IF HasText(x.result) THEN ResponseText(x.result)
                                    ELSE "Error getting text"))]
    /\ dialog' = [dialog EXCEPT ![Len(dialog)].reply = reply]

ReplNext ==
    \/ \E name \in ReplNames, system \in ReplSystems : Configure(name, system)
    \/ \E line \in ReplLines : ReadLine(line)
    \/ Exit
    \/ \E reply \in ReplReplies : Responds(reply)

-----------------------------------------------------------------------------

TurnsOf(roles) ==
    LET kept == OfRole(upstream.turns, roles) IN [i \in DOMAIN kept |-> kept[i].text]

\* The words of the answers that came before the last line.
EarlierAnswers ==
    LET kept == Chosen(dialog, {i \in 1 .. Len(dialog) - 1 : dialog[i].reply.kind = "answer"})
    IN [i \in DOMAIN kept |-> FirstOrEmpty(kept[i].reply.texts)]

\* No provider has answered without a text so far.
HadTexts ==
    \A i \in DOMAIN dialog :
        dialog[i].reply.kind = "answer" => dialog[i].reply.texts # <<>>

LinesAt(places) ==
    LET kept == Chosen(dialog, places) IN [i \in DOMAIN kept |-> <<kept[i].line>>]

\* The lines that got a text for an answer.
AnsweredLines ==
    {i \in DOMAIN dialog : dialog[i].reply.kind = "answer" /\ dialog[i].reply.texts # <<>>}

\* With every line the model is sent the lines it has answered before, each
\* once and in their order, then this one, and every answer it gave as its
\* own; an error in between loses none of them.  (What becomes of the lines
\* whose sending failed is FailedLinesForgotten's.)  Groq and NVIDIA, whose
\* answers are lost, are sent other answers, and so may the others be after an
\* answer that had no text.
ReplRemembers ==
    repl.pc = "prompt" /\ dialog # <<>> =>
        /\ \E places \in SUBSET DOMAIN dialog :
            /\ AnsweredLines \union {Len(dialog)} \subseteq places
            /\ TurnsOf({"user"}) = LinesAt(places)
        /\ repl.provider \notin {"groq", "nvidia"} /\ HadTexts
              => TurnsOf({"assistant", "model"}) = EarlierAnswers

\* repl.rs:148: "Don't add failed message to history": what the history keeps
\* of the user's lines has its answer after it.  Violated: see the README of
\* this directory.
FailedLinesForgotten ==
    repl.pc = "prompt" =>
        \A i \in DOMAIN repl.history :
            repl.history[i].role = "user" =>
                i < Len(repl.history) /\ repl.history[i + 1].role = "assistant"

=============================================================================
