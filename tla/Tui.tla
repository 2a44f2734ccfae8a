-------------------------------- MODULE Tui ---------------------------------
(***************************************************************************)
(* securellm --tui: one loop that draws, takes a key, handles it to the    *)
(* end and updates the panels.  A key means what the input mode says.      *)
(*                                                                         *)
(* The message of a user is handled with the key that sends it: nothing    *)
(* else happens until llama.cpp has answered, and its client has no        *)
(* timeout.                                                                *)
(***************************************************************************)
EXTENDS ProviderClients

CONSTANTS
    TuiLetters,   \* characters a user types, commands of Normal mode included
    TuiReplies,   \* what llama.cpp replies
    MaxBuffer,    \* bound: length of the input buffer
    MaxPanel      \* bound: messages in the chat panel

TuiKeys == TuiLetters \union {"Tab", "Esc", "Enter", "Backspace"}

VARIABLES
    tui,     \* pc, input_mode, input_buffer, focused_panel, agent_mode
    panel,   \* the messages of the chat panel, [role, text, about]
    asked    \* what llama.cpp was last sent, and for what

tuiVars == <<tui, panel, asked>>

\* about: for an answer, the message it answers; <<>> for a notice.
Shown(role, text, about) == [role |-> role, text |-> text, about |-> about]
Notice(text) == Shown("system", text, <<>>)

TuiInit ==
    /\ tui = [pc |-> "loop", mode |-> "Normal", input |-> <<>>, focus |-> "Chat",
              agent |-> FALSE]
    /\ panel = <<Notice("Welcome")>>
    /\ asked = NothingSent

InMode(mode) == tui.pc = "loop" /\ tui.mode = mode

\* Ctrl-C and Ctrl-Q, in every mode.  Any other key with Ctrl is the key.
Quit ==
    /\ tui.pc = "loop"
    /\ tui' = [tui EXCEPT !.pc = "over"]
    /\ UNCHANGED <<panel, asked>>

NextMode(key) ==
    CASE key = "i" -> "Insert" [] key = ":" -> "Command" [] key = "v" -> "Voice"

EnterMode(key) ==
    /\ InMode("Normal") /\ key \in {"i", ":", "v"}
    /\ tui' = [tui EXCEPT !.mode = NextMode(key)]
    /\ UNCHANGED <<panel, asked>>

\* Command mode is not among them: its Esc does nothing, and it is never left.
LeaveMode(key) ==
    /\ \/ InMode("Insert") /\ key = "Esc"
       \/ InMode("Voice") /\ key \in {"v", "Esc"}
    /\ tui' = [tui EXCEPT !.mode = "Normal"]
    /\ UNCHANGED <<panel, asked>>

ToggleAgentMode ==
    /\ InMode("Normal") /\ Len(panel) < MaxPanel
    /\ tui' = [tui EXCEPT !.agent = ~@]
    /\ panel' = Append(panel, Notice(IF tui.agent THEN "disabled" ELSE "enabled"))
    /\ UNCHANGED asked

NextPanel(focus) ==
    CASE focus = "Chat" -> "Tasks"    [] focus = "Tasks" -> "Tools"
      [] focus = "Tools" -> "Context" [] focus = "Context" -> "Logs"
      [] focus = "Logs" -> "Chat"

CycleFocus ==
    /\ InMode("Normal")
    /\ tui' = [tui EXCEPT !.focus = NextPanel(@)]
    /\ UNCHANGED <<panel, asked>>

TypeLetter(letter) ==
    /\ InMode("Insert") /\ letter \in TuiLetters /\ Len(tui.input) < MaxBuffer
    /\ tui' = [tui EXCEPT !.input = Append(@, letter)]
    /\ UNCHANGED <<panel, asked>>

EraseLetter ==
    /\ InMode("Insert") /\ tui.input # <<>>
    /\ tui' = [tui EXCEPT !.input = SubSeq(@, 1, Len(@) - 1)]
    /\ UNCHANGED <<panel, asked>>

\* send_message, for an input that is not empty.
SendMessage ==
    /\ InMode("Insert") /\ tui.input # <<>> /\ Len(panel) + 1 < MaxPanel
    /\ panel' = Append(panel, Shown("user", tui.input, tui.input))
    /\ tui' = [tui EXCEPT !.pc = "sending", !.input = <<>>]
    /\ UNCHANGED asked

Message == panel[Len(panel)].text
TuiRequest ==
    [messages |-> <<Said("system", "instructions"), Said("user", Message)>>,
     system |-> <<>>, in_range |-> TRUE]

\* Mutant: an error is logged and not shown.
LlamaAnswersQuietly(reply) ==
    /\ tui.pc = "sending"
    /\ \E x \in {SendRequest("llamacpp", TuiRequest, reply)} :
        /\ asked' = x.wire
        /\ panel' = IF x.result.ok
                    THEN Append(panel, Shown("assistant", ResponseText(x.result), Message))
                    ELSE panel
    /\ tui' = [tui EXCEPT !.pc = "loop"]

\* A request carries the instructions and this message, no earlier one.
LlamaAnswers(reply) ==
    /\ tui.pc = "sending"
    /\ \E x \in {SendRequest("llamacpp", TuiRequest, reply)} :
        /\ asked' = x.wire
        /\ panel' = Append(panel, IF x.result.ok
                                  THEN Shown("assistant", ResponseText(x.result), Message)
                                  ELSE Shown("system", x.result.error, Message))
    /\ tui' = [tui EXCEPT !.pc = "loop"]

TuiNext ==
    \/ \E key \in TuiKeys : EnterMode(key) \/ LeaveMode(key) \/ TypeLetter(key)
    \/ Quit \/ ToggleAgentMode \/ CycleFocus \/ EraseLetter \/ SendMessage
    \/ \E reply \in TuiReplies : LlamaAnswers(reply)

-----------------------------------------------------------------------------

\* A message of the user is followed by one answer to it, or by the error that
\* came instead, before anything else is shown: no notice, no second answer
\* and no other message comes between, and none is left without.
TuiAnswers ==
    \A i \in DOMAIN panel :
        /\ panel[i].role = "user" =>
            IF i = Len(panel) THEN tui.pc = "sending"
            ELSE panel[i + 1].role # "user" /\ panel[i + 1].about = panel[i].text
        /\ panel[i].role # "user" /\ panel[i].about # <<>> => panel[i - 1].role = "user"
        /\ panel[i].role = "assistant" /\ i = Len(panel) =>
            asked.turns[2] = [role |-> "user", text |-> <<panel[i].about>>]

=============================================================================
