------------------------------- MODULE Overlay ------------------------------
(***************************************************************************)
(* agent-tui: an overlay that turns a request into a shell command and, at *)
(* a second Enter, types it and a line end into the terminal it was called *)
(* from, which runs it.  Requests and commands are sequences of words.     *)
(*                                                                         *)
(* One task draws, takes one key, handles it to the end and draws again.   *)
(* While it awaits the model nothing is drawn and no key is taken: the     *)
(* terminal keeps the keys that are pressed.                               *)
(***************************************************************************)
EXTENDS Naturals, Sequences

CONSTANTS
    Symbols,      \* words a user types; triggers such as @test are among them
    Direct,       \* Direct[s]: the command the trigger s stands for
    Generated,    \* commands the model may answer; NoCommand is white space
    MaxInput,     \* bound: words in the input line
    MaxTyped      \* bound: keys the terminal keeps

NoCommand == <<>>
Query == "@query"

Keys == {"Esc", "Enter", "Backspace"} \union Symbols

VARIABLES
    overlay,   \* AgentOverlay, and where run_app is in its loop
    typed,     \* keys pressed and not taken
    frame,     \* what was drawn last
    injected,  \* what left the overlay: where to, which command, for which input
    meant       \* history: which command was last made for which input

overlayVars == <<overlay, typed, frame, injected, meant>>

Frame(o) == [status |-> o.status, output |-> o.output, input |-> o.input]

OverlayInit ==
    /\ overlay = [pc |-> "draw", status |-> "Idle", input |-> <<>>, output |-> NoCommand,
                  prompt |-> <<>>]
    /\ typed = <<>>
    /\ frame = [status |-> "none", output |-> NoCommand, input |-> <<>>]
    /\ injected = [to |-> "nowhere", command |-> NoCommand, input |-> <<>>]
    /\ meant = [command |-> NoCommand, input |-> <<>>]

-----------------------------------------------------------------------------

Press(key) ==
    /\ overlay.pc # "quit" /\ Len(typed) < MaxTyped
    /\ key \in Symbols => Len(overlay.input) + Len(typed) < MaxInput
    /\ typed' = Append(typed, key)
    /\ UNCHANGED <<overlay, frame, injected, meant>>

Draw ==
    /\ overlay.pc = "draw"
    /\ frame' = Frame(overlay)
    /\ overlay' = [overlay EXCEPT !.pc = "poll"]
    /\ UNCHANGED <<typed, injected, meant>>

\* No key within 100 ms.
PollTimesOut ==
    /\ overlay.pc = "poll" /\ typed = <<>>
    /\ overlay' = [overlay EXCEPT !.pc = "draw"]
    /\ UNCHANGED <<typed, frame, injected, meant>>

Takes(key) ==
    /\ overlay.pc = "poll" /\ typed # <<>> /\ Head(typed) = key
    /\ typed' = Tail(typed)
    /\ UNCHANGED frame

Escape ==
    /\ Takes("Esc")
    /\ overlay' = [overlay EXCEPT !.pc = "quit"]
    /\ UNCHANGED <<injected, meant>>

\* Mutant: a command that is ready stays ready while the input is refined.
TypeReady(s) ==
    /\ Takes(s) /\ s \in Symbols
    /\ overlay' = [overlay EXCEPT !.pc = "draw",
                        !.input = IF overlay.status = "Processing" THEN @ ELSE Append(@, s)]
    /\ UNCHANGED <<injected, meant>>

Type(s) ==
    /\ Takes(s) /\ s \in Symbols
    /\ overlay' = IF overlay.status = "Processing" THEN [overlay EXCEPT !.pc = "draw"]
                  ELSE [overlay EXCEPT !.pc = "draw", !.status = "Idle",
                                       !.input = Append(@, s)]
    /\ UNCHANGED <<injected, meant>>

Erase ==
    /\ Takes("Backspace")
    /\ overlay' = [overlay EXCEPT !.pc = "draw", !.status = "Idle",
                        !.input = IF @ = <<>> THEN @ ELSE SubSeq(@, 1, Len(@) - 1)]
    /\ UNCHANGED <<injected, meant>>

\* direct_command_for_input: the first word is a trigger with a command, to
\* which @query adds the words that follow.
IsDirect(input) == input # <<>> /\ input[1] \in DOMAIN Direct \union {Query}
DirectCommand(input) ==
    IF input[1] # Query THEN Direct[input[1]]
    ELSE <<"query">> \o (IF Len(input) = 1 THEN <<"your question">> ELSE Tail(input))

\* process_input; an input of no characters is left alone.
EnterNothing ==
    /\ Takes("Enter") /\ overlay.status # "Ready" /\ overlay.input = <<>>
    /\ overlay' = [overlay EXCEPT !.pc = "draw"]
    /\ UNCHANGED <<injected, meant>>

EnterDirect ==
    /\ Takes("Enter") /\ overlay.status # "Ready" /\ IsDirect(overlay.input)
    /\ LET command == DirectCommand(overlay.input) IN
       /\ overlay' = [overlay EXCEPT !.pc = "draw", !.status = "Ready",
                           !.prompt = overlay.input, !.output = command]
       /\ meant' = [command |-> command, input |-> overlay.input]
    /\ UNCHANGED injected

EnterPrompt ==
    /\ Takes("Enter") /\ overlay.status # "Ready"
    /\ overlay.input # <<>> /\ ~IsDirect(overlay.input)
    /\ overlay' = [overlay EXCEPT !.pc = "asking", !.status = "Processing",
                        !.prompt = overlay.input, !.output = <<"Thinking">>]
    /\ UNCHANGED <<injected, meant>>

Generates(command) ==
    /\ overlay.pc = "asking"
    /\ overlay' = [overlay EXCEPT !.pc = "draw", !.status = "Ready", !.output = command]
    /\ meant' = [command |-> command, input |-> overlay.prompt]
    /\ UNCHANGED <<typed, frame, injected>>

LlmFails ==
    /\ overlay.pc = "asking"
    /\ overlay' = [overlay EXCEPT !.pc = "draw", !.status = "Error", !.output = <<"Error">>]
    /\ UNCHANGED <<typed, frame, injected, meant>>

\* inject_to_zellij, then quit: a pane, standard error where Zellij has no
\* session, the clipboard where there is no Zellij; write-chars may not start.
EnterInjects(to) ==
    /\ Takes("Enter") /\ overlay.status = "Ready"
    /\ overlay' = [overlay EXCEPT !.pc = "quit"]
    /\ injected' = IF overlay.output = NoCommand THEN injected
                   ELSE [to |-> to, command |-> overlay.output, input |-> overlay.input]
    /\ UNCHANGED meant

OverlayStep ==
    \/ Draw \/ PollTimesOut \/ Escape \/ Erase
    \/ EnterNothing \/ EnterDirect \/ EnterPrompt
    \/ \E s \in Symbols : Type(s)
    \/ \E command \in Generated : Generates(command)
    \/ LlmFails
    \/ \E to \in {"pane", "stderr", "clipboard", "nowhere"} : EnterInjects(to)

OverlayNext == OverlayStep \/ \E key \in Keys : Press(key)

-----------------------------------------------------------------------------

\* What is typed into the user's shell is the command that was made for the
\* words in the input line, and the frame on the screen shows both and says
\* Ready; never an error text, the waiting text, or the command of words that
\* have been changed since, however keys and answers fall.
InjectedWasShown ==
    injected.to # "nowhere" =>
        /\ frame = [status |-> "Ready", output |-> injected.command,
                    input |-> injected.input]
        /\ meant = [command |-> injected.command, input |-> injected.input]

=============================================================================
