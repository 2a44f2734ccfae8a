------------------------------ MODULE Terminal ------------------------------
(***************************************************************************)
(* The programs a user runs in a terminal: securellm, which is the TUI, a  *)
(* session of the REPL or one command, and agent-tui, the overlay.  A      *)
(* process is one of them from its start; they share no state.  The        *)
(* libraries behind the TUI, of which it reaches little so far, are run by *)
(* a client of their own: the multiplexer, the agent executor and the      *)
(* context manager.                                                        *)
(***************************************************************************)
EXTENDS Tui, Repl, Cli, Panes, Overlay, Agent, Context

VARIABLE program   \* what the process is

Programs ==
    {"tui", "repl", "command", "multiplexer", "overlay", "agent", "context"}

userVars == <<tuiVars, replVars, cliVars, overlayVars>>
libraryVars == <<panesVars, agentVars, contextVars>>
terminalVars == <<program, userVars, libraryVars>>

TerminalInit ==
    /\ program \in Programs
    /\ TuiInit /\ ReplInit /\ CliInit /\ OverlayInit
    /\ PanesInit /\ AgentInit /\ ContextInit

Is(p) == program = p /\ UNCHANGED program

UserNext ==
    /\ \/ Is("tui") /\ TuiNext /\ UNCHANGED <<replVars, cliVars, overlayVars>>
       \/ Is("repl") /\ ReplNext /\ UNCHANGED <<tuiVars, cliVars, overlayVars>>
       \/ Is("command") /\ CliNext /\ UNCHANGED <<tuiVars, replVars, overlayVars>>
       \/ Is("overlay") /\ OverlayNext /\ UNCHANGED <<tuiVars, replVars, cliVars>>
    /\ UNCHANGED libraryVars

Turning(t) ==
    /\ Is("agent") /\ Work(t)
    /\ UNCHANGED <<userVars, panesVars, contextVars>>

LibraryNext ==
    \/ \E t \in Turns : Turning(t)
    \/ /\ \/ /\ Is("agent") /\ \E t \in Turns : Begin(t)
             /\ UNCHANGED <<panesVars, contextVars>>
          \/ Is("multiplexer") /\ PanesNext /\ UNCHANGED <<agentVars, contextVars>>
          \/ Is("context") /\ ContextNext /\ UNCHANGED <<panesVars, agentVars>>
       /\ UNCHANGED userVars

TerminalNext == UserNext \/ LibraryNext

\* A turn of an agent goes on while the model and the tools answer.  Nothing
\* is assumed of users.
TerminalSpec ==
    /\ TerminalInit /\ [][TerminalNext]_terminalVars
    /\ \A t \in Turns : WF_terminalVars(Turning(t))

\* Every message is answered, and what is printed for an answer is one: the
\* chat panel of the TUI pairs each message with its answer or error, and a
\* command that ends well has told what its provider said.
WhatIsShownIsTrue == TuiAnswers /\ CliTells

=============================================================================
