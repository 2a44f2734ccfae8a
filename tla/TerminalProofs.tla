--------------------------- MODULE TerminalProofs ---------------------------
(***************************************************************************)
(* What holds of the programs in a terminal, for any keys, words, models   *)
(* and answers, any number of tabs, panes, turns and rounds.               *)
(*                                                                         *)
(* They share no state, so an invariant of one is proved of its own steps  *)
(* and the steps of the others leave it alone.                             *)
(***************************************************************************)
EXTENDS Terminal, ClientProofs

-----------------------------------------------------------------------------
(* The overlay.  A command is ready only for the words in the input line,  *)
(* and a key is taken only right after a frame was drawn.                  *)

OverlayFits ==
    /\ DOMAIN overlay = {"pc", "status", "input", "output", "prompt"}
    /\ overlay.pc = "poll" => frame = Frame(overlay)
    /\ overlay.pc = "asking" => overlay.prompt = overlay.input
    /\ overlay.status = "Ready" =>
        meant = [command |-> overlay.output, input |-> overlay.input]
    /\ injected.to # "nowhere" => overlay.pc = "quit"
    /\ InjectedWasShown

LEMMA OverlayInitFits ==
    ASSUME OverlayInit
    PROVE  OverlayFits
    BY DEF OverlayInit, OverlayFits, InjectedWasShown

LEMMA OverlayStepFits ==
    ASSUME OverlayFits, [OverlayNext]_overlayVars
    PROVE  OverlayFits'
<1> USE DEF OverlayFits, InjectedWasShown
<1>1. CASE UNCHANGED overlayVars
    BY <1>1 DEF overlayVars, Frame
<1>2. ASSUME NEW key \in Keys, Press(key)
      PROVE  OverlayFits'
    BY <1>2 DEF Press, Frame
<1>3. CASE Draw
    BY <1>3 DEF Draw, Frame
<1>4. CASE PollTimesOut \/ Escape
    BY <1>4 DEF PollTimesOut, Escape, Takes
<1>5. CASE Erase
    BY <1>5 DEF Erase, Takes
<1>6. ASSUME NEW s \in Symbols, Type(s)
      PROVE  OverlayFits'
    <2>1. CASE overlay.status = "Processing"
        BY <1>6, <2>1 DEF Type, Takes
    <2>2. CASE overlay.status # "Processing"
        BY <1>6, <2>2 DEF Type, Takes
    <2> QED
        BY <2>1, <2>2
<1>7. CASE EnterNothing
    BY <1>7 DEF EnterNothing, Takes
<1>8. CASE EnterDirect
    <2> DEFINE command == DirectCommand(overlay.input)
    <2>1. /\ overlay.pc = "poll"
          /\ overlay' = [overlay EXCEPT !.pc = "draw", !.status = "Ready",
                              !.prompt = overlay.input, !.output = command]
          /\ meant' = [command |-> command, input |-> overlay.input]
          /\ UNCHANGED <<frame, injected>>
        BY <1>8 DEF EnterDirect, Takes
    <2> HIDE DEF command
    <2> QED
        BY <2>1
<1>9. CASE EnterPrompt
    BY <1>9 DEF EnterPrompt, Takes
<1>10. ASSUME NEW command \in Generated, Generates(command)
       PROVE  OverlayFits'
    BY <1>10 DEF Generates
<1>11. CASE LlmFails
    BY <1>11 DEF LlmFails
<1>12. ASSUME NEW to, EnterInjects(to)
       PROVE  OverlayFits'
    BY <1>12 DEF EnterInjects, Takes, Frame
<1> QED
    BY <1>1, <1>2, <1>3, <1>4, <1>5, <1>6, <1>7, <1>8, <1>9, <1>10, <1>11, <1>12
        DEF OverlayNext, OverlayStep

LEMMA OthersRest ==
    ASSUME [TerminalNext]_terminalVars
    PROVE  /\ [TuiNext]_tuiVars /\ [ReplNext]_replVars /\ [CliNext]_cliVars
           /\ [OverlayNext]_overlayVars /\ [PanesNext]_panesVars /\ [AgentNext]_agentVars
           /\ [ContextNext]_contextVars
    BY Zenon DEF TerminalNext, UserNext, LibraryNext, Turning, Is, AgentNext, terminalVars,
        userVars, libraryVars

\* What the overlay types into a shell is the command made for the words in
\* the input line, and both were on the screen under "Ready" when Enter was
\* pressed, however fast keys come while the model is asked and whatever the
\* model answers.
THEOREM TypesWhatItShowed == TerminalSpec => []InjectedWasShown
<1>1. TerminalInit => OverlayFits
    BY OverlayInitFits DEF TerminalInit
<1>2. OverlayFits /\ [TerminalNext]_terminalVars => OverlayFits'
    BY OverlayStepFits, OthersRest
<1>3. OverlayFits => InjectedWasShown
    BY DEF OverlayFits
<1> QED
    BY <1>1, <1>2, <1>3, PTL DEF TerminalSpec

-----------------------------------------------------------------------------
(* The multiplexer.  A new pane's number is above all that are in a tab.   *)

Sides == {"whole", "right", "below"}
Place == [pane : Nat, side : Sides]
Tab == [panes : SUBSET Nat, layout : Seq(Place), focused : Nat]

TabFits(t) ==
    /\ {t.layout[k].pane : k \in DOMAIN t.layout} = t.panes
    /\ \A k, l \in DOMAIN t.layout : t.layout[k].pane = t.layout[l].pane => k = l
    /\ t.focused \in t.panes

PanesTypeOK ==
    /\ tabs \in Seq(Tab)
    /\ active \in 1 .. Len(tabs)
    /\ created \in Nat

PanesIInv ==
    /\ PanesTypeOK
    /\ \A i \in DOMAIN tabs : TabFits(tabs[i]) /\ tabs[i].panes \subseteq 1 .. created
    /\ \A i, j \in DOMAIN tabs : tabs[i].panes \intersect tabs[j].panes # {} => i = j

LEMMA NewTabFits ==
    ASSUME NEW id \in Nat
    PROVE  NewTab(id) \in Tab /\ TabFits(NewTab(id)) /\ NewTab(id).panes = {id}
<1> DEFINE place == [pane |-> id, side |-> "whole"]
<1>1. place \in Place /\ place.pane = id
    BY DEF Place, Sides
<1> HIDE DEF place
<1>2. /\ <<place>> \in Seq(Place) /\ DOMAIN <<place>> = {1} /\ <<place>>[1] = place
    BY <1>1
<1>3. NewTab(id) = [panes |-> {id}, layout |-> <<place>>, focused |-> id]
    BY DEF NewTab, place
<1>4. /\ NewTab(id).panes = {id} /\ NewTab(id).layout = <<place>>
      /\ NewTab(id).focused = id
    BY <1>3
<1>5. NewTab(id) \in Tab
    BY <1>2, <1>3 DEF Tab
<1> QED
    BY <1>1, <1>2, <1>4, <1>5 DEF TabFits

LEMMA SplitFits ==
    ASSUME NEW t \in Tab, TabFits(t), NEW id \in Nat, id \notin t.panes,
           NEW side \in {"right", "below"},
           NEW u, u = [panes   |-> t.panes \union {id},
                       layout  |-> Append(t.layout, [pane |-> id, side |-> side]),
                       focused |-> id]
    PROVE  u \in Tab /\ TabFits(u) /\ u.panes = t.panes \union {id}
<1> DEFINE place == [pane |-> id, side |-> side]
           l == t.layout
           m == Append(l, place)
<1>1. place \in Place /\ place.pane = id
    BY DEF Place, Sides
<1>2. u.panes = t.panes \union {id} /\ u.layout = m /\ u.focused = id
    OBVIOUS
<1>3. t.panes \in SUBSET Nat /\ l \in Seq(Place)
    BY DEF Tab
<1> HIDE DEF place, l
<1>4. /\ m \in Seq(Place) /\ Len(l) \in Nat
      /\ DOMAIN l = 1 .. Len(l) /\ DOMAIN m = 1 .. Len(l) + 1
      /\ \A k \in DOMAIN l : m[k] = l[k]
      /\ m[Len(l) + 1] = place
    BY <1>1, <1>3
<1> HIDE DEF m
<1>5. u \in Tab
    BY <1>1, <1>3, <1>4 DEF Tab, m, l, place
<1>6. \A k \in DOMAIN l : l[k].pane \in t.panes
    BY DEF TabFits, l
<1>7. \A k \in DOMAIN m : k \in DOMAIN l \/ k = Len(l) + 1
    BY <1>4
<1>8. {m[k].pane : k \in DOMAIN m} = t.panes \union {id}
    <2>1. \A k \in DOMAIN m : m[k].pane \in t.panes \union {id}
        BY <1>1, <1>4, <1>6, <1>7
    <2>2. \A p \in t.panes : \E k \in DOMAIN m : m[k].pane = p
        <3> TAKE p \in t.panes
        <3>1. PICK k \in DOMAIN l : l[k].pane = p
            BY DEF TabFits, l
        <3> QED
            BY <1>4, <3>1
    <2>3. Len(l) + 1 \in DOMAIN m
        BY <1>4
    <2> QED
        BY <1>1, <1>4, <2>1, <2>2, <2>3
<1>9. \A k, j \in DOMAIN m : m[k].pane = m[j].pane => k = j
    BY <1>1, <1>4, <1>6, <1>7 DEF TabFits, l
<1>10. {u.layout[k].pane : k \in DOMAIN u.layout} = u.panes
    BY ONLY <1>2, <1>8
<1>11. \A k, j \in DOMAIN u.layout : u.layout[k].pane = u.layout[j].pane => k = j
    BY ONLY <1>2, <1>9
<1>12. u.focused \in u.panes
    BY <1>2
<1> QED
    BY <1>2, <1>5, <1>10, <1>11, <1>12 DEF TabFits

LEMMA FocusFits ==
    ASSUME NEW t \in Tab, TabFits(t)
    PROVE  t.layout[(Position(t) % Len(t.layout)) + 1].pane \in t.panes
<1> DEFINE l == t.layout
<1>1. /\ l \in Seq(Place) /\ Len(l) \in Nat /\ DOMAIN l = 1 .. Len(l)
    BY DEF Tab
<1>2. \E k \in DOMAIN l : l[k].pane = t.focused
    BY DEF TabFits
<1>3. Position(t) \in DOMAIN l
    BY <1>2 DEF Position
<1>4. (Position(t) % Len(l)) + 1 \in DOMAIN l
    BY <1>1, <1>3
<1> QED
    BY <1>4 DEF TabFits

LEMMA PanesInitFits ==
    ASSUME PanesInit
    PROVE  PanesIInv
<1> DEFINE t == NewTab(1)
<1>1. t \in Tab /\ TabFits(t) /\ t.panes = {1}
    BY NewTabFits
<1> HIDE DEF t
<1>2. tabs \in Seq(Tab) /\ Len(tabs) = 1 /\ tabs[1] = t /\ DOMAIN tabs = {1}
    BY <1>1 DEF PanesInit, t
<1> QED
    BY <1>1, <1>2 DEF PanesInit, PanesIInv, PanesTypeOK

\* One tab is replaced by another, which may have a pane more, a new one.
LEMMA TabReplaced ==
    ASSUME PanesIInv, NEW u \in Tab, TabFits(u), tabs' = [tabs EXCEPT ![active] = u],
           active' = active, created' \in Nat, created <= created',
           u.panes \subseteq tabs[active].panes \union (created + 1 .. created')
    PROVE  PanesIInv'
<1>1. /\ tabs \in Seq(Tab) /\ active \in DOMAIN tabs /\ DOMAIN tabs = 1 .. Len(tabs)
      /\ created \in Nat
    BY DEF PanesIInv, PanesTypeOK
<1>2. /\ tabs' \in Seq(Tab) /\ Len(tabs') = Len(tabs) /\ DOMAIN tabs' = DOMAIN tabs
      /\ tabs'[active] = u
      /\ \A i \in DOMAIN tabs : i # active => tabs'[i] = tabs[i]
    BY <1>1
<1>3. PanesTypeOK'
    BY <1>1, <1>2 DEF PanesIInv, PanesTypeOK
<1>4. \A i \in DOMAIN tabs : tabs[i].panes \subseteq 1 .. created
    BY DEF PanesIInv
<1>5. u.panes \subseteq 1 .. created'
    BY <1>1, <1>4
<1>6. \A i \in DOMAIN tabs' : TabFits(tabs'[i]) /\ tabs'[i].panes \subseteq 1 .. created'
    BY <1>1, <1>2, <1>4, <1>5 DEF PanesIInv
<1>7. \A i \in DOMAIN tabs : i # active => tabs[i].panes \intersect u.panes = {}
    <2> SUFFICES ASSUME NEW i \in DOMAIN tabs, i # active,
                        NEW p \in tabs[i].panes, p \in u.panes
                 PROVE  FALSE
        OBVIOUS
    <2>1. p \in 1 .. created
        BY <1>4
    <2>2. p \in tabs[active].panes
        BY <1>1, <2>1
    <2> QED
        BY <1>1, <2>2 DEF PanesIInv
<1>8. \A i, j \in DOMAIN tabs' : tabs'[i].panes \intersect tabs'[j].panes # {} => i = j
    BY <1>1, <1>2, <1>7 DEF PanesIInv
<1> QED
    BY <1>3, <1>6, <1>8 DEF PanesIInv

LEMMA PanesStepFits ==
    ASSUME PanesIInv, [PanesNext]_panesVars
    PROVE  PanesIInv'
<1>1. /\ tabs \in Seq(Tab) /\ active \in DOMAIN tabs /\ DOMAIN tabs = 1 .. Len(tabs)
      /\ Len(tabs) \in Nat /\ created \in Nat
      /\ tabs[active] \in Tab /\ TabFits(tabs[active])
      /\ \A i \in DOMAIN tabs : tabs[i] \in Tab /\ TabFits(tabs[i])
                                 /\ tabs[i].panes \subseteq 1 .. created
      /\ \A i, j \in DOMAIN tabs : tabs[i].panes \intersect tabs[j].panes # {} => i = j
    BY DEF PanesIInv, PanesTypeOK
<1>2. CASE UNCHANGED panesVars
    BY <1>2 DEF panesVars, PanesIInv, PanesTypeOK
<1>3. ASSUME NEW side \in {"right", "below"}, Split(side)
      PROVE  PanesIInv'
    <2> DEFINE t == tabs[active]
               u == [panes   |-> t.panes \union {created'},
                     layout  |-> Append(t.layout, [pane |-> created', side |-> side]),
                     focused |-> created']
    <2>1. /\ tabs' = [tabs EXCEPT ![active] = u] /\ active' = active
          /\ created' = created + 1
        BY <1>3 DEF Split, MakePane
    <2>2. created' \notin t.panes /\ created' \in Nat
        BY <1>1, <2>1
    <2>3. u \in Tab /\ TabFits(u) /\ u.panes = t.panes \union {created'}
        BY <1>1, <1>3, <2>2, SplitFits
    <2>4. u.panes \subseteq t.panes \union (created + 1 .. created')
        BY <1>1, <2>1, <2>3
    <2>5. created <= created'
        BY <1>1, <2>1
    <2> HIDE DEF u
    <2> QED
        BY <2>1, <2>2, <2>3, <2>4, <2>5, TabReplaced
<1>4. CASE FocusNext
    <2> DEFINE t == tabs[active]
               pane == t.layout[(Position(t) % Len(t.layout)) + 1].pane
               u == [t EXCEPT !.focused = pane]
    <2>1. tabs' = [tabs EXCEPT ![active] = u] /\ active' = active /\ created' = created
        BY <1>1, <1>4 DEF FocusNext
    <2>2. pane \in t.panes
        BY <1>1, FocusFits
    <2> HIDE DEF pane
    <2>3. /\ u \in Tab /\ u.panes = t.panes /\ u.layout = t.layout /\ u.focused = pane
        BY <1>1, <2>2 DEF Tab
    <2>4. TabFits(u)
        BY <1>1, <2>2, <2>3 DEF TabFits
    <2>5. created' \in Nat /\ created <= created'
        BY <1>1, <2>1
    <2>6. u.panes \subseteq tabs[active].panes \union (created + 1 .. created')
        BY <2>3
    <2> HIDE DEF u
    <2> QED
        BY <2>1, <2>3, <2>4, <2>5, <2>6, TabReplaced
<1>5. CASE OpenTab
    <2> DEFINE t == NewTab(created')
    <2>1. /\ tabs' = Append(tabs, t) /\ active' = Len(tabs) + 1 /\ created' = created + 1
        BY <1>5 DEF OpenTab, MakePane
    <2>2. t \in Tab /\ TabFits(t) /\ t.panes = {created'}
        BY <1>1, <2>1, NewTabFits
    <2> HIDE DEF t
    <2>3. /\ tabs' \in Seq(Tab) /\ Len(tabs') = Len(tabs) + 1
          /\ DOMAIN tabs' = 1 .. Len(tabs) + 1
          /\ \A i \in DOMAIN tabs : tabs'[i] = tabs[i]
          /\ tabs'[Len(tabs) + 1] = t
        BY <1>1, <2>1, <2>2
    <2>4. \A i \in DOMAIN tabs' : i \in DOMAIN tabs \/ i = Len(tabs) + 1
        BY <1>1, <2>3
    <2>5. PanesTypeOK'
        BY <1>1, <2>1, <2>3 DEF PanesTypeOK
    <2>6. \A i \in DOMAIN tabs' : TabFits(tabs'[i]) /\ tabs'[i].panes \subseteq 1 .. created'
        BY <1>1, <2>1, <2>2, <2>3, <2>4
    <2>7. \A i \in DOMAIN tabs : created' \notin tabs[i].panes
        BY <1>1, <2>1
    <2>8. \A i, j \in DOMAIN tabs' : tabs'[i].panes \intersect tabs'[j].panes # {} => i = j
        BY <1>1, <2>2, <2>3, <2>4, <2>7
    <2> QED
        BY <2>5, <2>6, <2>8 DEF PanesIInv
<1>6. CASE NextTab \/ PrevTab
    <2>1. tabs' = tabs /\ created' = created /\ active' \in 1 .. Len(tabs)
        BY <1>1, <1>6 DEF NextTab, PrevTab
    <2> QED
        BY <1>1, <2>1 DEF PanesIInv, PanesTypeOK
<1>7. CASE CloseTab
    <2>1. /\ Len(tabs) > 1 /\ tabs' = Others /\ created' = created
          /\ active' = IF active > Len(tabs) - 1 THEN Len(tabs) - 1 ELSE active
        BY <1>7 DEF CloseTab
    <2>2. \A i \in 1 .. Len(tabs) - 1 :
            \E j \in DOMAIN tabs : Others[i] = tabs[j] /\ j = IF i < active THEN i ELSE i + 1
        BY <1>1 DEF Others
    <2>3. tabs' \in Seq(Tab) /\ Len(tabs') = Len(tabs) - 1 /\ DOMAIN tabs' = 1 .. Len(tabs) - 1
        <3>1. \A i \in 1 .. Len(tabs) - 1 : Others[i] \in Tab
            BY <1>1, <2>2
        <3>2. Others \in [1 .. Len(tabs) - 1 -> Tab] /\ Len(tabs) - 1 \in Nat
            BY <1>1, <2>1, <3>1 DEF Others
        <3> QED
            BY <2>1, <3>2
    <2>4. active' \in 1 .. Len(tabs')
        BY <1>1, <2>1, <2>3
    <2>5. PanesTypeOK'
        BY <1>1, <2>1, <2>3, <2>4 DEF PanesTypeOK
    <2>6. \A i \in DOMAIN tabs' : TabFits(tabs'[i]) /\ tabs'[i].panes \subseteq 1 .. created'
        BY <1>1, <2>1, <2>2, <2>3
    <2>7. \A i, j \in DOMAIN tabs' : tabs'[i].panes \intersect tabs'[j].panes # {} => i = j
        <3> SUFFICES ASSUME NEW i \in DOMAIN tabs', NEW j \in DOMAIN tabs',
                            tabs'[i].panes \intersect tabs'[j].panes # {}
                     PROVE  i = j
            OBVIOUS
        <3>1. PICK k \in DOMAIN tabs : tabs'[i] = tabs[k] /\ k = IF i < active THEN i ELSE i + 1
            BY <2>1, <2>2, <2>3
        <3>2. PICK l \in DOMAIN tabs : tabs'[j] = tabs[l] /\ l = IF j < active THEN j ELSE j + 1
            BY <2>1, <2>2, <2>3
        <3>3. k = l
            BY <1>1, <3>1, <3>2
        <3> QED
            BY <1>1, <2>3, <3>1, <3>2, <3>3
    <2> QED
        BY <2>5, <2>6, <2>7 DEF PanesIInv
<1> QED
    BY <1>2, <1>3, <1>4, <1>5, <1>6, <1>7 DEF PanesNext

\* After any splits, cycles, and tabs opened, changed and closed, a tab is
\* active, each tab's layout shows each of its panes once, its focus is on one
\* of them, and no pane is in two tabs.
THEOREM TabsAndPanesAgree == TerminalSpec => []PanesAgree
<1>1. TerminalInit => PanesIInv
    BY PanesInitFits DEF TerminalInit
<1>2. PanesIInv /\ [TerminalNext]_terminalVars => PanesIInv'
    BY PanesStepFits, OthersRest
<1>3. PanesIInv => PanesAgree
    BY DEF PanesIInv, PanesTypeOK, PanesAgree, TabFits
<1> QED
    BY <1>1, <1>2, <1>3, PTL DEF TerminalSpec

-----------------------------------------------------------------------------
(* The agent executor.  A turn's results are those of its first calls, and *)
(* while it has to come back to the model, the rounds so far are counted.  *)

Entry == [key : {Key(c) : c \in Calls}, result : Results]

TurnRecord ==
    [phase : {"new", "thinking", "asking", "tools", "running", "over"},
     iteration : 0 .. MaxIterations + 1, conversation : Seq(Rounds),
     calls : Seq(Calls), results : Seq(Results),
     outcome : {"none", "text", "max", "error"}]

CacheFits(entries, known) ==
    /\ entries \in Seq(Entry)
    /\ \A i \in DOMAIN entries : <<entries[i].key, entries[i].result>> \in known
    /\ \A i, j \in DOMAIN entries : entries[i].key = entries[j].key => i = j
    /\ Len(entries) <= Capacity

\* The results are there, in the order of the calls, for the first of them.
FirstOf(calls, results, known) ==
    /\ Len(results) <= Len(calls)
    /\ \A j \in DOMAIN results : <<Key(calls[j]), results[j]>> \in known

Counted(u) ==
    /\ u.phase = "new" => Len(u.conversation) = 0 /\ u.iteration = 0
    /\ u.phase = "thinking" =>
        Len(u.conversation) = u.iteration /\ u.iteration <= MaxIterations
    /\ u.phase \in {"asking", "tools", "running"} =>
        Len(u.conversation) + 1 = u.iteration /\ u.iteration <= MaxIterations
    /\ Len(u.conversation) <= MaxIterations

TurnFits(u, known) ==
    /\ u \in TurnRecord
    /\ Counted(u)
    /\ FirstOf(u.calls, u.results, known)
    /\ u.phase = "running" => Len(u.results) < Len(u.calls)
    /\ \A i \in DOMAIN u.conversation :
        /\ Len(u.conversation[i].results) = Len(u.conversation[i].calls)
        /\ FirstOf(u.conversation[i].calls, u.conversation[i].results, known)

AgentIInv ==
    /\ ran \subseteq {Key(c) : c \in Calls} \X Results
    /\ CacheFits(cache, ran)
    /\ DOMAIN turn = Turns /\ turn = [t \in Turns |-> turn[t]]
    /\ \A t \in Turns : TurnFits(turn[t], ran)

LEMMA KnownIsKept ==
    ASSUME NEW known, NEW more, known \subseteq more
    PROVE  /\ \A entries : CacheFits(entries, known) => CacheFits(entries, more)
           /\ \A u : TurnFits(u, known) => TurnFits(u, more)
<1>1. \A entries : CacheFits(entries, known) => CacheFits(entries, more)
    BY DEF CacheFits
<1>2. \A calls, results : FirstOf(calls, results, known) => FirstOf(calls, results, more)
    BY DEF FirstOf
<1>3. \A u : TurnFits(u, known) => TurnFits(u, more)
    BY <1>2 DEF TurnFits
<1> QED
    BY <1>1, <1>3

LEMMA ParseIs ==
    ASSUME NEW answer \in Answers
    PROVE  Parse(answer) \in Seq(Calls)
<1>1. answer.calls \in Seq(Calls)
    <2>1. {answer.calls[i] : i \in DOMAIN answer.calls} \subseteq Calls
        BY DEF Calls
    <2>2. answer.calls \in Seq({answer.calls[i] : i \in DOMAIN answer.calls})
        BY AgentAssumption
    <2> QED
        BY <2>1, <2>2
<1>2. ASSUME NEW json
      PROVE  CallsWith(answer, json) \in Seq(Calls)
    <2> DEFINE places == {i \in DOMAIN answer.calls : answer.calls[i].json \in json}
    <2>1. places \in SUBSET DOMAIN answer.calls
        OBVIOUS
    <2> HIDE DEF places
    <2>2. Chosen(answer.calls, places) \in Seq(Calls)
        BY <1>1, <2>1, ChosenIs
    <2> QED
        BY <2>2 DEF CallsWith, places
<1> QED
    BY <1>2 DEF Parse, ParseXml, ParseRegex

\* What stays of the cache when the entry of one key is taken out.
LEMMA WithoutIs ==
    ASSUME NEW known, CacheFits(cache, known), NEW key
    PROVE  /\ CacheFits(Without(key), known)
           /\ \A i \in DOMAIN Without(key) : Without(key)[i].key # key
           /\ Has(key) => Len(Without(key)) < Len(cache)
<1> DEFINE places == {i \in DOMAIN cache : cache[i].key # key}
           rest == Chosen(cache, places)
<1>1. cache \in Seq(Entry) /\ Len(cache) \in Nat /\ DOMAIN cache = 1 .. Len(cache)
    BY DEF CacheFits
<1>2. /\ \A i \in DOMAIN cache : <<cache[i].key, cache[i].result>> \in known
      /\ \A i, j \in DOMAIN cache : cache[i].key = cache[j].key => i = j
      /\ Len(cache) <= Capacity
    BY DEF CacheFits
<1>3. places \in SUBSET DOMAIN cache /\ \A i \in places : cache[i].key # key
    OBVIOUS
<1>4. Has(key) => places # DOMAIN cache
    BY DEF Has
<1> HIDE DEF places
<1>5. /\ rest \in Seq(Entry) /\ Len(rest) = Cardinality(places) /\ Cardinality(places) \in Nat
      /\ DOMAIN rest = 1 .. Cardinality(places)
      /\ \A n \in 1 .. Cardinality(places) :
            Nth(places, n) \in places /\ rest[n] = cache[Nth(places, n)]
      /\ \A n, k \in 1 .. Cardinality(places) : n < k => Nth(places, n) < Nth(places, k)
    BY <1>1, <1>3, ChosenIs
<1> HIDE DEF rest
<1>6. Len(rest) <= Len(cache) /\ (Has(key) => Len(rest) < Len(cache))
    <2> DEFINE m == Len(cache)
    <2>1. m \in Nat /\ places \in SUBSET (1 .. m)
        BY <1>1, <1>3
    <2> HIDE DEF m
    <2>2. /\ Cardinality(1 .. m) = m
          /\ Cardinality(places) <= Cardinality(1 .. m)
          /\ places # 1 .. m => Cardinality(places) < Cardinality(1 .. m)
        <3>1. (1 .. m) \in SUBSET (1 .. m)
            OBVIOUS
        <3>2. Cardinality(1 .. m) = m
            BY <2>1, FS_Interval
        <3> QED
            BY <2>1, <3>1, <3>2, PlacesFinite
    <2> QED
        BY <1>1, <1>4, <1>5, <2>1, <2>2 DEF m
<1>7. \A n \in DOMAIN rest : rest[n].key # key /\ <<rest[n].key, rest[n].result>> \in known
    BY <1>2, <1>3, <1>5
<1>8. ASSUME NEW n \in DOMAIN rest, NEW k \in DOMAIN rest, rest[n].key = rest[k].key
      PROVE  n = k
    <2>1. /\ Nth(places, n) \in DOMAIN cache /\ Nth(places, k) \in DOMAIN cache
          /\ cache[Nth(places, n)].key = cache[Nth(places, k)].key
        BY <1>3, <1>5, <1>8
    <2>2. Nth(places, n) = Nth(places, k) /\ Nth(places, n) \in Nat
        BY <1>1, <1>2, <2>1
    <2>3. ~(n < k) /\ ~(k < n)
        BY <1>5, <2>2
    <2> QED
        BY <1>5, <2>3
<1>9. Len(rest) <= Capacity
    BY <1>1, <1>2, <1>5, <1>6, AgentAssumption
<1>10. CacheFits(rest, known)
    BY <1>5, <1>7, <1>8, <1>9 DEF CacheFits
<1> QED
    BY <1>6, <1>7, <1>10 DEF Without, rest, places

LEMMA EntryAdded ==
    ASSUME NEW known, NEW rest, CacheFits(rest, known), Len(rest) < Capacity,
           NEW entry \in Entry, \A i \in DOMAIN rest : rest[i].key # entry.key,
           <<entry.key, entry.result>> \in known
    PROVE  CacheFits(Append(rest, entry), known)
<1> DEFINE all == Append(rest, entry)
<1>1. /\ rest \in Seq(Entry) /\ Len(rest) \in Nat /\ DOMAIN rest = 1 .. Len(rest)
      /\ \A i \in DOMAIN rest : <<rest[i].key, rest[i].result>> \in known
      /\ \A i, j \in DOMAIN rest : rest[i].key = rest[j].key => i = j
    BY DEF CacheFits
<1>2. /\ all \in Seq(Entry) /\ Len(all) = Len(rest) + 1 /\ DOMAIN all = 1 .. Len(rest) + 1
      /\ \A i \in DOMAIN rest : all[i] = rest[i]
      /\ all[Len(rest) + 1] = entry
    BY <1>1
<1>3. \A i \in DOMAIN all : i \in DOMAIN rest \/ i = Len(rest) + 1
    BY <1>1, <1>2
<1> HIDE DEF all
<1>4. \A i \in DOMAIN all : <<all[i].key, all[i].result>> \in known
    BY <1>1, <1>2, <1>3
<1>5. \A i, j \in DOMAIN all : all[i].key = all[j].key => i = j
    BY <1>1, <1>2, <1>3
<1>6. Len(all) <= Capacity
    BY <1>1, <1>2, AgentAssumption
<1> QED
    BY <1>2, <1>4, <1>5, <1>6 DEF CacheFits, all

LEMMA OldestEvicted ==
    ASSUME NEW known, NEW rest, CacheFits(rest, known), Len(rest) = Capacity
    PROVE  /\ CacheFits(Tail(rest), known) /\ Len(Tail(rest)) < Capacity
           /\ \A i \in DOMAIN Tail(rest) : \E j \in DOMAIN rest : Tail(rest)[i] = rest[j]
<1> DEFINE t == Tail(rest)
<1>1. /\ rest \in Seq(Entry) /\ Len(rest) \in Nat \ {0} /\ DOMAIN rest = 1 .. Len(rest)
      /\ \A i \in DOMAIN rest : <<rest[i].key, rest[i].result>> \in known
      /\ \A i, j \in DOMAIN rest : rest[i].key = rest[j].key => i = j
    BY AgentAssumption DEF CacheFits
<1>2. /\ t \in Seq(Entry) /\ Len(t) = Len(rest) - 1 /\ DOMAIN t = 1 .. Len(rest) - 1
      /\ \A i \in DOMAIN t : t[i] = rest[i + 1] /\ i + 1 \in DOMAIN rest
    BY <1>1
<1> HIDE DEF t
<1>3. \A i \in DOMAIN t : <<t[i].key, t[i].result>> \in known
    BY <1>1, <1>2
<1>4. \A i, j \in DOMAIN t : t[i].key = t[j].key => i = j
    <2> SUFFICES ASSUME NEW i \in DOMAIN t, NEW j \in DOMAIN t, t[i].key = t[j].key
                 PROVE  i = j
        OBVIOUS
    <2>1. i + 1 = j + 1
        BY <1>1, <1>2
    <2> QED
        BY <1>1, <1>2, <2>1
<1>5. Len(t) < Capacity
    BY <1>1, <1>2
<1> QED
    BY <1>1, <1>2, <1>3, <1>4, <1>5 DEF CacheFits, t

LEMMA TouchedFits ==
    ASSUME NEW known, CacheFits(cache, known), NEW key, Has(key)
    PROVE  /\ CacheFits(Touched(key), known)
           /\ <<key, Cached(key)>> \in known /\ Cached(key) \in Results
<1> DEFINE i == PlaceOf(key)
           rest == Without(key)
           entry == [key |-> key, result |-> Cached(key)]
<1>1. i \in DOMAIN cache /\ cache[i].key = key
    BY DEF Has, PlaceOf
<1>2. cache[i] \in Entry /\ <<cache[i].key, cache[i].result>> \in known
    BY <1>1 DEF CacheFits
<1>3. /\ Cached(key) = cache[i].result /\ Cached(key) \in Results
      /\ <<key, Cached(key)>> \in known
    BY <1>1, <1>2 DEF Cached, Entry
<1>4. entry \in Entry /\ entry.key = key /\ entry.result = Cached(key)
    BY <1>1, <1>2, <1>3 DEF Entry
<1>5. /\ CacheFits(rest, known) /\ Len(rest) < Len(cache)
      /\ \A j \in DOMAIN rest : rest[j].key # key
    BY WithoutIs
<1>6. Len(rest) < Capacity
    <2>1. Len(cache) \in Nat /\ Len(rest) \in Nat /\ Len(cache) <= Capacity
        BY <1>5 DEF CacheFits
    <2> QED
        BY <1>5, <2>1, AgentAssumption
<1>7. Touched(key) = Append(rest, entry)
    BY DEF Touched
<1> HIDE DEF entry, rest
<1>8. CacheFits(Append(rest, entry), known)
    BY <1>3, <1>4, <1>5, <1>6, EntryAdded
<1> QED
    BY <1>3, <1>7, <1>8

LEMMA PutFits ==
    ASSUME NEW known, CacheFits(cache, known), NEW call \in Calls, NEW result \in Results,
           <<Key(call), result>> \in known
    PROVE  CacheFits(Put(Key(call), result), known)
<1> DEFINE key == Key(call)
           rest == Without(key)
           kept == IF Len(rest) = Capacity THEN Tail(rest) ELSE rest
           entry == [key |-> key, result |-> result]
<1>1. entry \in Entry /\ entry.key = key /\ entry.result = result
    BY DEF Entry
<1>2. Put(key, result) = Append(kept, entry)
    BY DEF Put
<1> HIDE DEF key, entry
<1>3. CacheFits(rest, known) /\ \A j \in DOMAIN rest : rest[j].key # key
    BY WithoutIs
<1> HIDE DEF rest
<1>4. /\ CacheFits(kept, known) /\ Len(kept) < Capacity
      /\ \A j \in DOMAIN kept : kept[j].key # key
    <2>1. Len(rest) \in Nat /\ Len(rest) <= Capacity
        BY <1>3 DEF CacheFits
    <2>2. CASE Len(rest) = Capacity
        BY <1>3, <2>2, OldestEvicted
    <2>3. CASE Len(rest) # Capacity
        BY <1>3, <2>1, <2>3, AgentAssumption
    <2> QED
        BY <2>2, <2>3
<1> HIDE DEF kept
<1>5. <<entry.key, entry.result>> \in known
    BY <1>1 DEF key
<1>6. CacheFits(Append(kept, entry), known)
    BY <1>1, <1>4, <1>5, EntryAdded
<1> QED
    BY <1>2, <1>6 DEF key

LEMMA AgentInitFits ==
    ASSUME AgentInit
    PROVE  AgentIInv
<1>1. /\ cache = <<>> /\ ran = {} /\ turn = [t \in Turns |-> NewTurn]
    BY DEF AgentInit
<1>2. CacheFits(cache, ran)
    BY <1>1, AgentAssumption DEF CacheFits
<1>3. TurnFits(NewTurn, ran)
    <2>1. NewTurn \in TurnRecord
        BY AgentAssumption DEF NewTurn, TurnRecord
    <2> QED
        BY <2>1, AgentAssumption DEF TurnFits, NewTurn, Counted, FirstOf
<1> QED
    BY <1>1, <1>2, <1>3 DEF AgentIInv

\* One turn goes on, and it, and the cache, fit what has been run.
LEMMA TurnReplaced ==
    ASSUME AgentIInv, NEW t \in Turns, NEW u, turn' = [turn EXCEPT ![t] = u],
           ran \subseteq ran', ran' \subseteq {Key(c) : c \in Calls} \X Results,
           TurnFits(u, ran'), CacheFits(cache', ran')
    PROVE  AgentIInv'
<1>1. /\ DOMAIN turn' = Turns /\ turn'[t] = u
      /\ \A other \in Turns : other # t => turn'[other] = turn[other]
      /\ turn' = [other \in Turns |-> turn'[other]]
    BY DEF AgentIInv
<1>2. \A other \in Turns : TurnFits(turn[other], ran')
    BY KnownIsKept DEF AgentIInv
<1>3. \A other \in Turns : TurnFits(turn'[other], ran')
    BY <1>1, <1>2
<1> QED
    BY <1>1, <1>3 DEF AgentIInv

\* The fields of a turn, which its record's type is made of.
LEMMA TurnHas ==
    ASSUME NEW known, NEW u, TurnFits(u, known)
    PROVE  /\ u \in TurnRecord /\ u.iteration \in Nat
           /\ u.conversation \in Seq(Rounds) /\ u.calls \in Seq(Calls)
           /\ u.results \in Seq(Results)
           /\ Len(u.conversation) \in Nat /\ Len(u.calls) \in Nat /\ Len(u.results) \in Nat
           /\ DOMAIN u.calls = 1 .. Len(u.calls) /\ DOMAIN u.results = 1 .. Len(u.results)
           /\ DOMAIN u.conversation = 1 .. Len(u.conversation)
<1>1. u \in TurnRecord
    BY DEF TurnFits
<1>2. /\ u.iteration \in 0 .. MaxIterations + 1
      /\ u.conversation \in Seq(Rounds) /\ u.calls \in Seq(Calls)
      /\ u.results \in Seq(Results)
    BY <1>1 DEF TurnRecord
<1> QED
    BY <1>1, <1>2, AgentAssumption

\* One more result, for the next of the calls.
LEMMA ResultAdded ==
    ASSUME NEW known, NEW u, TurnFits(u, known), Len(u.results) < Len(u.calls),
           u.phase \in {"tools", "running"},
           NEW result \in Results, <<Key(u.calls[Len(u.results) + 1]), result>> \in known
    PROVE  TurnFits([u EXCEPT !.phase = "tools", !.results = Append(@, result)], known)
<1> DEFINE more == Append(u.results, result)
           v == [u EXCEPT !.phase = "tools", !.results = more]
<1>1. /\ u \in TurnRecord /\ u.calls \in Seq(Calls) /\ u.results \in Seq(Results)
      /\ Len(u.calls) \in Nat /\ Len(u.results) \in Nat
      /\ DOMAIN u.results = 1 .. Len(u.results)
    BY TurnHas
<1>2. /\ more \in Seq(Results) /\ Len(more) = Len(u.results) + 1
      /\ DOMAIN more = 1 .. Len(u.results) + 1
      /\ \A i \in DOMAIN u.results : more[i] = u.results[i]
      /\ more[Len(u.results) + 1] = result
    BY <1>1
<1> HIDE DEF more
<1>3. /\ v \in TurnRecord /\ v.phase = "tools" /\ v.results = more
      /\ v.calls = u.calls /\ v.conversation = u.conversation
      /\ v.iteration = u.iteration
    BY <1>1, <1>2 DEF TurnRecord
<1>4. FirstOf(u.calls, more, known)
    <2>1. \A i \in DOMAIN more : i \in DOMAIN u.results \/ i = Len(u.results) + 1
        BY <1>1, <1>2
    <2>2. \A i \in DOMAIN u.results : <<Key(u.calls[i]), u.results[i]>> \in known
        BY DEF TurnFits, FirstOf
    <2>3. \A i \in DOMAIN more : <<Key(u.calls[i]), more[i]>> \in known
        BY <1>2, <2>1, <2>2
    <2>4. Len(more) <= Len(u.calls)
        BY <1>1, <1>2
    <2> QED
        BY <2>3, <2>4 DEF FirstOf
<1>5. Counted(v)
    BY <1>3 DEF TurnFits, Counted
<1> HIDE DEF v
<1>6. TurnFits(v, known)
    BY <1>3, <1>4, <1>5 DEF TurnFits
<1> QED
    BY <1>6 DEF v, more

\* A turn that goes on, or ends, with nothing new but where it is.
LEMMA PhaseChanged ==
    ASSUME NEW known, NEW u, TurnFits(u, known), NEW v \in TurnRecord,
           v.calls = u.calls, v.results = u.results, v.conversation = u.conversation,
           Counted(v), v.phase = "running" => Len(u.results) < Len(u.calls)
    PROVE  TurnFits(v, known)
    BY DEF TurnFits

LEMMA AgentStepFits ==
    ASSUME AgentIInv, [AgentNext]_agentVars
    PROVE  AgentIInv'
<1>1. CASE UNCHANGED agentVars
    BY <1>1 DEF agentVars, AgentIInv
<1>2. ASSUME NEW t \in Turns, Begin(t) \/ Work(t)
      PROVE  AgentIInv'
    <2> DEFINE u == turn[t]
    <2>1. /\ TurnFits(u, ran) /\ CacheFits(cache, ran)
          /\ ran \subseteq {Key(c) : c \in Calls} \X Results
          /\ DOMAIN turn = Turns
        BY DEF AgentIInv
    <2>2. /\ u \in TurnRecord /\ u.iteration \in Nat
          /\ u.conversation \in Seq(Rounds) /\ u.calls \in Seq(Calls)
          /\ u.results \in Seq(Results)
          /\ Len(u.conversation) \in Nat /\ Len(u.calls) \in Nat /\ Len(u.results) \in Nat
          /\ DOMAIN u.calls = 1 .. Len(u.calls) /\ DOMAIN u.results = 1 .. Len(u.results)
          /\ DOMAIN u.conversation = 1 .. Len(u.conversation)
        BY <2>1, TurnHas
    <2>3. Counted(u) /\ FirstOf(u.calls, u.results, ran)
        BY <2>1 DEF TurnFits
    <2>4. Len(u.results) <= Len(u.calls)
        BY <2>3 DEF FirstOf
    \* What is left to show of a step that runs nothing and caches nothing.
    <2>5. ASSUME NEW v, turn' = [turn EXCEPT ![t] = v], UNCHANGED <<cache, ran>>,
                 TurnFits(v, ran)
          PROVE  AgentIInv'
        <3>1. CacheFits(cache', ran') /\ TurnFits(v, ran')
            BY <2>1, <2>5
        <3> QED
            BY <2>1, <2>5, <3>1, TurnReplaced
    <2>6. CASE Begin(t)
        <3> DEFINE v == [u EXCEPT !.phase = "thinking"]
        <3>1. turn' = [turn EXCEPT ![t] = v] /\ UNCHANGED <<cache, ran>> /\ u.phase = "new"
            BY <2>1, <2>6 DEF Begin
        <3>2. /\ v \in TurnRecord /\ v.phase = "thinking" /\ v.iteration = u.iteration
              /\ v.calls = u.calls /\ v.results = u.results
              /\ v.conversation = u.conversation
            BY <2>2 DEF TurnRecord
        <3>3. Counted(v)
            BY <2>2, <2>3, <3>1, <3>2, AgentAssumption DEF Counted
        <3> HIDE DEF v
        <3>4. TurnFits(v, ran)
            BY <2>1, <3>2, <3>3, PhaseChanged
        <3> QED
            BY <2>5, <3>1, <3>4
    <2>7. CASE Ask(t)
        <3> DEFINE v == IF u.iteration + 1 > MaxIterations
                        THEN [u EXCEPT !.phase = "over", !.iteration = u.iteration + 1,
                                       !.outcome = "max"]
                        ELSE [u EXCEPT !.phase = "asking", !.iteration = u.iteration + 1]
        <3>1. /\ turn' = [turn EXCEPT ![t] = v] /\ UNCHANGED <<cache, ran>>
              /\ u.phase = "thinking"
            BY <2>1, <2>7 DEF Ask
        <3>2. u.iteration + 1 \in 0 .. MaxIterations + 1 /\ u.iteration = Len(u.conversation)
              /\ u.iteration <= MaxIterations
            BY <2>2, <2>3, <3>1, AgentAssumption DEF Counted
        <3>3. /\ v \in TurnRecord /\ v.phase \in {"over", "asking"}
              /\ v.iteration = u.iteration + 1
              /\ v.phase = "asking" => u.iteration + 1 <= MaxIterations
              /\ v.calls = u.calls /\ v.results = u.results
              /\ v.conversation = u.conversation
            <4>1. CASE u.iteration + 1 > MaxIterations
                BY <2>2, <3>2, <4>1 DEF TurnRecord
            <4>2. CASE ~(u.iteration + 1 > MaxIterations)
                <5>1. u.iteration + 1 <= MaxIterations
                    BY <2>2, <4>2, AgentAssumption
                <5> QED
                    BY <2>2, <3>2, <4>2, <5>1 DEF TurnRecord
            <4> QED
                BY <4>1, <4>2
        <3> HIDE DEF v
        <3>4. Counted(v)
            BY <2>2, <3>2, <3>3, AgentAssumption DEF Counted
        <3>5. TurnFits(v, ran)
            BY <2>1, <3>3, <3>4, PhaseChanged
        <3> QED
            BY <2>5, <3>1, <3>5
    <2>8. ASSUME NEW answer \in Answers, Answered(t, answer)
          PROVE  AgentIInv'
        <3>1. CASE Parse(answer) = <<>>
            <4> DEFINE v == [u EXCEPT !.phase = "over", !.outcome = "text"]
            <4>1. /\ turn' = [turn EXCEPT ![t] = v] /\ UNCHANGED <<cache, ran>>
                BY <2>1, <2>8, <3>1 DEF Answered
            <4>2. /\ v \in TurnRecord /\ v.phase = "over"
                  /\ v.calls = u.calls /\ v.results = u.results
                  /\ v.conversation = u.conversation
                BY <2>2 DEF TurnRecord
            <4>3. Counted(v)
                BY <2>3, <4>2 DEF Counted
            <4> HIDE DEF v
            <4>4. TurnFits(v, ran)
                BY <2>1, <4>2, <4>3, PhaseChanged
            <4> QED
                BY <2>5, <4>1, <4>4
        <3>2. CASE Parse(answer) # <<>>
            <4> DEFINE calls == Parse(answer)
                       v == [u EXCEPT !.phase = "tools", !.calls = calls, !.results = <<>>]
            <4>1. /\ turn' = [turn EXCEPT ![t] = v] /\ UNCHANGED <<cache, ran>>
                  /\ u.phase = "asking"
                BY <2>1, <2>8, <3>2 DEF Answered
            <4>2. calls \in Seq(Calls)
                BY ParseIs
            <4> HIDE DEF calls
            <4>3. /\ v \in TurnRecord /\ v.phase = "tools" /\ v.iteration = u.iteration
                  /\ v.calls = calls /\ v.results = <<>>
                  /\ v.conversation = u.conversation
                <5>1. <<>> \in Seq(Results)
                    OBVIOUS
                <5> QED
                    BY <2>2, <4>2, <5>1 DEF TurnRecord
            <4>4. Counted(v)
                BY <2>3, <4>1, <4>3 DEF Counted
            <4>5. FirstOf(v.calls, v.results, ran)
                BY <4>2, <4>3 DEF FirstOf
            <4> HIDE DEF v
            <4>6. TurnFits(v, ran)
                BY <2>1, <4>3, <4>4, <4>5 DEF TurnFits
            <4> QED
                BY <2>5, <4>1, <4>6
        <3> QED
            BY <3>1, <3>2
    <2>9. CASE ModelFails(t) \/ NotFound(t) \/ ToolFails(t)
        <3> DEFINE v == [u EXCEPT !.phase = "over", !.outcome = "error"]
        <3>1. turn' = [turn EXCEPT ![t] = v] /\ UNCHANGED <<cache, ran>>
            BY <2>1, <2>9 DEF ModelFails, NotFound, ToolFails
        <3>2. /\ v \in TurnRecord /\ v.phase = "over"
              /\ v.calls = u.calls /\ v.results = u.results
              /\ v.conversation = u.conversation
            BY <2>2 DEF TurnRecord
        <3>3. Counted(v)
            BY <2>3, <3>2 DEF Counted
        <3> HIDE DEF v
        <3>4. TurnFits(v, ran)
            BY <2>1, <3>2, <3>3, PhaseChanged
        <3> QED
            BY <2>5, <3>1, <3>4
    <2>10. CASE Reuse(t)
        <3> DEFINE key == Key(NextCall(t))
                   result == Cached(key)
                   v == [u EXCEPT !.phase = "tools", !.results = Append(@, result)]
        <3>1. /\ u.phase = "tools" /\ Len(u.results) < Len(u.calls) /\ Has(key)
              /\ turn' = [turn EXCEPT ![t].results = Append(@, result)]
              /\ cache' = Touched(key) /\ ran' = ran
              /\ key = Key(u.calls[Len(u.results) + 1])
            BY <2>10 DEF Reuse, Pending, NextCall
        <3> HIDE DEF key
        <3>2. CacheFits(Touched(key), ran) /\ <<key, result>> \in ran /\ result \in Results
            BY <2>1, <3>1, TouchedFits
        <3> HIDE DEF result
        <3>3. v = [u EXCEPT !.results = Append(@, result)]
            BY <2>2, <3>1 DEF TurnRecord
        <3>4. turn' = [turn EXCEPT ![t] = v]
            BY <2>1, <3>1, <3>3
        <3>5. TurnFits(v, ran)
            BY <2>1, <3>1, <3>2, ResultAdded
        <3> HIDE DEF v
        <3>6. CacheFits(cache', ran') /\ TurnFits(v, ran')
            BY <3>1, <3>2, <3>5
        <3> QED
            BY <2>1, <3>1, <3>4, <3>6, TurnReplaced
    <2>11. CASE Run(t)
        <3> DEFINE v == [u EXCEPT !.phase = "running"]
        <3>1. /\ turn' = [turn EXCEPT ![t] = v] /\ UNCHANGED <<cache, ran>>
              /\ u.phase = "tools" /\ Len(u.results) < Len(u.calls)
            BY <2>1, <2>11 DEF Run, Pending
        <3>2. /\ v \in TurnRecord /\ v.phase = "running" /\ v.iteration = u.iteration
              /\ v.calls = u.calls /\ v.results = u.results
              /\ v.conversation = u.conversation
            BY <2>2 DEF TurnRecord
        <3>3. Counted(v)
            BY <2>3, <3>1, <3>2 DEF Counted
        <3> HIDE DEF v
        <3>4. TurnFits(v, ran)
            BY <2>1, <3>1, <3>2, <3>3, PhaseChanged
        <3> QED
            BY <2>5, <3>1, <3>4
    <2>12. ASSUME NEW result \in Results, Returns(t, result)
           PROVE  AgentIInv'
        <3> DEFINE call == NextCall(t)
                   v == [u EXCEPT !.phase = "tools", !.results = Append(@, result)]
        <3>1. /\ turn' = [turn EXCEPT ![t] = v]
              /\ cache' = Put(Key(call), result)
              /\ ran' = ran \union {<<Key(call), result>>}
              /\ u.phase = "running" /\ call = u.calls[Len(u.results) + 1]
            BY <2>1, <2>12 DEF Returns, NextCall
        <3> HIDE DEF call
        <3>2. Len(u.results) < Len(u.calls)
            BY <2>1, <3>1 DEF TurnFits
        <3>3. call \in Calls
            BY <2>2, <3>1, <3>2
        <3>4. /\ ran \subseteq ran' /\ <<Key(call), result>> \in ran'
              /\ ran' \subseteq {Key(c) : c \in Calls} \X Results
            BY <2>1, <2>12, <3>1, <3>3
        <3> DEFINE known == ran'
        <3>5. CacheFits(cache, known) /\ TurnFits(u, known)
            BY <2>1, <3>4, KnownIsKept
        <3>6. <<Key(call), result>> \in known
            BY <3>4
        <3> HIDE DEF known
        <3>7. CacheFits(Put(Key(call), result), known)
            BY <2>12, <3>3, <3>5, <3>6, PutFits
        <3>8. TurnFits(v, known)
            BY <2>12, <3>1, <3>2, <3>5, <3>6, ResultAdded
        <3> HIDE DEF v
        <3>9. CacheFits(cache', ran') /\ TurnFits(v, ran')
            BY <3>1, <3>7, <3>8 DEF known
        <3> QED
            BY <3>1, <3>4, <3>9, TurnReplaced
    <2>13. CASE Converse(t)
        <3> DEFINE round == [calls |-> u.calls, results |-> u.results]
                   talk == Append(u.conversation, round)
                   v == [u EXCEPT !.phase = "thinking", !.conversation = talk]
        <3>1. /\ turn' = [turn EXCEPT ![t] = v] /\ UNCHANGED <<cache, ran>>
              /\ u.phase = "tools" /\ ~(Len(u.results) < Len(u.calls))
            BY <2>1, <2>13 DEF Converse, Pending
        <3>2. round \in Rounds /\ round.calls = u.calls /\ round.results = u.results
            BY <2>2 DEF Rounds
        <3>3. Len(round.results) = Len(round.calls) /\ FirstOf(round.calls, round.results, ran)
            BY <2>2, <2>3, <2>4, <3>1, <3>2
        <3> HIDE DEF round
        <3>4. /\ talk \in Seq(Rounds) /\ Len(talk) = Len(u.conversation) + 1
              /\ DOMAIN talk = 1 .. Len(u.conversation) + 1
              /\ \A i \in DOMAIN u.conversation : talk[i] = u.conversation[i]
              /\ talk[Len(u.conversation) + 1] = round
            BY <2>2, <3>2
        <3> HIDE DEF talk
        <3>5. /\ v \in TurnRecord /\ v.phase = "thinking" /\ v.iteration = u.iteration
              /\ v.calls = u.calls /\ v.results = u.results /\ v.conversation = talk
            BY <2>2, <3>4 DEF TurnRecord
        <3> HIDE DEF v
        <3>6. Counted(v)
            BY <2>2, <2>3, <3>1, <3>4, <3>5, AgentAssumption DEF Counted
        <3>7. \A i \in DOMAIN talk :
                /\ Len(talk[i].results) = Len(talk[i].calls)
                /\ FirstOf(talk[i].calls, talk[i].results, ran)
            <4>1. \A i \in DOMAIN talk :
                    i \in DOMAIN u.conversation \/ i = Len(u.conversation) + 1
                BY <2>2, <3>4
            <4>2. \A i \in DOMAIN u.conversation :
                    /\ Len(u.conversation[i].results) = Len(u.conversation[i].calls)
                    /\ FirstOf(u.conversation[i].calls, u.conversation[i].results, ran)
                BY <2>1 DEF TurnFits
            <4> QED
                BY <3>3, <3>4, <4>1, <4>2
        <3>8. TurnFits(v, ran)
            BY <2>3, <3>5, <3>6, <3>7 DEF TurnFits
        <3> QED
            BY <2>5, <3>1, <3>8
    <2> QED
        BY <1>2, <2>6, <2>7, <2>8, <2>9, <2>10, <2>11, <2>12, <2>13 DEF Work
<1> QED
    BY <1>1, <1>2 DEF AgentNext

LEMMA AgentKeeps ==
    ASSUME AgentIInv
    PROVE  AgentInv
<1>1. /\ CacheFits(cache, ran) /\ turn = [t \in Turns |-> turn[t]]
      /\ ran \subseteq {Key(c) : c \in Calls} \X Results
      /\ \A t \in Turns : TurnFits(turn[t], ran)
    BY DEF AgentIInv
<1>2. AgentTypeOK
    <2>1. cache \in Seq([key : {Key(c) : c \in Calls}, result : Results])
        BY <1>1 DEF CacheFits, Entry
    <2>2. \A t \in Turns : turn[t] \in TurnRecord
        BY <1>1 DEF TurnFits
    <2>3. turn \in [Turns -> TurnRecord]
        BY <1>1, <2>2
    <2> QED
        BY <1>1, <2>1, <2>3 DEF AgentTypeOK, TurnRecord
<1>3. AsksAreBounded
    BY <1>1 DEF TurnFits, Counted, AsksAreBounded
<1>4. ResultsAreTheCalls
    <2>1. ASSUME NEW t \in Turns, NEW i \in DOMAIN turn[t].conversation
          PROVE  LET round == turn[t].conversation[i] IN
                 /\ Len(round.results) = Len(round.calls)
                 /\ \A j \in DOMAIN round.calls :
                        <<Key(round.calls[j]), round.results[j]>> \in ran
        <3> DEFINE round == turn[t].conversation[i]
        <3>1. /\ turn[t].conversation \in Seq(Rounds)
              /\ DOMAIN turn[t].conversation = 1 .. Len(turn[t].conversation)
            BY <1>1, TurnHas
        <3>2. round \in Rounds
            BY <2>1, <3>1
        <3>3. Len(round.results) = Len(round.calls) /\ FirstOf(round.calls, round.results, ran)
            BY <1>1, <2>1 DEF TurnFits
        <3> HIDE DEF round
        <3>4. DOMAIN round.calls = DOMAIN round.results
            BY <3>2, <3>3 DEF Rounds
        <3>5. \A j \in DOMAIN round.calls : <<Key(round.calls[j]), round.results[j]>> \in ran
            BY <3>3, <3>4 DEF FirstOf
        <3> QED
            BY <3>3, <3>5 DEF round
    <2> QED
        BY <1>1, <2>1 DEF CacheFits, ResultsAreTheCalls
<1> QED
    BY <1>2, <1>3, <1>4 DEF AgentInv

\* However many turns share an executor and its cache, the model is asked no
\* more than MaxIterations times in each, what it is told of its tools is call
\* by call what they returned for those parameters, and the cache, evictions
\* included, has one entry for a key and says nothing else of it.
THEOREM ToolsSaidSo == TerminalSpec => []AgentInv
<1>1. TerminalInit => AgentIInv
    BY AgentInitFits DEF TerminalInit
<1>2. AgentIInv /\ [TerminalNext]_terminalVars => AgentIInv'
    BY AgentStepFits, OthersRest
<1>3. AgentIInv => AgentInv
    BY AgentKeeps
<1> QED
    BY <1>1, <1>2, <1>3, PTL DEF TerminalSpec

-----------------------------------------------------------------------------
(* The TUI and the commands.  A message waits at the end of the panel, or  *)
(* its answer follows it; a command asks a provider that clap let through. *)

TuiFits ==
    /\ DOMAIN tui = {"pc", "mode", "input", "focus", "agent"}
    /\ panel \in Seq({panel[i] : i \in DOMAIN panel}) /\ Len(panel) > 0
    /\ panel[1].about = <<>> /\ panel[1].role # "user"
    /\ tui.pc = "sending" => panel[Len(panel)].role = "user"
    /\ TuiAnswers

CliFits ==
    /\ DOMAIN cli =
        {"pc", "what", "provider", "key", "system", "wire", "found", "printed"}
    /\ cli.pc \in {"parse", "key", "ask", "failed", "done"}
    /\ cli.pc = "key" => cli.provider \in CliNames
    /\ cli.pc = "ask" => cli.provider \in {"deepseek", "openai", "anthropic"}
    /\ CliTells

\* One more message, of which the panel's last says whether it may come.
LEMMA ShownNext ==
    ASSUME TuiFits, NEW x, panel' = Append(panel, x),
           x.role = "user" => tui'.pc = "sending" /\ tui.pc # "sending",
           x.role # "user" /\ x.about # <<>> =>
                tui.pc = "sending" /\ x.about = panel[Len(panel)].text,
           tui.pc = "sending" => x.role # "user" /\ x.about = panel[Len(panel)].text,
           x.role = "assistant" => asked'.turns[2] = [role |-> "user", text |-> <<x.about>>]
    PROVE  /\ panel' \in Seq({panel'[i] : i \in DOMAIN panel'}) /\ Len(panel') > 0
           /\ panel'[1].about = <<>> /\ panel'[1].role # "user"
           /\ panel'[Len(panel')] = x
           /\ TuiAnswers'
<1> DEFINE n == Len(panel)
           more == Append(panel, x)
<1>1. /\ n \in Nat /\ n > 0 /\ DOMAIN panel = 1 .. n /\ panel = [i \in 1 .. n |-> panel[i]]
      /\ panel[1].about = <<>> /\ panel[1].role # "user"
    BY DEF TuiFits
<1>2. /\ tui.pc = "sending" => panel[n].role = "user"
      /\ x.role # "user" /\ x.about # <<>> => tui.pc = "sending" /\ x.about = panel[n].text
      /\ tui.pc = "sending" => x.role # "user" /\ x.about = panel[n].text
    BY DEF TuiFits
<1>3. \A i \in 1 .. n :
        /\ panel[i].role = "user" =>
            IF i = n THEN tui.pc = "sending"
            ELSE panel[i + 1].role # "user" /\ panel[i + 1].about = panel[i].text
        /\ panel[i].role # "user" /\ panel[i].about # <<>> => panel[i - 1].role = "user"
    BY <1>1 DEF TuiFits, TuiAnswers
<1>4. panel' = more
    OBVIOUS
<1> HIDE DEF n
<1>5. more = [i \in 1 .. n + 1 |-> IF i = n + 1 THEN x ELSE panel[i]]
    BY <1>1, AppendIs
<1> HIDE DEF more
<1>6. /\ DOMAIN more = 1 .. n + 1 /\ more[n + 1] = x
      /\ \A i \in 1 .. n : more[i] = panel[i]
      /\ more = [i \in 1 .. n + 1 |-> more[i]]
    BY <1>1, <1>5
<1>7. more \in Seq({more[i] : i \in DOMAIN more}) /\ Len(more) = n + 1
    <2> DEFINE k == n + 1
    <2>1. k \in Nat /\ DOMAIN more = 1 .. k /\ more = [i \in 1 .. k |-> more[i]]
        BY <1>1, <1>6
    <2> HIDE DEF k
    <2>2. more \in Seq({more[i] : i \in 1 .. k}) /\ Len(more) = k
        BY <2>1, AppendIs
    <2>3. more \in Seq({more[i] : i \in DOMAIN more}) /\ Len(more) = k
        BY <2>1, <2>2
    <2> QED
        BY <2>3 DEF k
<1>8. more[1] = panel[1]
    <2>1. 1 \in 1 .. n
        BY <1>1
    <2> QED
        BY <1>6, <2>1
<1>9. n \in 1 .. n
    BY <1>1
<1>10. tui.pc = "sending" <=> panel[n].role = "user"
    BY <1>2, <1>3, <1>9
<1>11. ASSUME NEW i \in 1 .. n + 1
      PROVE  /\ more[i].role = "user" =>
                IF i = n + 1 THEN tui'.pc = "sending"
                ELSE more[i + 1].role # "user" /\ more[i + 1].about = more[i].text
             /\ more[i].role # "user" /\ more[i].about # <<>> => more[i - 1].role = "user"
    <2>1. CASE i = n + 1
        <3>1. i - 1 = n
            BY <1>1, <2>1
        <3>2. more[i] = x /\ more[i - 1] = panel[n]
            BY <1>6, <1>9, <2>1, <3>1
        <3> QED
            BY <1>2, <1>10, <2>1, <3>2
    <2>2. CASE i = n
        <3>1. more[i] = panel[n] /\ more[i + 1] = x
            BY <1>6, <1>9, <2>2
        <3>2. i # n + 1 /\ i \in 1 .. n
            BY <1>1, <2>2
        <3>3. i = 1 \/ i - 1 \in 1 .. n
            BY <1>1, <3>2
        <3>4. more[i].role # "user" /\ more[i].about # <<>> => more[i - 1].role = "user"
            BY <1>1, <1>3, <1>6, <2>2, <3>1, <3>2, <3>3
        <3> QED
            BY <1>2, <1>10, <3>1, <3>2, <3>4
    <2>3. CASE i \in 1 .. n - 1
        <3>1. /\ i \in 1 .. n /\ i + 1 \in 1 .. n /\ i # n /\ i # n + 1
              /\ i = 1 \/ i - 1 \in 1 .. n
            BY <1>1, <2>3
        <3>2. more[i] = panel[i] /\ more[i + 1] = panel[i + 1]
            BY <1>6, <3>1
        <3> QED
            BY <1>1, <1>3, <1>6, <3>1, <3>2
    <2> QED
        BY <1>1, <2>1, <2>2, <2>3
<1>12. ASSUME NEW i \in 1 .. n + 1, more[i].role = "assistant", i = Len(more)
       PROVE  asked'.turns[2] = [role |-> "user", text |-> <<more[i].about>>]
    BY <1>6, <1>7, <1>12
<1>13. TuiAnswers'
    <2>1. ASSUME NEW i \in DOMAIN panel'
          PROVE  /\ panel'[i].role = "user" =>
                    IF i = Len(panel') THEN tui'.pc = "sending"
                    ELSE panel'[i + 1].role # "user" /\ panel'[i + 1].about = panel'[i].text
                 /\ panel'[i].role # "user" /\ panel'[i].about # <<>>
                        => panel'[i - 1].role = "user"
                 /\ panel'[i].role = "assistant" /\ i = Len(panel') =>
                        asked'.turns[2] = [role |-> "user", text |-> <<panel'[i].about>>]
        <3>1. i \in 1 .. n + 1
            BY <1>4, <1>6
        <3> QED
            BY <1>4, <1>7, <1>11, <1>12, <3>1
    <2> QED
        BY <2>1 DEF TuiAnswers
<1>14. panel' \in Seq({panel'[i] : i \in DOMAIN panel'})
    BY <1>4, <1>7
<1>15. Len(panel') > 0 /\ panel'[Len(panel')] = x
    BY <1>1, <1>4, <1>6, <1>7
<1>16. panel'[1].about = <<>> /\ panel'[1].role # "user"
    BY <1>1, <1>4, <1>8
<1> QED
    BY <1>13, <1>14, <1>15, <1>16

LEMMA TuiInitFits ==
    ASSUME TuiInit
    PROVE  TuiFits
<1>1. /\ panel = <<Notice("Welcome")>> /\ tui.pc = "loop"
      /\ DOMAIN tui = {"pc", "mode", "input", "focus", "agent"}
    BY DEF TuiInit
<1>2. Notice("Welcome").role = "system" /\ Notice("Welcome").about = <<>>
    BY DEF Notice, Shown
<1> DEFINE x == Notice("Welcome")
<1> HIDE DEF x
<1>3. panel = <<x>> /\ x.role = "system" /\ x.about = <<>>
    BY <1>1, <1>2 DEF x
<1>4. /\ Len(panel) = 1 /\ DOMAIN panel = {1} /\ panel[1] = x
      /\ panel \in Seq({panel[i] : i \in DOMAIN panel})
    BY <1>3
<1> QED
    BY <1>1, <1>3, <1>4 DEF TuiFits, TuiAnswers

\* What llama.cpp was sent for a message is the message, after the instructions.
LEMMA LlamaIsAsked ==
    ASSUME NEW reply
    PROVE  SendRequest("llamacpp", TuiRequest, reply).wire.turns[2]
            = [role |-> "user", text |-> <<Message>>]
<1> DEFINE first == Said("system", "instructions")
           second == Said("user", Message)
           ms == <<first, second>>
<1>1. second.role = "user" /\ second.content = PlainText(Message)
    BY DEF Said
<1>2. TuiRequest.messages = ms
    BY DEF TuiRequest
<1> HIDE DEF first, second
<1>3. DOMAIN ms = 1 .. 2 /\ ms[2] = second
    OBVIOUS
<1> HIDE DEF ms
<1>4. SendRequest("llamacpp", TuiRequest, reply).wire.turns
        = [i \in DOMAIN ms |-> Turn(ms[i].role, ms[i])]
    BY <1>2 DEF SendRequest, LlamaCppSend, LlamaCppPrompt, Exchange, Wire
<1>5. SendRequest("llamacpp", TuiRequest, reply).wire.turns[2] = Turn("user", second)
    BY <1>1, <1>3, <1>4
<1> QED
    BY <1>1, <1>5, PlainTextIs DEF Turn

LEMMA TuiStepFits ==
    ASSUME TuiFits, [TuiNext]_tuiVars
    PROVE  TuiFits'
<1>1. /\ DOMAIN tui = {"pc", "mode", "input", "focus", "agent"}
      /\ tui.pc = "sending" => panel[Len(panel)].role = "user"
    BY DEF TuiFits
<1>2. ASSUME panel' = panel, asked' = asked, tui'.pc # "sending", tui.pc # "sending",
             DOMAIN tui' = DOMAIN tui
      PROVE  TuiFits'
    BY <1>2 DEF TuiFits, TuiAnswers
<1>3. CASE UNCHANGED tuiVars
    BY <1>3 DEF tuiVars, TuiFits, TuiAnswers
<1>4. ASSUME NEW key, EnterMode(key) \/ LeaveMode(key) \/ TypeLetter(key)
      PROVE  TuiFits'
    BY <1>1, <1>2, <1>4 DEF EnterMode, LeaveMode, TypeLetter, InMode
<1>5. CASE Quit \/ CycleFocus \/ EraseLetter
    BY <1>1, <1>2, <1>5 DEF Quit, CycleFocus, EraseLetter, InMode
<1>6. CASE ToggleAgentMode
    <2> DEFINE x == Notice(IF tui.agent THEN "disabled" ELSE "enabled")
    <2>1. /\ panel' = Append(panel, x) /\ tui.pc = "loop" /\ tui'.pc = "loop"
          /\ DOMAIN tui' = DOMAIN tui
        BY <1>1, <1>6 DEF ToggleAgentMode, InMode
    <2>2. x.role = "system" /\ x.about = <<>>
        BY DEF Notice, Shown
    <2> HIDE DEF x
    <2>3. /\ panel' \in Seq({panel'[i] : i \in DOMAIN panel'}) /\ Len(panel') > 0
          /\ panel'[1].about = <<>> /\ panel'[1].role # "user"
          /\ TuiAnswers'
        BY <2>1, <2>2, ShownNext
    <2> QED
        BY <1>1, <2>1, <2>3 DEF TuiFits
<1>7. CASE SendMessage
    <2> DEFINE x == Shown("user", tui.input, tui.input)
    <2>1. /\ panel' = Append(panel, x) /\ tui.pc = "loop" /\ tui'.pc = "sending"
          /\ DOMAIN tui' = DOMAIN tui
        BY <1>1, <1>7 DEF SendMessage, InMode
    <2>2. x.role = "user"
        BY DEF Shown
    <2> HIDE DEF x
    <2>3. /\ panel' \in Seq({panel'[i] : i \in DOMAIN panel'}) /\ Len(panel') > 0
          /\ panel'[1].about = <<>> /\ panel'[1].role # "user"
          /\ panel'[Len(panel')] = x /\ TuiAnswers'
        BY <2>1, <2>2, ShownNext
    <2> QED
        BY <1>1, <2>1, <2>2, <2>3 DEF TuiFits
<1>8. ASSUME NEW reply, LlamaAnswers(reply)
      PROVE  TuiFits'
    <2> DEFINE e == SendRequest("llamacpp", TuiRequest, reply)
               x == IF e.result.ok THEN Shown("assistant", ResponseText(e.result), Message)
                    ELSE Shown("system", e.result.error, Message)
    <2>1. /\ panel' = Append(panel, x) /\ asked' = e.wire
          /\ tui.pc = "sending" /\ tui' = [tui EXCEPT !.pc = "loop"]
        BY <1>8 DEF LlamaAnswers
    <2>2. x.role \in {"assistant", "system"} /\ x.about = Message
        BY DEF Shown
    <2>3. e.wire.turns[2] = [role |-> "user", text |-> <<Message>>]
        BY LlamaIsAsked
    <2> HIDE DEF x, e
    <2>4. tui'.pc = "loop" /\ DOMAIN tui' = DOMAIN tui
        BY <1>1, <2>1
    <2>5. x.role = "assistant" => asked'.turns[2] = [role |-> "user", text |-> <<x.about>>]
        BY <2>1, <2>2, <2>3
    <2>6. x.about = panel[Len(panel)].text
        BY <2>2 DEF Message
    <2>7. /\ panel' \in Seq({panel'[i] : i \in DOMAIN panel'}) /\ Len(panel') > 0
          /\ panel'[1].about = <<>> /\ panel'[1].role # "user"
          /\ TuiAnswers'
        BY <2>1, <2>2, <2>4, <2>5, <2>6, ShownNext
    <2> QED
        BY <1>1, <2>4, <2>7 DEF TuiFits
<1> QED
    BY <1>3, <1>4, <1>5, <1>6, <1>7, <1>8 DEF TuiNext

LEMMA CliInitFits ==
    ASSUME CliInit
    PROVE  CliFits
    BY DEF CliInit, CliFits, Fresh, CliTells

LEMMA CliStepFits ==
    ASSUME CliFits, [CliNext]_cliVars
    PROVE  CliFits'
<1> DEFINE Fields == {"pc", "what", "provider", "key", "system", "wire", "found", "printed"}
<1>1. /\ DOMAIN cli = Fields
      /\ cli.pc = "key" => cli.provider \in CliNames
      /\ cli.pc = "ask" => cli.provider \in {"deepseek", "openai", "anthropic"}
    BY DEF CliFits
<1>2. CASE UNCHANGED cliVars
    BY <1>2 DEF cliVars, CliFits, CliTells
<1>3. ASSUME NEW what, NEW name \in CliNames, NEW key, NEW s, ParseCommand(what, name, key, s)
      PROVE  CliFits'
    BY <1>1, <1>3 DEF ParseCommand, CliFits, CliTells
<1>4. ASSUME NEW own, NEW generic, Prepare(own, generic)
      PROVE  CliFits'
    <2>1. cli.pc = "key" /\ cli.provider \in {"deepseek", "openai", "anthropic", "ollama"}
        BY <1>1, <1>4, CliAssumption DEF Prepare
    <2>2. CanBuild(cli.provider) => Built(cli.provider) \in {"deepseek", "openai", "anthropic"}
        BY <2>1 DEF CanBuild, Built, ProviderNames
    <2> DEFINE key == IF cli.what = "info" THEN "dummy"
                      ELSE ApiKey(cli.provider, cli.key, own, generic)
    <2>3. cli' = IF key # "" /\ CanBuild(cli.provider)
                 THEN [cli EXCEPT !.pc = "ask", !.key = key, !.provider = Built(@)]
                 ELSE [cli EXCEPT !.pc = "failed", !.key = key]
        BY <1>4 DEF Prepare
    <2> HIDE DEF key
    <2>4. CASE key # "" /\ CanBuild(cli.provider)
        BY <1>1, <2>2, <2>3, <2>4 DEF CliFits, CliTells
    <2>5. CASE ~(key # "" /\ CanBuild(cli.provider))
        BY <1>1, <2>3, <2>5 DEF CliFits, CliTells
    <2> QED
        BY <2>4, <2>5
<1>5. ASSUME NEW reply \in CliReplies, Chat(reply)
      PROVE  CliFits'
    <2> DEFINE x == SendRequest(cli.provider, CliRequest, reply)
    <2>1. /\ cli.pc = "ask" /\ cli.what = "chat"
          /\ cli' = IF x.result.ok /\ HasText(x.result)
                    THEN [cli EXCEPT !.pc = "done", !.wire = x.wire, !.found = reply,
                                     !.printed = ResponseText(x.result)]
                    ELSE [cli EXCEPT !.pc = "failed", !.wire = x.wire, !.found = reply]
        BY <1>5 DEF Chat
    <2>2. ASSUME x.result.ok, HasText(x.result)
          PROVE  /\ reply.kind = "answer"
                 /\ ResponseText(x.result) = FirstOrEmpty(reply.texts)[1]
        <3>1. \/ x.result = Err("InvalidRequest")
              \/ reply.kind # "answer" /\ x.result = Failed(reply)
              \/ reply.kind = "answer" /\ x.result.texts \in {reply.texts, FirstOrEmpty(reply.texts)}
            BY <1>1, <2>1 DEF SendRequest, OpenAiSend, DeepSeekSend, AnthropicSend, Unsent,
                Exchange, OpenAiResponse, DeepSeekResponse, AnthropicResponse, Ok
        <3>2. reply.kind # "answer" => ~Failed(reply).ok
            BY <1>5, CliAssumption DEF Failed, Err, ReplyKinds
        <3>3. ~Err("InvalidRequest").ok
            BY DEF Err
        <3>4. reply.kind = "answer" /\ x.result.texts \in {reply.texts, FirstOrEmpty(reply.texts)}
            BY <2>2, <3>1, <3>2, <3>3
        <3> HIDE DEF x
        <3> QED
            BY <2>2, <3>4 DEF HasText, ResponseText, FirstOrEmpty
    <2> HIDE DEF x
    <2>3. CASE x.result.ok /\ HasText(x.result)
        BY <1>1, <2>1, <2>2, <2>3 DEF CliFits, CliTells
    <2>4. CASE ~(x.result.ok /\ HasText(x.result))
        BY <1>1, <2>1, <2>4 DEF CliFits, CliTells
    <2> QED
        BY <2>3, <2>4
<1>6. ASSUME NEW probe \in Probes, Health(probe)
      PROVE  CliFits'
    <2> DEFINE h == ServicesOf(cli.provider, probe, <<>>).health
    <2>1. /\ cli.pc = "ask" /\ cli.what = "health"
          /\ cli' = [cli EXCEPT !.pc = "done", !.found = probe, !.printed = h]
        BY <1>6 DEF Health
    <2>2. h = HealthOfProbe(probe)
        BY <1>1, <2>1 DEF ServicesOf, OpenAiServices, DeepSeekServices, AnthropicServices,
            Services
    <2>3. (probe = "none" => h = "Unhealthy") /\ (probe # "2xx" => h # "Healthy")
        BY <2>2 DEF HealthOfProbe
    <2> HIDE DEF h
    <2> QED
        BY <1>1, <2>1, <2>3 DEF CliFits, CliTells
<1>7. ASSUME NEW probe, NEW listed, Models(probe, listed)
      PROVE  CliFits'
    <2> DEFINE models == ServicesOf(cli.provider, probe, listed).models
    <2>1. /\ cli.pc = "ask" /\ cli.what = "models"
          /\ cli' = IF models = Unparsable
                    THEN [cli EXCEPT !.pc = "failed", !.found = probe]
                    ELSE [cli EXCEPT !.pc = "done", !.found = probe, !.printed = models]
        BY <1>7 DEF Models
    <2> HIDE DEF models
    <2> QED
        BY <1>1, <2>1 DEF CliFits, CliTells
<1>8. CASE Info
    <2> DEFINE c == ServicesOf(cli.provider, "none", <<>>).capabilities
    <2>1. /\ cli.pc = "ask" /\ cli.what = "info"
          /\ cli' = [cli EXCEPT !.pc = "done", !.printed = c]
        BY <1>8 DEF Info
    <2> HIDE DEF c
    <2> QED
        BY <1>1, <2>1 DEF CliFits, CliTells
<1> QED
    BY <1>2, <1>3, <1>4, <1>5, <1>6, <1>7, <1>8 DEF CliNext

\* Whatever keys are pressed and whatever llama.cpp answers, each message in
\* the TUI is followed by its answer or its error; and whatever a provider
\* replies, a command that succeeds has told just that.
THEOREM AnswersAreShown == TerminalSpec => []WhatIsShownIsTrue
<1>1. TerminalInit => TuiFits /\ CliFits
    BY TuiInitFits, CliInitFits DEF TerminalInit
<1>2. TuiFits /\ CliFits /\ [TerminalNext]_terminalVars => TuiFits' /\ CliFits'
    BY TuiStepFits, CliStepFits, OthersRest
<1>3. TuiFits /\ CliFits => WhatIsShownIsTrue
    BY DEF TuiFits, CliFits, WhatIsShownIsTrue
<1> QED
    BY <1>1, <1>2, <1>3, PTL DEF TerminalSpec

-----------------------------------------------------------------------------
(* The REPL.  The history says, line by line and answer by answer, what    *)
(* the dialog was.                                                         *)

WasAnswered(d) == {i \in DOMAIN d : d[i].reply.kind = "answer"}

AnswersOf(d) ==
    LET kept == Chosen(d, WasAnswered(d)) IN
    [i \in DOMAIN kept |-> FirstOrEmpty(kept[i].reply.texts)]

LinesOf(d) == [i \in DOMAIN d |-> <<d[i].line>>]

\* What was answered before the last line.
EarlierOf(d) == Chosen(d, {i \in 1 .. Len(d) - 1 : d[i].reply.kind = "answer"})

IsDialog(d) ==
    /\ d \in Seq({d[i] : i \in DOMAIN d})
    /\ \A i \in DOMAIN d : DOMAIN d[i] = {"line", "reply"}

ReplFits ==
    /\ DOMAIN repl = {"pc", "provider", "system", "history"}
    /\ IsDialog(dialog) /\ IsTalk(repl.history)
    /\ repl.pc = "configure" => dialog = <<>>
    /\ repl.pc \in {"prompt", "thinking"} =>
        /\ repl.provider \in ProviderNames
        /\ Words(repl.history, {"user"}) = LinesOf(dialog)
        /\ repl.provider \notin {"groq", "nvidia"} /\ HadTexts
              => Words(repl.history, {"assistant"}) = AnswersOf(dialog)
    /\ repl.pc = "thinking" =>
        /\ dialog # <<>> /\ dialog[Len(dialog)].reply = Waiting
        /\ repl.history # <<>>
    /\ ReplRemembers

\* What a caller is told of a reply.
LEMMA ReplyIsTold ==
    ASSUME NEW p \in ProviderNames, NEW request, Valid(request), NEW reply,
           reply.kind \in ReplyKinds
    PROVE  LET result == SendRequest(p, request, reply).result IN
           /\ reply.kind # "answer" => ~result.ok
           /\ reply.kind = "answer" /\ reply.texts # <<>> /\ p \notin {"groq", "nvidia"} =>
                /\ result.ok /\ HasText(result)
                /\ FirstOrEmpty(reply.texts) = <<ResponseText(result)>>
<1> DEFINE result == SendRequest(p, request, reply).result
<1>1. CASE reply.kind # "answer"
    <2>1. result = Failed(reply)
        BY <1>1 DEF ProviderNames, SendRequest, OpenAiSend, DeepSeekSend, AnthropicSend,
            GeminiSend, GroqSend, NvidiaSend, LlamaCppSend, MlOpsSend, Exchange
    <2>2. ~Failed(reply).ok
        BY <1>1 DEF Failed, Err, ReplyKinds
    <2> QED
        BY <1>1, <2>1, <2>2
<1>2. CASE reply.kind = "answer" /\ reply.texts # <<>> /\ p \notin {"groq", "nvidia"}
    <2>1. FirstOrEmpty(reply.texts) = <<reply.texts[1]>>
        BY <1>2 DEF FirstOrEmpty
    <2>2. \/ result = Ok(reply.texts, OpenAiFinish(reply.stop))
          \/ \E finish : result = Ok(FirstOrEmpty(reply.texts), finish)
        BY <1>2 DEF ProviderNames, SendRequest, OpenAiSend, DeepSeekSend, AnthropicSend,
            GeminiSend, LlamaCppSend, MlOpsSend, Exchange, OpenAiResponse, DeepSeekResponse,
            AnthropicResponse, GeminiResponse, LlamaCppResponse, MlOpsResponse
    <2>3. PICK texts, finish : /\ texts \in {reply.texts, FirstOrEmpty(reply.texts)}
                               /\ result = Ok(texts, finish)
        BY <2>2
    <2>4. texts[1] = reply.texts[1] /\ texts # <<>>
        BY <1>2, <2>1, <2>3
    <2>5. result.ok /\ result.texts = texts
        BY <2>3 DEF Ok
    <2> QED
        BY <1>2, <2>1, <2>4, <2>5 DEF HasText, ResponseText
<1> QED
    BY <1>1, <1>2

\* Nobody has said a thing yet.
LEMMA NothingSaid ==
    /\ IsTalk(<<>>) /\ IsDialog(<<>>) /\ LinesOf(<<>>) = <<>> /\ AnswersOf(<<>>) = <<>>
    /\ \A roles : Words(<<>>, roles) = <<>>
<1>1. \A s : Chosen(s, {}) = <<>>
    <2>1. Cardinality({}) = 0
        BY FS_EmptySet
    <2> QED
        BY <2>1 DEF Chosen
<1>2. \A roles : {i \in DOMAIN <<>> : (<<>>)[i].role \in roles} = {}
    OBVIOUS
<1>3. \A roles : OfRole(<<>>, roles) = <<>>
    BY <1>1, <1>2 DEF OfRole
<1>4. \A roles : Words(<<>>, roles) = <<>>
    BY <1>3 DEF Words
<1>5. WasAnswered(<<>>) = {}
    BY DEF WasAnswered
<1>6. Chosen(<<>>, WasAnswered(<<>>)) = <<>>
    BY <1>1, <1>5
<1>7. AnswersOf(<<>>) = <<>>
    BY <1>6 DEF AnswersOf
<1>8. IsTalk(<<>>) /\ IsDialog(<<>>) /\ LinesOf(<<>>) = <<>>
    BY DEF IsTalk, IsDialog, LinesOf
<1> QED
    BY <1>4, <1>7, <1>8

\* A line that waits for its answer.
LEMMA LineIsRead ==
    ASSUME NEW d, d \in Seq({d[i] : i \in DOMAIN d}), NEW line
    PROVE  LET longer == Append(d, [line |-> line, reply |-> Waiting]) IN
           /\ LinesOf(longer) = Append(LinesOf(d), <<line>>)
           /\ AnswersOf(longer) = AnswersOf(d)
<1> DEFINE n == Len(d)
           x == [line |-> line, reply |-> Waiting]
           longer == Append(d, x)
           lines == LinesOf(d)
<1>1. n \in Nat /\ DOMAIN d = 1 .. n /\ d = [i \in 1 .. n |-> d[i]]
    OBVIOUS
<1>2. x.line = line /\ x.reply.kind # "answer"
    BY DEF Waiting
<1>3. lines = [i \in 1 .. n |-> lines[i]] /\ \A i \in 1 .. n : lines[i] = <<d[i].line>>
    BY <1>1 DEF LinesOf
<1> HIDE DEF n, x, lines
<1>4. longer = [i \in 1 .. n + 1 |-> IF i = n + 1 THEN x ELSE d[i]]
    BY <1>1, AppendIs
<1>5. Append(lines, <<line>>) = [i \in 1 .. n + 1 |-> IF i = n + 1 THEN <<line>> ELSE lines[i]]
    BY <1>1, <1>3, AppendIs
<1>6. WasAnswered(d) \in SUBSET DOMAIN d
    BY DEF WasAnswered
<1>7. Chosen(longer, WasAnswered(d)) = Chosen(d, WasAnswered(d))
    <2> DEFINE T == {d[i] : i \in DOMAIN d}
               P == WasAnswered(d)
    <2>1. d \in Seq(T) /\ P \in SUBSET DOMAIN d
        BY <1>6
    <2> HIDE DEF T, P
    <2>2. Chosen(longer, P) = Chosen(d, P)
        BY <2>1, ChosenOfAppended
    <2> QED
        BY <2>2 DEF P
<1> HIDE DEF longer
<1>8. /\ DOMAIN longer = 1 .. n + 1 /\ longer[n + 1] = x
      /\ \A i \in 1 .. n : longer[i] = d[i]
    BY <1>1, <1>4
<1>9. LinesOf(longer) = Append(lines, <<line>>)
    <2>1. \A i \in 1 .. n + 1 : i # n + 1 => i \in 1 .. n
        BY <1>1
    <2>2. \A i \in 1 .. n + 1 : <<longer[i].line>> = IF i = n + 1 THEN <<line>> ELSE lines[i]
        BY <1>2, <1>3, <1>8, <2>1
    <2> QED
        BY <1>5, <1>8, <2>2 DEF LinesOf
<1>10. WasAnswered(longer) = WasAnswered(d)
    <2>1. \A i : i \in 1 .. n + 1 <=> i \in 1 .. n \/ i = n + 1
        BY <1>1
    <2>2. \A i : i \in WasAnswered(longer) <=> i \in WasAnswered(d)
        BY <1>1, <1>2, <1>8, <2>1 DEF WasAnswered
    <2> QED
        BY <2>2, <1>6, <1>8 DEF WasAnswered
<1>11. AnswersOf(longer) = AnswersOf(d)
    BY <1>7, <1>10 DEF AnswersOf
<1> QED
    BY <1>9, <1>11 DEF longer, lines, x

\* The line that waits has its answer.
IsAnswered(d, reply, e) ==
    /\ IsDialog(d) /\ d # <<>> /\ d[Len(d)].reply = Waiting
    /\ e = [d EXCEPT ![Len(d)].reply = reply]

\* It is the last of them, if it is one.
LEMMA LineIsAnswered ==
    ASSUME NEW d, NEW reply, NEW e, IsAnswered(d, reply, e)
    PROVE  /\ Len(e) = Len(d) /\ IsDialog(e)
           /\ LinesOf(e) = LinesOf(d)
           /\ AnswersOf(e) = IF reply.kind = "answer"
                             THEN Append(AnswersOf(d), FirstOrEmpty(reply.texts))
                             ELSE AnswersOf(d)
           /\ \A i \in DOMAIN d : d[i].reply.kind = "answer" =>
                i \in DOMAIN e /\ e[i] = d[i]
           /\ e[Len(e)].reply = reply
           /\ EarlierOf(e) = Chosen(d, WasAnswered(d))
<1> DEFINE n == Len(d)
           P == WasAnswered(d)
           before == [i \in 1 .. n - 1 |-> d[i]]
           last == e[n]
<1>1. /\ n \in Nat /\ n > 0 /\ n - 1 \in Nat /\ n - 1 + 1 = n /\ n \in 1 .. n
      /\ DOMAIN d = 1 .. n /\ d = [i \in 1 .. n |-> d[i]]
    BY DEF IsAnswered, IsDialog
<1>2. /\ DOMAIN e = 1 .. n /\ e = [i \in 1 .. n |-> e[i]]
      /\ \A i \in 1 .. n : i # n => e[i] = d[i]
      /\ last = [d[n] EXCEPT !.reply = reply]
    BY <1>1 DEF IsAnswered, IsDialog
<1>3. last.line = d[n].line /\ last.reply = reply /\ DOMAIN last = {"line", "reply"}
    BY <1>1, <1>2 DEF IsAnswered, IsDialog
<1>4. \A i : i \in 1 .. n <=> i \in 1 .. n - 1 \/ i = n
    BY <1>1
<1>5. \A i \in 1 .. n - 1 : i \in 1 .. n /\ i # n
    BY <1>1
<1>6. d[n].reply.kind # "answer"
    BY DEF IsAnswered, IsDialog, Waiting
<1> HIDE DEF n
<1>7. Len(e) = n /\ e \in Seq({e[i] : i \in 1 .. n})
    <2>1. n \in Nat /\ e = [i \in 1 .. n |-> e[i]]
        BY <1>1, <1>2
    <2> QED
        BY ONLY <2>1, AppendIs
<1>8. \A i \in DOMAIN e : DOMAIN e[i] = {"line", "reply"}
    BY <1>1, <1>2, <1>3 DEF IsAnswered, IsDialog
<1>9. \A i \in 1 .. n : e[i].line = d[i].line
    BY <1>2, <1>3
<1>10. LinesOf(e) = LinesOf(d)
    BY <1>1, <1>2, <1>9 DEF LinesOf
<1> HIDE DEF last
<1>11. P \in SUBSET (1 .. n - 1) /\ P = {i \in 1 .. n - 1 : e[i].reply.kind = "answer"}
    <2>1. \A i : i \in P <=> i \in 1 .. n /\ d[i].reply.kind = "answer"
        BY <1>1 DEF WasAnswered
    <2>2. \A i \in P : i \in 1 .. n - 1
        BY <1>4, <1>6, <2>1
    <2>3. \A i : i \in P <=> i \in 1 .. n - 1 /\ e[i].reply.kind = "answer"
        BY <1>2, <1>5, <2>1, <2>2
    <2> HIDE DEF P
    <2> QED
        BY <2>2, <2>3
<1>12. WasAnswered(e) = IF reply.kind = "answer" THEN P \union {n} ELSE P
    <2>1. \A i : i \in WasAnswered(e) <=> i \in 1 .. n /\ e[i].reply.kind = "answer"
        BY <1>2 DEF WasAnswered
    <2>2. WasAnswered(e) \in SUBSET (1 .. n)
        BY <2>1
    <2>3. e[n].reply = reply
        BY <1>3 DEF last
    <2>4. \A i : i \in P <=> i \in 1 .. n - 1 /\ e[i].reply.kind = "answer"
        BY <1>11
    <2> HIDE DEF P
    <2>5. \A i : i \in WasAnswered(e) <=> i \in P \/ (i = n /\ reply.kind = "answer")
        BY <1>4, <2>1, <2>3, <2>4
    <2> QED
        BY <2>5
<1> DEFINE T == {d[i] : i \in 1 .. n - 1}
<1>13. before \in Seq(T) /\ Len(before) = n - 1 /\ DOMAIN before = 1 .. n - 1
    <2>1. before \in [1 .. n - 1 -> T] /\ n - 1 \in Nat
        BY <1>1
    <2> HIDE DEF before, T
    <2> QED
        BY <2>1
<1>14. before = [i \in 1 .. n - 1 |-> before[i]] /\ \A i \in 1 .. n - 1 : before[i] = d[i]
    OBVIOUS
<1> HIDE DEF before, T, P
<1>15. e = Append(before, last)
    <2> DEFINE k == n - 1
    <2>1. k \in Nat /\ before = [i \in 1 .. k |-> before[i]] /\ k + 1 = n
        BY <1>1, <1>14
    <2> HIDE DEF k
    <2>2. Append(before, last) = [i \in 1 .. k + 1 |-> IF i = k + 1 THEN last ELSE before[i]]
        BY <2>1, AppendIs
    <2>3. \A i \in 1 .. n : e[i] = IF i = n THEN last ELSE before[i]
        BY <1>2, <1>4, <1>14 DEF last
    <2> QED
        BY <1>2, <2>1, <2>2, <2>3
<1>16. /\ Chosen(e, P) = Chosen(before, P)
       /\ Chosen(e, P \union {n}) = Append(Chosen(before, P), last)
    <2>1. Len(before) + 1 = n /\ P \in SUBSET DOMAIN before
        BY <1>1, <1>11, <1>13
    <2>2. /\ Chosen(Append(before, last), P) = Chosen(before, P)
          /\ Chosen(Append(before, last), P \union {Len(before) + 1})
                = Append(Chosen(before, P), last)
        BY <1>13, <2>1, ChosenOfAppended
    <2> QED
        BY <1>15, <2>1, <2>2
<1>17. Chosen(before, P) = Chosen(d, P)
    <2> DEFINE k == n - 1
    <2>1. k \in Nat /\ P \in SUBSET (1 .. k) /\ \A i \in P : before[i] = d[i]
        BY <1>1, <1>11, <1>14
    <2> HIDE DEF k
    <2> QED
        BY <2>1, SameChosen
<1> DEFINE kept == Chosen(before, P)
           c == Cardinality(P)
<1>18. kept \in Seq(T) /\ c \in Nat /\ DOMAIN kept = 1 .. c /\ kept = [i \in 1 .. c |-> kept[i]]
    <2>1. P \in SUBSET DOMAIN before
        BY <1>11, <1>13
    <2> QED
        BY <1>13, <2>1, ChosenIs DEF Chosen
<1>19. AnswersOf(d) = [i \in DOMAIN kept |-> FirstOrEmpty(kept[i].reply.texts)]
    BY <1>17 DEF AnswersOf, P
<1>20. AnswersOf(e) = IF reply.kind = "answer"
                      THEN Append(AnswersOf(d), FirstOrEmpty(reply.texts)) ELSE AnswersOf(d)
    <2>1. CASE reply.kind # "answer"
        <3>1. Chosen(e, WasAnswered(e)) = kept
            BY <1>12, <1>16, <2>1
        <3> HIDE DEF kept
        <3> QED
            BY <1>19, <2>1, <3>1 DEF AnswersOf
    <2>2. CASE reply.kind = "answer"
        <3> DEFINE longer == Append(kept, last)
                   texts == AnswersOf(d)
        <3>1. Chosen(e, WasAnswered(e)) = longer
            BY <1>12, <1>16, <2>2
        <3> HIDE DEF kept, c
        <3>2. longer = [i \in 1 .. c + 1 |-> IF i = c + 1 THEN last ELSE kept[i]]
            BY <1>18, AppendIs
        <3>3. /\ texts = [i \in 1 .. c |-> texts[i]]
              /\ \A i \in 1 .. c : texts[i] = FirstOrEmpty(kept[i].reply.texts)
            BY <1>18, <1>19
        <3> HIDE DEF texts, longer
        <3>4. Append(texts, FirstOrEmpty(reply.texts))
                = [i \in 1 .. c + 1 |-> IF i = c + 1 THEN FirstOrEmpty(reply.texts)
                                        ELSE texts[i]]
            BY <1>18, <3>3, AppendIs
        <3>5. AnswersOf(e) = [i \in DOMAIN longer |-> FirstOrEmpty(longer[i].reply.texts)]
            BY <3>1 DEF AnswersOf
        <3>6. DOMAIN longer = 1 .. c + 1
            BY <3>2
        <3>7. \A i \in 1 .. c + 1 : i # c + 1 => i \in 1 .. c
            BY <1>18
        <3>8. \A i \in 1 .. c + 1 : FirstOrEmpty(longer[i].reply.texts) =
                IF i = c + 1 THEN FirstOrEmpty(reply.texts) ELSE texts[i]
            BY <1>3, <3>2, <3>3, <3>7
        <3> QED
            BY <2>2, <3>4, <3>5, <3>6, <3>8 DEF texts
    <2> QED
        BY <2>1, <2>2
<1>21. \A i \in DOMAIN d : d[i].reply.kind = "answer" => i \in DOMAIN e /\ e[i] = d[i]
    BY <1>1, <1>2, <1>6
<1>22. e[Len(e)].reply = reply
    BY <1>3, <1>7 DEF last
<1>23. EarlierOf(e) = Chosen(d, WasAnswered(d))
    BY <1>7, <1>11, <1>16, <1>17 DEF P, EarlierOf
<1>24. IsDialog(e)
    BY <1>2, <1>7, <1>8 DEF IsDialog
<1>25. Len(e) = Len(d)
    BY <1>7 DEF n
<1> QED
    BY <1>10, <1>20, <1>21, <1>22, <1>23, <1>24, <1>25

\* All lines, chosen one by one.
LEMMA AllChosen ==
    ASSUME NEW d, IsDialog(d)
    PROVE  LET kept == Chosen(d, DOMAIN d) IN
           [i \in DOMAIN kept |-> <<kept[i].line>>] = LinesOf(d)
<1> DEFINE n == Len(d)
           kept == Chosen(d, 1 .. n)
<1>1. n \in Nat /\ DOMAIN d = 1 .. n
    BY DEF IsDialog
<1> HIDE DEF n
<1>2. Cardinality(1 .. n) = n /\ \A i \in 1 .. n : Nth(1 .. n, i) = i
    BY <1>1, NthOfAll
<1>3. DOMAIN kept = 1 .. n /\ \A i \in 1 .. n : kept[i] = d[i]
    BY <1>2 DEF Chosen
<1> HIDE DEF kept
<1>4. [i \in DOMAIN kept |-> <<kept[i].line>>] = LinesOf(d)
    BY <1>1, <1>3 DEF LinesOf
<1> QED
    BY <1>1, <1>4 DEF kept

LEMMA ReplInitFits ==
    ASSUME ReplInit
    PROVE  ReplFits
<1>1. /\ repl.pc = "configure" /\ repl.history = <<>> /\ dialog = <<>>
      /\ DOMAIN repl = {"pc", "provider", "system", "history"}
    BY DEF ReplInit
<1> QED
    BY <1>1, NothingSaid DEF ReplFits, ReplRemembers

LEMMA ConfigureFits ==
    ASSUME ReplFits, NEW name, NEW system, Configure(name, system)
    PROVE  ReplFits'
<1>1. /\ DOMAIN repl = {"pc", "provider", "system", "history"}
      /\ IsDialog(dialog) /\ IsTalk(repl.history) /\ dialog = <<>> /\ dialog' = dialog /\ upstream' = upstream
    BY DEF ReplFits, Configure
<1>2. CASE ~CanBuild(name)
    <2>1. repl' = [repl EXCEPT !.pc = "over"]
        BY <1>2 DEF Configure
    <2>2. repl'.pc = "over" /\ repl'.history = repl.history /\ DOMAIN repl' = DOMAIN repl
        BY <1>1, <2>1
    <2> QED
        BY <1>1, <2>2 DEF ReplFits, ReplRemembers
<1>3. CASE CanBuild(name)
    <2> DEFINE m == Said("system", system[1])
               history == IF system = <<>> THEN <<>> ELSE <<m>>
    <2>1. repl' = [pc |-> "prompt", provider |-> Built(name), system |-> system,
                   history |-> history]
        BY <1>3 DEF Configure
    <2>2. IsTalk(<<m>>) /\ \A roles : "system" \notin roles => Words(<<m>>, roles) = <<>>
        <3>1. IsTalk(Append(<<>>, m)) /\ \A roles : Words(Append(<<>>, m), roles) =
                IF "system" \in roles THEN Append(Words(<<>>, roles), <<system[1]>>)
                ELSE Words(<<>>, roles)
            <4>1. IsTalk(<<>>) /\ "system" \in {"system", "user", "assistant"}
                BY NothingSaid
            <4> QED
                BY ONLY <4>1, WordsOfSaid
        <3> HIDE DEF m
        <3>2. Append(<<>>, m) = <<m>>
            OBVIOUS
        <3> QED
            BY <3>1, <3>2, NothingSaid
    <2>3. /\ IsTalk(history) /\ Words(history, {"user"}) = <<>>
          /\ Words(history, {"assistant"}) = <<>>
        BY <2>2, NothingSaid
    <2>4. Built(name) \in ProviderNames
        BY <1>3 DEF CanBuild
    <2> HIDE DEF history
    <2>5. /\ repl'.pc = "prompt" /\ repl'.provider \in ProviderNames
          /\ repl'.history = history
          /\ DOMAIN repl' = {"pc", "provider", "system", "history"}
        BY <2>1, <2>4
    <2>6. ReplRemembers'
        BY <1>1 DEF ReplRemembers
    <2>7. LinesOf(dialog') = <<>> /\ AnswersOf(dialog') = <<>>
        BY <1>1, NothingSaid
    <2> QED
        BY <1>1, <2>3, <2>5, <2>6, <2>7 DEF ReplFits
<1> QED
    BY <1>2, <1>3

LEMMA ReadLineFits ==
    ASSUME ReplFits, NEW line, ReadLine(line)
    PROVE  ReplFits'
<1> DEFINE m == Said("user", line)
           x == [line |-> line, reply |-> Waiting]
           d == dialog
           longer == Append(d, x)
           n == Len(d)
           h == repl.history
<1>1. /\ repl.pc = "prompt" /\ repl' = [repl EXCEPT !.pc = "thinking", !.history = Append(@, m)]
      /\ dialog' = longer
    BY DEF ReadLine
<1>2. /\ DOMAIN repl = {"pc", "provider", "system", "history"}
      /\ IsDialog(d) /\ IsTalk(h) /\ repl.provider \in ProviderNames
      /\ Words(h, {"user"}) = LinesOf(d)
      /\ repl.provider \notin {"groq", "nvidia"} /\ HadTexts
              => Words(h, {"assistant"}) = AnswersOf(d)
    BY <1>1 DEF ReplFits
<1>3. /\ IsTalk(Append(h, m))
      /\ Words(Append(h, m), {"user"}) = Append(Words(h, {"user"}), <<line>>)
      /\ Words(Append(h, m), {"assistant"}) = Words(h, {"assistant"})
    BY <1>2, WordsOfSaid
<1>4. LinesOf(longer) = Append(LinesOf(d), <<line>>) /\ AnswersOf(longer) = AnswersOf(d)
    BY <1>2, LineIsRead DEF IsDialog
<1>5. x.reply = Waiting /\ DOMAIN x = {"line", "reply"}
    OBVIOUS
<1>6. n \in Nat /\ DOMAIN d = 1 .. n /\ d = [i \in 1 .. n |-> d[i]]
    BY <1>2 DEF IsDialog
<1> HIDE DEF x, n, m
<1>7. longer = [i \in 1 .. n + 1 |-> IF i = n + 1 THEN x ELSE d[i]]
    BY <1>6, AppendIs
<1> HIDE DEF longer
<1>8. /\ DOMAIN longer = 1 .. n + 1 /\ longer[n + 1] = x
      /\ \A i \in 1 .. n : longer[i] = d[i]
      /\ longer = [i \in 1 .. n + 1 |-> longer[i]]
    BY <1>6, <1>7
<1>9. Len(longer) = n + 1 /\ longer \in Seq({longer[i] : i \in DOMAIN longer})
    <2> DEFINE k == n + 1
    <2>1. k \in Nat /\ longer = [i \in 1 .. k |-> longer[i]] /\ DOMAIN longer = 1 .. k
        BY <1>6, <1>8
    <2> HIDE DEF k
    <2>2. Len(longer) = k /\ longer \in Seq({longer[i] : i \in 1 .. k})
        BY ONLY <2>1, AppendIs
    <2> QED
        BY <2>1, <2>2 DEF k
<1>10. \A i \in DOMAIN longer : i \in 1 .. n \/ i = n + 1
    BY <1>6, <1>8
<1>11. \A i \in DOMAIN longer : DOMAIN longer[i] = {"line", "reply"}
    BY <1>2, <1>5, <1>6, <1>8, <1>10 DEF IsDialog
<1>12. HadTexts' => HadTexts
    <2>1. ASSUME HadTexts', NEW i \in DOMAIN d, d[i].reply.kind = "answer"
          PROVE  d[i].reply.texts # <<>>
        <3>1. i \in DOMAIN longer /\ longer[i] = d[i]
            BY <1>6, <1>8
        <3> QED
            BY <1>1, <2>1, <3>1 DEF HadTexts
    <2> QED
        BY <2>1 DEF HadTexts
<1>13. /\ repl'.pc = "thinking" /\ repl'.provider = repl.provider
       /\ repl'.history = Append(h, m)
       /\ DOMAIN repl' = {"pc", "provider", "system", "history"}
    BY <1>1, <1>2
<1>14. Append(h, m) # <<>>
    <2>1. h \in Seq({h[i] : i \in DOMAIN h})
        BY <1>2 DEF IsTalk
    <2> HIDE DEF h
    <2> DEFINE k == Len(h)
    <2>2. h = [i \in 1 .. k |-> h[i]] /\ k \in Nat
        BY <2>1
    <2> HIDE DEF k
    <2>3. Append(h, m) = [i \in 1 .. k + 1 |-> IF i = k + 1 THEN m ELSE h[i]]
        BY ONLY <2>2, AppendIs
    <2>4. k + 1 \in DOMAIN Append(h, m)
        BY <2>2, <2>3
    <2>5. DOMAIN <<>> = {}
        OBVIOUS
    <2> QED
        BY <2>4, <2>5
<1>15. longer # <<>> /\ longer[Len(longer)].reply = Waiting
    BY <1>5, <1>6, <1>8, <1>9
<1>16. ReplRemembers'
    BY <1>13 DEF ReplRemembers
<1> QED
    BY <1>1, <1>2, <1>3, <1>4, <1>9, <1>11, <1>12, <1>13, <1>14, <1>15, <1>16 DEF ReplFits, IsDialog

LEMMA RespondsFits ==
    ASSUME ReplFits, NEW reply \in ReplReplies, Responds(reply)
    PROVE  ReplFits'
<1> DEFINE h == repl.history
           d == dialog
           e == dialog'
           p == repl.provider
           x == SendRequest(p, ReplRequest(h), reply)
           text == IF HasText(x.result) THEN ResponseText(x.result) ELSE "Error getting text"
           longer == IF ~x.result.ok THEN h ELSE Append(h, Said("assistant", text))
<1>1. /\ repl.pc = "thinking" /\ upstream' = x.wire
      /\ repl' = [repl EXCEPT !.pc = "prompt",
                    !.history = IF ~x.result.ok THEN @ ELSE Append(@, Said("assistant", text))]
      /\ e = [d EXCEPT ![Len(d)].reply = reply]
    BY DEF Responds
<1>2. /\ DOMAIN repl = {"pc", "provider", "system", "history"}
      /\ IsDialog(d) /\ IsTalk(h) /\ p \in ProviderNames
      /\ Words(h, {"user"}) = LinesOf(d)
      /\ p \notin {"groq", "nvidia"} /\ HadTexts => Words(h, {"assistant"}) = AnswersOf(d)
      /\ d # <<>> /\ d[Len(d)].reply = Waiting /\ h # <<>>
    BY <1>1 DEF ReplFits
<1>3. /\ Len(e) = Len(d) /\ IsDialog(e)
      /\ LinesOf(e) = LinesOf(d)
      /\ AnswersOf(e) = IF reply.kind = "answer"
                        THEN Append(AnswersOf(d), FirstOrEmpty(reply.texts)) ELSE AnswersOf(d)
      /\ \A i \in DOMAIN d : d[i].reply.kind = "answer" => i \in DOMAIN e /\ e[i] = d[i]
      /\ e[Len(e)].reply = reply
      /\ EarlierOf(e) = Chosen(d, WasAnswered(d))
    <2>1. IsAnswered(d, reply, e)
        BY <1>1, <1>2 DEF IsAnswered
    <2> HIDE DEF d, e
    <2> QED
        BY ONLY <2>1, LineIsAnswered
<1>4. Len(e) \in DOMAIN e
    <2>1. Len(d) \in Nat /\ Len(d) > 0
        BY <1>2 DEF IsDialog
    <2>2. DOMAIN e = 1 .. Len(e)
        BY <1>3 DEF IsDialog
    <2> QED
        BY <1>3, <2>1, <2>2
<1>5. HadTexts' => HadTexts /\ (reply.kind = "answer" => reply.texts # <<>>)
    <2>1. ASSUME HadTexts', NEW i \in DOMAIN d, d[i].reply.kind = "answer"
          PROVE  d[i].reply.texts # <<>>
        BY <1>3, <2>1 DEF HadTexts
    <2>2. HadTexts' /\ reply.kind = "answer" => reply.texts # <<>>
        BY <1>3, <1>4 DEF HadTexts
    <2> QED
        BY <2>1, <2>2 DEF HadTexts
<1>6. Valid(ReplRequest(h)) /\ ReplRequest(h).messages = h /\ ReplRequest(h).system = <<>>
    BY <1>2 DEF ReplRequest, Valid
<1>7. SaysTheSame(x.wire.turns, h)
    <2>1. IsChat(h)
        BY <1>2 DEF IsTalk, IsChat, Roles
    <2> QED
        BY <1>2, <1>6, <2>1, ConversationIsHeard
<1>8. /\ reply.kind # "answer" => ~x.result.ok
      /\ reply.kind = "answer" /\ reply.texts # <<>> /\ p \notin {"groq", "nvidia"} =>
            /\ x.result.ok /\ FirstOrEmpty(reply.texts) = <<text>>
    <2>1. reply.kind \in ReplyKinds
        BY ReplAssumption
    <2> QED
        BY <1>2, <1>6, <2>1, ReplyIsTold
<1> HIDE DEF x, text
<1>9. /\ IsTalk(longer) /\ Words(longer, {"user"}) = Words(h, {"user"})
      /\ Words(longer, {"assistant"}) =
            IF ~x.result.ok THEN Words(h, {"assistant"})
            ELSE Append(Words(h, {"assistant"}), <<text>>)
    <2> DEFINE more == Append(h, Said("assistant", text))
    <2>1. IsTalk(h) /\ "assistant" \in {"system", "user", "assistant"}
        BY <1>2
    <2>2. /\ IsTalk(more) /\ Words(more, {"user"}) = Words(h, {"user"})
          /\ Words(more, {"assistant"}) = Append(Words(h, {"assistant"}), <<text>>)
        BY ONLY <2>1, WordsOfSaid
    <2> HIDE DEF more
    <2>3. longer = IF ~x.result.ok THEN h ELSE more
        BY DEF more
    <2> HIDE DEF longer
    <2> QED
        BY <2>1, <2>2, <2>3
<1>10. /\ repl'.pc = "prompt" /\ repl'.provider = p /\ repl'.history = longer
       /\ DOMAIN repl' = {"pc", "provider", "system", "history"}
    BY <1>1, <1>2
<1> HIDE DEF longer
<1>11. p \notin {"groq", "nvidia"} /\ HadTexts' => Words(longer, {"assistant"}) = AnswersOf(e)
    BY <1>2, <1>3, <1>5, <1>8, <1>9
<1>12. ReplRemembers'
    <2>1. TurnsOf({"user"})' = Heard(x.wire.turns, {"user"})
        BY <1>1 DEF TurnsOf, Heard
    <2>2. TurnsOf({"assistant", "model"})' = Heard(x.wire.turns, {"assistant", "model"})
        BY <1>1 DEF TurnsOf, Heard
    <2>3. EarlierAnswers' = AnswersOf(d)
        BY <1>3 DEF EarlierAnswers, EarlierOf, AnswersOf
    <2>4. TurnsOf({"user"})' = LinesOf(e)
        BY <1>2, <1>3, <1>7, <2>1 DEF SaysTheSame
    <2>5. p \notin {"groq", "nvidia"} /\ HadTexts'
            => TurnsOf({"assistant", "model"})' = EarlierAnswers'
        BY <1>2, <1>5, <1>7, <2>2, <2>3 DEF SaysTheSame
    <2>6. LinesAt(DOMAIN dialog)' = LinesOf(e)
        <3> HIDE DEF e
        <3>1. LET kept == Chosen(e, DOMAIN e) IN
              [i \in DOMAIN kept |-> <<kept[i].line>>] = LinesOf(e)
            BY <1>3, AllChosen
        <3> QED
            BY <3>1 DEF LinesAt, e
    <2>7. (AnsweredLines \union {Len(dialog)})' \in SUBSET DOMAIN e
        BY <1>4 DEF AnsweredLines
    <2>8. \E places \in SUBSET DOMAIN e :
            /\ (AnsweredLines \union {Len(dialog)})' \in SUBSET places
            /\ TurnsOf({"user"})' = LinesAt(places)'
        BY <2>4, <2>6, <2>7
    <2> QED
        BY <1>10, <2>5, <2>8 DEF ReplRemembers
<1> QED
    BY <1>2, <1>3, <1>9, <1>10, <1>11, <1>12 DEF ReplFits

LEMMA ReplStepFits ==
    ASSUME ReplFits, [ReplNext]_replVars
    PROVE  ReplFits'
<1>1. CASE UNCHANGED replVars
    BY <1>1 DEF replVars, ReplFits, HadTexts, ReplRemembers, TurnsOf, EarlierAnswers,
                AnsweredLines, LinesAt
<1>2. CASE Exit
    BY <1>2 DEF Exit, ReplFits, ReplRemembers
<1> QED
    BY <1>1, <1>2, ConfigureFits, ReadLineFits, RespondsFits DEF ReplNext

\* However long a session and whichever of its requests fail, the model is
\* sent with every line the ones it answered before, and all its own answers.
THEOREM WholeConversationsAreSent == TerminalSpec => []ReplRemembers
<1>1. TerminalInit => ReplFits
    BY ReplInitFits DEF TerminalInit
<1>2. ReplFits /\ [TerminalNext]_terminalVars => ReplFits'
    BY ReplStepFits, OthersRest
<1>3. ReplFits => ReplRemembers
    BY DEF ReplFits
<1> QED
    BY <1>1, <1>2, <1>3, PTL DEF TerminalSpec

-----------------------------------------------------------------------------
(* The context manager.  What its loops compute is found by induction on   *)
(* their rounds: after n rounds the newest n messages are paid for, or the *)
(* loop stopped at the first that the budget does not pay for.             *)

\* f tells what the last n of some places cost.
Pays(f, ms, places) ==
    f[0] = 0 /\ \A n \in 1 .. Len(places) : f[n] = f[n - 1] + Price(ms, places, n)

LEMMA CostIs ==
    ASSUME NEW ms, NEW L \in Nat, NEW places, Len(places) = L,
           \A n \in 1 .. L : Price(ms, places, n) \in Nat
    PROVE  \E f \in [0 .. L -> Nat] : Pays(f, ms, places) /\ Cost(ms, places) = f[L]
<1> DEFINE paid == CHOOSE f : f = [n \in 0 .. Len(places) |->
                        IF n = 0 THEN 0 ELSE f[n - 1] + Price(ms, places, n)]
           g == [x \in (1 .. L) \X Nat |-> x[2] + Price(ms, places, x[1])]
<1>1. g \in [(1 .. L) \X Nat -> Nat]
    OBVIOUS
<1>2. PICK f \in [0 .. L -> Nat] : Loops(f, L, 0, g)
    <2>1. 0 \in Nat
        OBVIOUS
    <2> HIDE DEF g
    <2> QED
        BY <1>1, <2>1, Iteration
<1>3. f[0] = 0 /\ \A n \in 1 .. L : f[n] = g[<<n, f[n - 1]>>]
    BY <1>2 DEF Loops
<1>4. f = [n \in 0 .. L |-> IF n = 0 THEN 0 ELSE f[n - 1] + Price(ms, places, n)]
    <2>1. \A n \in 1 .. L : n - 1 \in 0 .. L /\ f[n - 1] \in Nat
        OBVIOUS
    <2>2. \A n \in 1 .. L : g[<<n, f[n - 1]>>] = f[n - 1] + Price(ms, places, n)
        BY <2>1
    <2>3. \A n \in 0 .. L : n = 0 \/ n \in 1 .. L
        OBVIOUS
    <2> HIDE DEF g, paid
    <2>4. \A n \in 0 .. L : f[n] = IF n = 0 THEN 0 ELSE f[n - 1] + Price(ms, places, n)
        BY <1>3, <2>2, <2>3
    <2> QED
        BY <2>4
<1> HIDE DEF g
<1>5. paid = [n \in 0 .. L |-> IF n = 0 THEN 0 ELSE paid[n - 1] + Price(ms, places, n)]
    BY <1>4
<1>6. Cost(ms, places) = paid[L]
    BY DEF Cost
<1> HIDE DEF paid
<1>7. /\ paid[0] = 0
      /\ \A n \in 1 .. L : paid[n] = paid[n - 1] + Price(ms, places, n)
    BY <1>5
<1> DEFINE S == {n \in 0 .. L : paid[n] \in Nat}
<1>8. \A n \in S : n < L => n + 1 \in S
    <2> SUFFICES ASSUME NEW n \in S, n < L
                 PROVE  n + 1 \in S
        OBVIOUS
    <2>1. n + 1 \in 1 .. L /\ n + 1 \in 0 .. L /\ (n + 1) - 1 = n /\ paid[n] \in Nat
        OBVIOUS
    <2>2. paid[n + 1] = paid[n] + Price(ms, places, n + 1)
        BY <1>7, <2>1
    <2> QED
        BY <2>1, <2>2
<1>9. S = 0 .. L
    <2>1. 0 \in S /\ S \in SUBSET (0 .. L)
        BY <1>7
    <2> HIDE DEF S
    <2> QED
        BY <1>8, <2>1, Induction
<1>10. paid \in [0 .. L -> Nat]
    BY <1>5, <1>9
<1> QED
    BY <1>6, <1>7, <1>10 DEF Pays

LEMMA CostOnly ==
    ASSUME NEW ms, NEW L \in Nat, NEW places, Len(places) = L,
           \A n \in 1 .. L : Price(ms, places, n) \in Nat,
           NEW f, Pays(f, ms, places)
    PROVE  Cost(ms, places) = f[L]
<1>1. PICK h \in [0 .. L -> Nat] : Pays(h, ms, places) /\ Cost(ms, places) = h[L]
    BY CostIs
<1> DEFINE S == {n \in 0 .. L : f[n] = h[n]}
<1>2. ASSUME NEW n \in S, n < L
      PROVE  n + 1 \in S
    <2>1. n + 1 \in 1 .. L /\ n + 1 \in 0 .. L /\ (n + 1) - 1 = n /\ f[n] = h[n]
        BY <1>2
    <2> QED
        BY <1>1, <2>1 DEF Pays
<1>3. 0 \in S /\ S \in SUBSET (0 .. L)
    BY <1>1 DEF Pays
<1>4. S = 0 .. L
    <2> HIDE DEF S
    <2> QED
        BY <1>2, <1>3, Induction
<1>5. L \in S
    BY <1>4
<1> QED
    BY <1>1, <1>5

LEMMA LastOfIs ==
    ASSUME NEW T, NEW s \in Seq(T), NEW k \in 0 .. Len(s)
    PROVE  /\ LastOf(s, k) \in Seq(T) /\ Len(LastOf(s, k)) = k
           /\ \A i \in 1 .. k : LastOf(s, k)[i] = s[Len(s) - k + i]
<1>1. k \in Nat /\ Len(s) \in Nat /\ k <= Len(s)
    OBVIOUS
<1> DEFINE a == Len(s) - k + 1
<1>2. a \in Nat /\ 1 <= a /\ a <= Len(s) + 1 /\ Len(s) - a + 1 = k
    BY <1>1
<1>3. /\ SubSeq(s, a, Len(s)) \in Seq(T) /\ Len(SubSeq(s, a, Len(s))) = k
      /\ \A i \in 1 .. k : SubSeq(s, a, Len(s))[i] = s[a + i - 1]
    BY <1>1, <1>2
<1>4. \A i \in 1 .. k : a + i - 1 = Len(s) - k + i
    BY <1>1
<1> QED
    BY <1>3, <1>4 DEF LastOf

IsConversation(ms) ==
    ms \in Seq([role : {ms[i].role : i \in DOMAIN ms}, tokens : Nat])

LEMMA PriceIs ==
    ASSUME NEW ms, IsConversation(ms), NEW places \in Seq(DOMAIN ms), NEW k \in 0 .. Len(places)
    PROVE  \A n \in 1 .. k :
               /\ Price(ms, places, n) \in Nat
               /\ Price(ms, LastOf(places, k), n) = Price(ms, places, n)
<1> SUFFICES ASSUME NEW n \in 1 .. k
             PROVE  /\ Price(ms, places, n) \in Nat
                    /\ Price(ms, LastOf(places, k), n) = Price(ms, places, n)
    OBVIOUS
<1>1. /\ Len(LastOf(places, k)) = k /\ Len(places) \in Nat /\ k \in Nat /\ n \in Nat
      /\ \A i \in 1 .. k : LastOf(places, k)[i] = places[Len(places) - k + i]
    <2>1. Len(places) \in Nat /\ k \in Nat /\ n \in Nat
        OBVIOUS
    <2>2. /\ Len(LastOf(places, k)) = k
          /\ \A i \in 1 .. k : LastOf(places, k)[i] = places[Len(places) - k + i]
        BY LastOfIs
    <2> QED
        BY <2>1, <2>2
<1>2. k - n + 1 \in 1 .. k /\ Len(places) - k + (k - n + 1) = Len(places) - n + 1
      /\ Len(places) - n + 1 \in 1 .. Len(places)
    BY <1>1
<1>3. LastOf(places, k)[k - n + 1] = places[Len(places) - n + 1]
    BY <1>1, <1>2
<1>4. places[Len(places) - n + 1] \in DOMAIN ms
    BY <1>2
<1>5. \A i \in DOMAIN ms : ms[i].tokens \in Nat
    <2> DEFINE Item == [role : {ms[i].role : i \in DOMAIN ms}, tokens : Nat]
    <2>1. ms \in Seq(Item)
        BY DEF IsConversation
    <2>2. \A m \in Item : m.tokens \in Nat
        OBVIOUS
    <2> HIDE DEF Item
    <2> QED
        BY <2>1, <2>2
<1> QED
    BY <1>1, <1>3, <1>4, <1>5 DEF Price

\* What the last k of some places cost, for every k.
LEMMA CostOfLast ==
    ASSUME NEW ms, IsConversation(ms), NEW places \in Seq(DOMAIN ms)
    PROVE  /\ Cost(ms, LastOf(places, 0)) = 0
           /\ \A n \in 1 .. Len(places) :
                /\ Cost(ms, LastOf(places, n - 1)) \in Nat /\ Cost(ms, LastOf(places, n)) \in Nat
                /\ Cost(ms, LastOf(places, n)) =
                        Cost(ms, LastOf(places, n - 1)) + Price(ms, places, n)
<1> DEFINE L == Len(places)
<1>0. L \in Nat /\ L \in 0 .. L
    OBVIOUS
<1>1. \A n \in 1 .. L : Price(ms, places, n) \in Nat
    BY <1>0, PriceIs
<1>2. PICK f \in [0 .. L -> Nat] : Pays(f, ms, places)
    BY <1>0, <1>1, CostIs
<1>3. ASSUME NEW k \in 0 .. L
      PROVE  Cost(ms, LastOf(places, k)) = f[k]
    <2>1. k \in Nat /\ Len(LastOf(places, k)) = k /\ 1 .. k \subseteq 1 .. L
        BY <1>0, LastOfIs
    <2>2. \A n \in 1 .. k : /\ Price(ms, LastOf(places, k), n) = Price(ms, places, n)
                            /\ Price(ms, places, n) \in Nat
        BY PriceIs
    <2>3. \A n \in 1 .. k : /\ Price(ms, LastOf(places, k), n) \in Nat
                            /\ f[n] = f[n - 1] + Price(ms, LastOf(places, k), n)
        BY <1>2, <2>1, <2>2 DEF Pays
    <2>4. Pays(f, ms, LastOf(places, k))
        BY <1>2, <2>1, <2>3 DEF Pays
    <2> QED
        BY <2>1, <2>3, <2>4, CostOnly
<1>4. \A n \in 1 .. L : n \in 0 .. L /\ n - 1 \in 0 .. L
    BY <1>0
<1>5. /\ f[0] = 0
      /\ \A n \in 1 .. L : f[n] = f[n - 1] + Price(ms, places, n) /\ f[n] \in Nat /\ f[n - 1] \in Nat
    BY <1>2, <1>4 DEF Pays
<1> QED
    BY <1>0, <1>3, <1>4, <1>5

\* The newest messages: as many of the last as the budget pays for.
LEMMA NewestIs ==
    ASSUME NEW ms, IsConversation(ms), NEW places \in Seq(DOMAIN ms), NEW budget \in Nat
    PROVE  \E k \in 0 .. Len(places) :
               /\ Newest(ms, places, budget) = LastOf(places, k)
               /\ Cost(ms, LastOf(places, k)) <= budget
               /\ k # Len(places) => Cost(ms, LastOf(places, k + 1)) > budget
<1> DEFINE L == Len(places)
           T == [cost : Nat, kept : Nat, full : BOOLEAN]
           a == [cost |-> 0, kept |-> 0, full |-> FALSE]
           Then(acc, n) ==
               IF acc.full \/ acc.cost + Price(ms, places, n) > budget
               THEN [cost |-> acc.cost, kept |-> acc.kept, full |-> TRUE]
               ELSE [cost |-> acc.cost + Price(ms, places, n), kept |-> acc.kept + 1,
                     full |-> FALSE]
           g == [x \in (1 .. L) \X T |-> Then(x[2], x[1])]
           seen == CHOOSE f : f = [n \in 0 .. Len(places) |->
               IF n = 0 THEN [cost |-> 0, kept |-> 0, full |-> FALSE]
               ELSE LET acc == f[n - 1]
                        cost == acc.cost + Price(ms, places, n)
                    IN IF acc.full \/ cost > budget
                       THEN [cost |-> acc.cost, kept |-> acc.kept, full |-> TRUE]
                       ELSE [cost |-> cost, kept |-> acc.kept + 1, full |-> FALSE]]
<1>0. L \in Nat /\ L \in 0 .. L
    OBVIOUS
<1>1. \A n \in 1 .. L : Price(ms, places, n) \in Nat
    BY <1>0, PriceIs
<1>2. \A n \in 1 .. L : \A acc \in T : Then(acc, n) \in T
    BY <1>1
<1>3. a \in T
    OBVIOUS
<1>4. g \in [(1 .. L) \X T -> T] /\ \A n \in 1 .. L : \A acc \in T : g[<<n, acc>>] = Then(acc, n)
    <2> HIDE DEF T, Then
    <2> QED
        BY <1>2
<1>5. PICK f \in [0 .. L -> T] : Loops(f, L, a, g)
    <2> HIDE DEF g, T, a, L, seen
    <2> QED
        BY <1>0, <1>3, <1>4, Iteration
<1>6. f = [n \in 0 .. Len(places) |-> IF n = 0 THEN a ELSE Then(f[n - 1], n)]
    <2>1. \A n \in 1 .. L : n - 1 \in 0 .. L
        BY <1>0
    <2>2. \A n \in 1 .. L : f[n - 1] \in T
        <3> HIDE DEF T
        <3> QED
            BY <2>1
    <2>3. f[0] = a /\ \A n \in 1 .. L : f[n] = Then(f[n - 1], n)
        <3> HIDE DEF g, T, a, Then, seen
        <3> QED
            BY <1>4, <1>5, <2>2 DEF Loops
    <2>4. \A n \in 0 .. L : f[n] = IF n = 0 THEN a ELSE Then(f[n - 1], n)
        <3>1. \A n \in 0 .. L : n = 0 \/ n \in 1 .. L
            BY <1>0
        <3> HIDE DEF g, T, a, Then, seen
        <3> QED
            BY <2>3, <3>1
    <2> HIDE DEF g, T, a, Then, seen
    <2> QED
        BY <2>4
<1>7. seen = [n \in 0 .. Len(places) |-> IF n = 0 THEN a ELSE Then(seen[n - 1], n)]
    BY <1>6
<1>8. Newest(ms, places, budget) = LastOf(places, seen[Len(places)].kept)
    BY DEF Newest
<1> HIDE DEF seen
<1> DEFINE c == [n \in 0 .. L |-> Cost(ms, LastOf(places, n))]
           Good(acc, n) ==
               /\ acc.kept \in 0 .. n /\ acc.full \in BOOLEAN
               /\ acc.cost = c[acc.kept] /\ c[acc.kept] <= budget
               /\ acc.full => acc.kept < n /\ c[acc.kept + 1] > budget
               /\ ~acc.full => acc.kept = n
           S == {n \in 0 .. L : Good(seen[n], n)}
<1>9. /\ c[0] = 0
      /\ \A n \in 1 .. L : c[n - 1] \in Nat /\ c[n] \in Nat /\ c[n] = c[n - 1] + Price(ms, places, n)
    BY <1>0, CostOfLast
<1> HIDE DEF c
<1>10. 0 \in S /\ S \in SUBSET (0 .. L)
    BY <1>0, <1>7, <1>9
<1>11. ASSUME NEW n \in S, n < L
       PROVE  n + 1 \in S
    <2>1. /\ n \in Nat /\ n + 1 \in 1 .. L /\ n + 1 \in 0 .. L /\ (n + 1) - 1 = n
          /\ Good(seen[n], n)
        BY <1>0, <1>11
    <2>2. seen[n + 1] = Then(seen[n], n + 1)
        <3>1. n + 1 \in 0 .. Len(places) /\ n + 1 # 0
            BY <1>0, <2>1
        <3> HIDE DEF Then, a, S, g, T
        <3>2. seen[n + 1] = Then(seen[(n + 1) - 1], n + 1)
            BY <1>7, <3>1
        <3> QED
            BY <2>1, <3>2
    <2> DEFINE acc == seen[n]
    <2>3. c[acc.kept] \in Nat /\ Price(ms, places, n + 1) \in Nat
        BY <1>0, <1>1, <1>9, <2>1
    <2> HIDE DEF acc, S
    <2>4. Good(seen[n + 1], n + 1)
        <3>1. CASE acc.full
            BY <2>1, <2>2, <2>3, <3>1 DEF acc
        <3>2. CASE ~acc.full /\ acc.cost + Price(ms, places, n + 1) > budget
            BY <1>9, <2>1, <2>2, <2>3, <3>2 DEF acc
        <3>3. CASE ~acc.full /\ ~(acc.cost + Price(ms, places, n + 1) > budget)
            <4> DEFINE price == Price(ms, places, n + 1)
            <4>1. seen[n + 1] = [cost |-> acc.cost + price, kept |-> acc.kept + 1, full |-> FALSE]
                BY <2>2, <3>3 DEF acc
            <4>2. acc.kept = n /\ acc.cost = c[n]
                BY <2>1, <3>3 DEF acc
            <4>3. c[n + 1] = c[n] + price /\ c[n + 1] <= budget
                BY <1>9, <2>1, <2>3, <3>3, <4>2
            <4> HIDE DEF price
            <4> QED
                BY <2>1, <4>1, <4>2, <4>3
        <3> QED
            BY <3>1, <3>2, <3>3
    <2> QED
        BY <2>1, <2>4 DEF S
<1>12. L \in S
    <2> HIDE DEF S
    <2>1. S = 0 .. L
        BY <1>0, <1>10, <1>11, Induction
    <2> QED
        BY <1>0, <2>1
<1> DEFINE k == seen[L].kept
<1>13. Good(seen[L], L)
    BY <1>12
<1>14. /\ k \in 0 .. L /\ c[k] <= budget /\ (k # L => c[k + 1] > budget /\ k + 1 \in 0 .. L)
    BY <1>0, <1>13
<1> HIDE DEF k
<1>15. /\ Cost(ms, LastOf(places, k)) <= budget
       /\ k # L => Cost(ms, LastOf(places, k + 1)) > budget
    BY <1>14 DEF c
<1> QED
    BY <1>8, <1>14, <1>15 DEF k

LEMMA MostOf ==
    ASSUME NEW ms, IsConversation(ms), NEW places \in Seq(DOMAIN ms), NEW budget \in Nat,
           NEW k \in 0 .. Len(places), Cost(ms, LastOf(places, k)) <= budget,
           k # Len(places) => Cost(ms, LastOf(places, k + 1)) > budget
    PROVE  Affordable(ms, places, budget) = k
<1> DEFINE L == Len(places)
           c == [n \in 0 .. L |-> Cost(ms, LastOf(places, n))]
           paid == {n \in 0 .. L : Cost(ms, LastOf(places, n)) <= budget}
           S == {n \in 0 .. L : n > k => c[n] > budget}
<1>0. L \in Nat /\ k \in Nat /\ k <= L
    OBVIOUS
<1>1. \A n \in 1 .. L : c[n - 1] \in Nat /\ c[n] \in Nat /\ c[n] = c[n - 1] + Price(ms, places, n)
    BY <1>0, CostOfLast
<1>2. c[k] <= budget /\ (k # L => c[k + 1] > budget)
    BY <1>0
<1>3. paid = {n \in 0 .. L : c[n] <= budget}
    OBVIOUS
<1> HIDE DEF c, paid
<1>4. 0 \in S /\ S \in SUBSET (0 .. L)
    BY <1>0
<1>5. ASSUME NEW n \in S, n < L
      PROVE  n + 1 \in S
    <2>1. n \in Nat /\ n + 1 \in 1 .. L /\ n + 1 \in 0 .. L /\ (n + 1) - 1 = n /\ (n > k => c[n] > budget)
        BY <1>0, <1>5
    <2>2. c[n] \in Nat /\ c[n + 1] \in Nat /\ Price(ms, places, n + 1) \in Nat
          /\ c[n + 1] = c[n] + Price(ms, places, n + 1)
        BY <1>1, <2>1, PriceIs
    <2>3. CASE n < k
        BY <1>0, <2>1, <2>3
    <2>4. CASE n = k
        BY <1>0, <1>2, <2>1, <2>4
    <2>5. CASE n > k
        BY <1>0, <2>1, <2>2, <2>5
    <2> QED
        BY <1>0, <2>1, <2>3, <2>4, <2>5
<1>6. S = 0 .. L
    <2> HIDE DEF S
    <2> QED
        BY <1>0, <1>4, <1>5, Induction
<1>7. \A n \in 0 .. L : c[n] <= budget => n <= k
    <2> SUFFICES ASSUME NEW n \in 0 .. L, c[n] <= budget, n > k
                 PROVE  FALSE
        BY <1>0
    <2>1. c[n] > budget
        BY <1>6
    <2>2. c[n] \in Nat
        BY <1>0, <1>1
    <2> QED
        BY <2>1, <2>2
<1>8. k \in paid /\ \A n \in paid : k >= n
    BY <1>0, <1>2, <1>3, <1>7
<1>9. \A x \in paid : (\A n \in paid : x >= n) => x = k
    <2>1. \A x \in paid : x \in Nat
        BY <1>0, <1>3
    <2> QED
        BY <1>0, <1>8, <2>1
<1>10. Max(paid) = k
    BY <1>8, <1>9 DEF Max
<1> QED
    BY <1>10 DEF Affordable, paid

LEMMA AllIs ==
    ASSUME NEW ms, IsConversation(ms)
    PROVE  /\ Len(ms) \in Nat /\ DOMAIN ms = 1 .. Len(ms)
           /\ All(ms) \in Seq(DOMAIN ms) /\ Len(All(ms)) = Len(ms)
           /\ \A i \in DOMAIN ms : All(ms)[i] = i /\ ms[i].tokens \in Nat
<1> DEFINE Item == [role : {ms[i].role : i \in DOMAIN ms}, tokens : Nat]
<1>1. ms \in Seq(Item)
    BY DEF IsConversation
<1>2. \A m \in Item : m.tokens \in Nat
    OBVIOUS
<1> HIDE DEF Item
<1>3. Len(ms) \in Nat /\ DOMAIN ms = 1 .. Len(ms)
    BY <1>1
<1>4. All(ms) \in [1 .. Len(ms) -> DOMAIN ms] /\ \A i \in DOMAIN ms : All(ms)[i] = i
    BY <1>3 DEF All
<1>5. All(ms) \in Seq(DOMAIN ms) /\ Len(All(ms)) = Len(ms)
    <2> HIDE DEF Item
    <2>1. \E n \in Nat : All(ms) \in [1 .. n -> DOMAIN ms]
        BY <1>3, <1>4
    <2> QED
        BY <1>3, <1>4, <2>1
<1> QED
    BY <1>1, <1>2, <1>3, <1>4, <1>5

LEMMA CostOfPlaces ==
    ASSUME NEW ms, IsConversation(ms), NEW places \in Seq(DOMAIN ms)
    PROVE  /\ Cost(ms, places) \in Nat
           /\ \A n \in 1 .. Len(places) : Price(ms, places, n) \in Nat
           /\ \E f \in [0 .. Len(places) -> Nat] :
                Pays(f, ms, places) /\ Cost(ms, places) = f[Len(places)]
           /\ \A f : Pays(f, ms, places) => Cost(ms, places) = f[Len(places)]
<1>1. Len(places) \in Nat /\ Len(places) \in 0 .. Len(places)
    OBVIOUS
<1>2. \A n \in 1 .. Len(places) : Price(ms, places, n) \in Nat
    BY <1>1, PriceIs
<1>3. PICK f \in [0 .. Len(places) -> Nat] :
        Pays(f, ms, places) /\ Cost(ms, places) = f[Len(places)]
    BY <1>1, <1>2, CostIs
<1>4. \A h : Pays(h, ms, places) => Cost(ms, places) = h[Len(places)]
    BY <1>1, <1>2, CostOnly
<1> QED
    BY <1>1, <1>2, <1>3, <1>4

LEMMA CostOfBoth ==
    ASSUME NEW ms, IsConversation(ms), NEW s \in Seq(DOMAIN ms), NEW t \in Seq(DOMAIN ms)
    PROVE  Cost(ms, s \o t) = Cost(ms, s) + Cost(ms, t)
<1> DEFINE a == Len(s)
           b == Len(t)
           both == s \o t
<1>1. /\ a \in Nat /\ b \in Nat /\ both \in Seq(DOMAIN ms) /\ Len(both) = a + b
      /\ \A i \in 1 .. a : both[i] = s[i]
      /\ \A i \in 1 .. b : both[a + i] = t[i]
    OBVIOUS
<1>2. \A n \in 1 .. a : Price(ms, s, n) \in Nat
    BY CostOfPlaces
<1>3. PICK f \in [0 .. a -> Nat] : Pays(f, ms, s) /\ Cost(ms, s) = f[a]
    BY CostOfPlaces
<1>4. PICK g \in [0 .. b -> Nat] : Pays(g, ms, t) /\ Cost(ms, t) = g[b]
    BY CostOfPlaces
<1> HIDE DEF both
<1> DEFINE h == [n \in 0 .. a + b |-> IF n <= b THEN g[n] ELSE g[b] + f[n - b]]
<1>5. \A n \in 1 .. b : Price(ms, both, n) = Price(ms, t, n)
    <2> SUFFICES ASSUME NEW n \in 1 .. b
                 PROVE  Price(ms, both, n) = Price(ms, t, n)
        OBVIOUS
    <2>1. b - n + 1 \in 1 .. b /\ a + (b - n + 1) = Len(both) - n + 1
        BY <1>1
    <2>2. both[Len(both) - n + 1] = t[b - n + 1]
        BY <1>1, <2>1
    <2> QED
        BY <2>2 DEF Price
<1>6. \A n \in b + 1 .. a + b : Price(ms, both, n) = Price(ms, s, n - b)
    <2> SUFFICES ASSUME NEW n \in b + 1 .. a + b
                 PROVE  Price(ms, both, n) = Price(ms, s, n - b)
        OBVIOUS
    <2>1. a - (n - b) + 1 \in 1 .. a /\ a - (n - b) + 1 = Len(both) - n + 1
        BY <1>1
    <2>2. both[Len(both) - n + 1] = s[a - (n - b) + 1]
        BY <1>1, <2>1
    <2> QED
        BY <2>2 DEF Price
<1>7. h[0] = 0 /\ h[a + b] = f[a] + g[b]
    <2>1. f[0] = 0 /\ g[0] = 0
        BY <1>3, <1>4 DEF Pays
    <2>2. 0 \in 0 .. a + b /\ a + b \in 0 .. a + b /\ 0 <= b /\ (a + b) - b = a
        BY <1>1
    <2>3. h[0] = 0
        BY <2>1, <2>2
    <2>4. f[a] \in Nat /\ g[b] \in Nat
        BY <1>1
    <2>5. CASE a = 0
        BY <1>1, <2>1, <2>2, <2>4, <2>5
    <2>6. CASE a # 0
        <3>1. ~(a + b <= b)
            BY <1>1, <2>6
        <3> QED
            BY <2>2, <2>3, <2>4, <3>1
    <2> QED
        BY <1>1, <2>5, <2>6
<1>8. \A n \in 1 .. a + b : h[n] = h[n - 1] + Price(ms, both, n)
    <2> SUFFICES ASSUME NEW n \in 1 .. a + b
                 PROVE  h[n] = h[n - 1] + Price(ms, both, n)
        OBVIOUS
    <2>1. n \in 0 .. a + b /\ n - 1 \in 0 .. a + b
        BY <1>1
    <2>2. CASE n <= b
        <3>1. n \in 1 .. b /\ n - 1 <= b
            BY <1>1, <2>2
        <3>2. h[n] = g[n] /\ h[n - 1] = g[n - 1]
            BY <2>1, <2>2, <3>1
        <3>3. g[n] = g[n - 1] + Price(ms, t, n)
            BY <1>4, <3>1 DEF Pays
        <3> HIDE DEF h
        <3> QED
            BY <1>5, <3>1, <3>2, <3>3
    <2>3. CASE n = b + 1
        <3>1. 1 \in 1 .. a /\ n \in b + 1 .. a + b /\ n - b = 1 /\ ~(n <= b)
              /\ n - 1 = b /\ b <= b /\ 1 - 1 = 0
            BY <1>1, <2>3
        <3>2. h[n] = g[b] + f[1] /\ h[n - 1] = g[b]
            BY <2>1, <3>1
        <3>3. f[1] = f[1 - 1] + Price(ms, s, 1) /\ f[0] = 0
            BY <1>3, <3>1 DEF Pays
        <3> HIDE DEF h
        <3>4. f[1] = Price(ms, both, n)
            BY <1>2, <1>6, <3>1, <3>3
        <3> QED
            BY <3>2, <3>4
    <2>4. CASE n > b + 1
        <3>1. /\ n - b \in 1 .. a /\ n \in b + 1 .. a + b /\ (n - 1) - b = (n - b) - 1
              /\ ~(n <= b) /\ ~(n - 1 <= b) /\ (n - b) - 1 \in 0 .. a
            BY <1>1, <2>4
        <3>2. h[n] = g[b] + f[n - b] /\ h[n - 1] = g[b] + f[(n - b) - 1]
            BY <2>1, <3>1
        <3>3. f[n - b] = f[(n - b) - 1] + Price(ms, s, n - b)
            BY <1>3, <3>1 DEF Pays
        <3>4. f[(n - b) - 1] \in Nat /\ g[b] \in Nat /\ Price(ms, s, n - b) \in Nat
            <4>1. b \in 0 .. b
                BY <1>1
            <4> HIDE DEF h
            <4> QED
                BY <1>2, <3>1, <4>1
        <3>5. Price(ms, both, n) = Price(ms, s, n - b)
            BY <1>6, <3>1
        <3> HIDE DEF h
        <3> QED
            BY <3>2, <3>3, <3>4, <3>5
    <2> QED
        BY <1>1, <2>2, <2>3, <2>4
<1> HIDE DEF h
<1>9. Pays(h, ms, both)
    BY <1>1, <1>7, <1>8 DEF Pays
<1>10. Cost(ms, both) = h[a + b]
    BY <1>1, <1>9, CostOfPlaces
<1> QED
    BY <1>3, <1>4, <1>7, <1>10 DEF both

\* No message is free: what some cost is at least how many they are.
LEMMA CostAtLeast ==
    ASSUME NEW ms, IsConversation(ms), \A i \in DOMAIN ms : ms[i].tokens > 0,
           NEW places \in Seq(DOMAIN ms)
    PROVE  Len(places) <= Cost(ms, places)
<1> DEFINE L == Len(places)
<1>1. L \in Nat /\ L \in 0 .. L /\ \A i \in 1 .. L : places[i] \in DOMAIN ms
    OBVIOUS
<1>2. \A n \in 1 .. L : Price(ms, places, n) \in Nat
    BY CostOfPlaces
<1>3. \A n \in 1 .. L : Price(ms, places, n) > 0
    <2> SUFFICES ASSUME NEW n \in 1 .. L
                 PROVE  Price(ms, places, n) > 0
        OBVIOUS
    <2>1. Len(places) - n + 1 \in 1 .. L
        BY <1>1
    <2> QED
        BY <1>1, <2>1 DEF Price
<1>4. PICK f \in [0 .. L -> Nat] : Pays(f, ms, places) /\ Cost(ms, places) = f[L]
    BY CostOfPlaces
<1> DEFINE S == {n \in 0 .. L : n <= f[n]}
<1>5. 0 \in S /\ S \in SUBSET (0 .. L)
    BY <1>1, <1>4 DEF Pays
<1>6. ASSUME NEW n \in S, n < L
      PROVE  n + 1 \in S
    <2>1. n \in Nat /\ n + 1 \in 1 .. L /\ n + 1 \in 0 .. L /\ (n + 1) - 1 = n /\ n <= f[n] /\ f[n] \in Nat
        BY <1>1, <1>6
    <2>2. f[n + 1] = f[n] + Price(ms, places, n + 1)
        BY <1>4, <2>1 DEF Pays
    <2> QED
        BY <1>2, <1>3, <2>1, <2>2
<1>7. L \in S
    <2> HIDE DEF S
    <2>1. S = 0 .. L
        BY <1>1, <1>5, <1>6, Induction
    <2> QED
        BY <1>1, <2>1
<1> QED
    BY <1>4, <1>7

LEMMA OptimizeFits ==
    ASSUME NEW ms, IsConversation(ms), NEW budget \in Nat
    PROVE  LET result == Optimize(ms, budget)
               kept == result.places
           IN /\ kept = LastOf(All(ms), Affordable(ms, All(ms), budget))
              /\ result.told = Len(ms) - Len(kept)
<1>1. All(ms) \in Seq(DOMAIN ms)
    BY AllIs
<1>2. PICK k \in 0 .. Len(All(ms)) :
        /\ Newest(ms, All(ms), budget) = LastOf(All(ms), k)
        /\ Cost(ms, LastOf(All(ms), k)) <= budget
        /\ k # Len(All(ms)) => Cost(ms, LastOf(All(ms), k + 1)) > budget
    BY <1>1, NewestIs
<1>3. Affordable(ms, All(ms), budget) = k
    BY <1>1, <1>2, MostOf
<1> QED
    BY <1>2, <1>3 DEF Optimize, Kept

IsSystem(ms, i) == Role(ms, i) = "system"
SystemAt(ms, places) == {k \in DOMAIN places : IsSystem(ms, places[k])}
OthersAt(ms, places) == {k \in DOMAIN places : ~IsSystem(ms, places[k])}

\* A conversation falls apart into its system messages and the others.
LEMMA ApartIs ==
    ASSUME NEW ms, IsConversation(ms)
    PROVE  /\ SystemOf(ms) \in Seq(DOMAIN ms) /\ OthersOf(ms) \in Seq(DOMAIN ms)
           /\ Len(SystemOf(ms)) + Len(OthersOf(ms)) = Len(ms)
           /\ \A k \in 1 .. Len(SystemOf(ms)) : IsSystem(ms, SystemOf(ms)[k])
           /\ \A k \in 1 .. Len(OthersOf(ms)) : ~IsSystem(ms, OthersOf(ms)[k])
           /\ \A i \in DOMAIN ms : IsSystem(ms, i) =>
                \E k \in 1 .. Len(SystemOf(ms)) : SystemOf(ms)[k] = i
<1> DEFINE P == {i \in DOMAIN ms : IsSystem(ms, i)}
           Q == {i \in DOMAIN ms : ~IsSystem(ms, i)}
<1>1. /\ Len(ms) \in Nat /\ DOMAIN ms = 1 .. Len(ms) /\ All(ms) \in Seq(DOMAIN ms)
      /\ DOMAIN All(ms) = DOMAIN ms /\ \A i \in DOMAIN ms : All(ms)[i] = i
    BY AllIs
<1>2. SystemOf(ms) = Chosen(All(ms), P) /\ OthersOf(ms) = Chosen(All(ms), Q)
    BY DEF SystemOf, OthersOf, IsSystem
<1>3. /\ P \in SUBSET DOMAIN ms /\ Q \in SUBSET DOMAIN ms /\ P \cap Q = {}
      /\ P \union Q = DOMAIN ms
      /\ \A i \in P : IsSystem(ms, i)
      /\ \A i \in Q : ~IsSystem(ms, i)
      /\ \A i \in DOMAIN ms : IsSystem(ms, i) => i \in P
    OBVIOUS
<1> HIDE DEF P, Q
<1>4. /\ SystemOf(ms) \in Seq(DOMAIN ms) /\ Len(SystemOf(ms)) = Cardinality(P)
      /\ \A k \in 1 .. Cardinality(P) :
            Nth(P, k) \in P /\ SystemOf(ms)[k] = All(ms)[Nth(P, k)]
    BY <1>1, <1>2, <1>3, ChosenIs
<1>5. /\ OthersOf(ms) \in Seq(DOMAIN ms) /\ Len(OthersOf(ms)) = Cardinality(Q)
      /\ \A k \in 1 .. Cardinality(Q) :
            Nth(Q, k) \in Q /\ OthersOf(ms)[k] = All(ms)[Nth(Q, k)]
    BY <1>1, <1>2, <1>3, ChosenIs
<1>6. Cardinality(P) + Cardinality(Q) = Len(ms)
    <2>1. IsFiniteSet(1 .. Len(ms)) /\ Cardinality(1 .. Len(ms)) = Len(ms)
        BY <1>1, FS_Interval
    <2>2. IsFiniteSet(P) /\ IsFiniteSet(Q) /\ Cardinality(P) \in Nat /\ Cardinality(Q) \in Nat
        BY <1>1, <1>3, PlacesFinite
    <2>3. Cardinality(P \union Q) = Cardinality(P) + Cardinality(Q) - Cardinality(P \cap Q)
        BY <2>2, FS_Union
    <2>4. Cardinality(P \cap Q) = 0
        BY <1>3, FS_EmptySet
    <2>5. Cardinality(P \union Q) = Len(ms)
        BY <1>1, <1>3, <2>1
    <2> QED
        BY <2>2, <2>3, <2>4, <2>5
<1>7. \A i \in DOMAIN ms : IsSystem(ms, i) =>
        \E k \in 1 .. Len(SystemOf(ms)) : SystemOf(ms)[k] = i
    <2> SUFFICES ASSUME NEW i \in DOMAIN ms, IsSystem(ms, i)
                 PROVE  \E k \in 1 .. Len(SystemOf(ms)) : SystemOf(ms)[k] = i
        OBVIOUS
    <2> DEFINE k == Cardinality(UpTo(P, i))
    <2>1. i \in P
        BY <1>3
    <2>2. k \in 1 .. Cardinality(P) /\ Nth(P, k) = i
        BY <1>1, <1>3, <2>1, RankIs
    <2> QED
        BY <1>1, <1>4, <2>2
<1> QED
    BY <1>1, <1>3, <1>4, <1>5, <1>6, <1>7

\* What stands behind the system messages is what is not one.
LEMMA OthersBehind ==
    ASSUME NEW ms, NEW s \in Seq(DOMAIN ms), NEW t \in Seq(DOMAIN ms),
           \A k \in 1 .. Len(s) : IsSystem(ms, s[k]),
           \A k \in 1 .. Len(t) : ~IsSystem(ms, t[k])
    PROVE  Chosen(s \o t, OthersAt(ms, s \o t)) = t
<1> DEFINE a == Len(s)
           b == Len(t)
           both == s \o t
           P == OthersAt(ms, both)
           g == [n \in 1 .. b |-> a + n]
<1>1. /\ a \in Nat /\ b \in Nat /\ both \in Seq(DOMAIN ms) /\ DOMAIN both = 1 .. a + b
      /\ t = [n \in 1 .. b |-> t[n]]
      /\ \A i \in 1 .. a : both[i] = s[i]
      /\ \A i \in 1 .. b : both[a + i] = t[i]
    OBVIOUS
<1> HIDE DEF both, a, b
<1>2. \A p \in 1 .. a + b : p \in P <=> p > a
    <2> SUFFICES ASSUME NEW p \in 1 .. a + b
                 PROVE  p \in P <=> p > a
        OBVIOUS
    <2>1. p \in P <=> ~IsSystem(ms, both[p])
        BY <1>1 DEF OthersAt
    <2>2. CASE p > a
        <3>1. p - a \in 1 .. b /\ a + (p - a) = p
            BY <1>1, <2>2
        <3>2. both[p] = t[p - a]
            BY <1>1, <3>1
        <3> QED
            BY <2>1, <2>2, <3>1, <3>2 DEF b
    <2>3. CASE ~(p > a)
        <3>1. p \in 1 .. a
            BY <1>1, <2>3
        <3>2. both[p] = s[p]
            BY <1>1, <3>1
        <3> QED
            BY <2>1, <2>3, <3>1, <3>2 DEF a
    <2> QED
        BY <2>2, <2>3
<1>3. P \in SUBSET (1 .. a + b)
    BY <1>1 DEF OthersAt
<1> HIDE DEF P
<1>4. /\ g \in [1 .. b -> P] /\ \A n \in 1 .. b : g[n] = a + n
      /\ \A i, j \in 1 .. b : i < j => g[i] < g[j]
      /\ \A p \in P : \E i \in 1 .. b : g[i] = p
    <2>1. \A n \in 1 .. b : a + n \in 1 .. a + b /\ a + n > a
        BY <1>1
    <2>2. \A p \in P : p - a \in 1 .. b /\ a + (p - a) = p
        BY <1>1, <1>2, <1>3
    <2>3. g \in [1 .. b -> P] /\ \A n \in 1 .. b : g[n] = a + n
        BY <1>2, <2>1
    <2>4. \A i, j \in 1 .. b : i < j => g[i] < g[j]
        BY <1>1
    <2> QED
        BY <2>2, <2>3, <2>4
<1> HIDE DEF g
<1>5. b = Cardinality(P) /\ \A i \in 1 .. b : Nth(P, i) = g[i]
    <2>1. a + b \in Nat
        BY <1>1
    <2> QED
        BY <1>1, <1>3, <1>4, <2>1, OnlyByRank
<1>6. \A n \in 1 .. b : both[Nth(P, n)] = t[n]
    BY <1>1, <1>4, <1>5
<1>7. Chosen(both, P) = [n \in 1 .. b |-> t[n]]
    BY <1>5, <1>6 DEF Chosen
<1> QED
    BY <1>1, <1>7 DEF both, P

LEMMA LastOfAll ==
    ASSUME NEW T, NEW s \in Seq(T)
    PROVE  LastOf(s, Len(s)) = s /\ LastOf(s, 0) = <<>>
<1>1. Len(s) \in Nat /\ Len(s) - Len(s) + 1 = 1 /\ Len(s) - 0 + 1 = Len(s) + 1
    OBVIOUS
<1>2. SubSeq(s, 1, Len(s)) = s
    OBVIOUS
<1>3. SubSeq(s, Len(s) + 1, Len(s)) = <<>>
    BY <1>1
<1> QED
    BY <1>1, <1>2, <1>3 DEF LastOf

LEMMA MaxOfTwo ==
    ASSUME NEW a \in Nat, NEW b \in Nat
    PROVE  /\ Max({a, b}) \in Nat /\ Max({a, b}) >= a /\ Max({a, b}) >= b
           /\ Max({a, b}) = a \/ Max({a, b}) = b
           /\ Min({a, b}) \in Nat /\ Min({a, b}) <= a /\ Min({a, b}) <= b
           /\ Min({a, b}) = a \/ Min({a, b}) = b
<1>1. \E x \in {a, b} : \A y \in {a, b} : x >= y
    BY a >= b \/ b >= a
<1>2. \E x \in {a, b} : \A y \in {a, b} : x <= y
    BY a >= b \/ b >= a
<1>3. Max({a, b}) \in {a, b} /\ \A y \in {a, b} : Max({a, b}) >= y
    BY <1>1 DEF Max
<1>4. Min({a, b}) \in {a, b} /\ \A y \in {a, b} : Min({a, b}) <= y
    BY <1>2 DEF Min
<1> QED
    BY <1>3, <1>4

TruncateIs(ms, budget, result) ==
    LET places == result.places
        kept == Chosen(places, {k \in DOMAIN places : Role(ms, places[k]) # "system"})
    IN /\ kept = LastOf(OthersOf(ms), Len(kept))
       /\ {i \in DOMAIN ms : Role(ms, i) = "system"} \subseteq {places[k] : k \in DOMAIN places}
       /\ Cost(ms, places) <= Max({budget, Cost(ms, SystemOf(ms))})
       /\ (\A i \in DOMAIN ms : ms[i].tokens > 0)
              => result.told <= Len(ms) - Len(places)

\* All the system messages and the last k of the others.
LEMMA SystemAndLast ==
    ASSUME NEW ms, IsConversation(ms), NEW k \in 0 .. Len(OthersOf(ms)), NEW told,
           NEW budget, NEW places,
           places = SystemOf(ms) \o LastOf(OthersOf(ms), k),
           Cost(ms, places) <= Max({budget, Cost(ms, SystemOf(ms))}),
           (\A i \in DOMAIN ms : ms[i].tokens > 0) => told <= Len(OthersOf(ms)) - k
    PROVE  TruncateIs(ms, budget, Kept(places, told))
<1> DEFINE s == SystemOf(ms)
           t == LastOf(OthersOf(ms), k)
<1>1. /\ s \in Seq(DOMAIN ms) /\ OthersOf(ms) \in Seq(DOMAIN ms)
      /\ Len(s) + Len(OthersOf(ms)) = Len(ms)
      /\ \A i \in 1 .. Len(s) : IsSystem(ms, s[i])
      /\ \A i \in 1 .. Len(OthersOf(ms)) : ~IsSystem(ms, OthersOf(ms)[i])
      /\ \A i \in DOMAIN ms : IsSystem(ms, i) => \E n \in 1 .. Len(s) : s[n] = i
    BY ApartIs
<1>2. /\ t \in Seq(DOMAIN ms) /\ Len(t) = k
      /\ \A i \in 1 .. k : t[i] = OthersOf(ms)[Len(OthersOf(ms)) - k + i]
    BY <1>1, LastOfIs
<1>3. \A i \in 1 .. Len(t) : ~IsSystem(ms, t[i])
    <2> SUFFICES ASSUME NEW i \in 1 .. k
                 PROVE  ~IsSystem(ms, t[i])
        BY <1>2
    <2>1. Len(OthersOf(ms)) - k + i \in 1 .. Len(OthersOf(ms))
        BY <1>1
    <2> QED
        BY <1>1, <1>2, <2>1
<1> HIDE DEF s, t
<1>4. Chosen(places, {n \in DOMAIN places : Role(ms, places[n]) # "system"}) = t
    BY <1>1, <1>2, <1>3, OthersBehind DEF s, t, OthersAt, IsSystem
<1>5. /\ Len(s) \in Nat /\ Len(t) \in Nat /\ Len(places) = Len(s) + Len(t)
      /\ DOMAIN places = 1 .. Len(s) + Len(t)
      /\ \A n \in 1 .. Len(s) : places[n] = s[n]
    <2>1. places = s \o t
        BY DEF s, t
    <2>2. s \in Seq(DOMAIN ms) /\ t \in Seq(DOMAIN ms)
        BY <1>1, <1>2
    <2> QED
        BY <2>1, <2>2
<1>6. {i \in DOMAIN ms : Role(ms, i) = "system"} \subseteq {places[n] : n \in DOMAIN places}
    <2>1. \A n \in 1 .. Len(s) : n \in DOMAIN places
        BY <1>5
    <2>2. ASSUME NEW i \in DOMAIN ms, Role(ms, i) = "system"
          PROVE  \E n \in DOMAIN places : places[n] = i
        <3>1. PICK n \in 1 .. Len(s) : s[n] = i
            BY <1>1, <2>2 DEF IsSystem
        <3> QED
            BY <1>5, <2>1, <3>1
    <2> QED
        BY <2>2
<1>7. Len(ms) - Len(places) = Len(OthersOf(ms)) - k
    <2>1. Len(OthersOf(ms)) \in Nat /\ k \in Nat
        BY <1>1
    <2> QED
        BY <1>1, <1>2, <1>5, <2>1
<1> QED
    BY <1>2, <1>4, <1>6, <1>7 DEF TruncateIs, Kept, t

LEMMA TruncateFits ==
    ASSUME NEW ms, IsConversation(ms), NEW budget \in Nat, NoticeTokens \in Nat
    PROVE  TruncateIs(ms, budget, TruncateMessages(ms, budget))
<1> DEFINE s == SystemOf(ms)
           others == OthersOf(ms)
           all == All(ms)
           n == Len(others)
           room == Minus(budget, Cost(ms, s))
           guessed == Min({n, room})
           lost == n - guessed
           spent == guessed + (IF lost > 0 THEN NoticeTokens ELSE 0)
           newest == Newest(ms, others, Minus(room, spent))
<1>1. /\ s \in Seq(DOMAIN ms) /\ others \in Seq(DOMAIN ms) /\ all \in Seq(DOMAIN ms)
      /\ n \in Nat /\ Len(all) = Len(ms) /\ Len(ms) \in Nat
    BY ApartIs, AllIs
<1>2. /\ Cost(ms, s) \in Nat /\ Cost(ms, all) \in Nat
      /\ \A k \in 0 .. n : Cost(ms, LastOf(others, k)) \in Nat
    <2>1. Cost(ms, s) \in Nat /\ Cost(ms, all) \in Nat
        BY <1>1, CostOfPlaces
    <2>2. \A k \in 0 .. n : LastOf(others, k) \in Seq(DOMAIN ms)
        BY <1>1, LastOfIs
    <2> QED
        BY <2>1, <2>2, CostOfPlaces
<1>3. LastOf(others, n) = others /\ LastOf(others, 0) = <<>>
    BY <1>1, LastOfAll
<1>4. Max({budget, Cost(ms, s)}) >= budget /\ Max({budget, Cost(ms, s)}) >= Cost(ms, s)
      /\ Max({budget, Cost(ms, s)}) \in Nat
    BY <1>2, MaxOfTwo
<1>5. TruncateMessages(ms, budget) =
        CASE Cost(ms, all) <= budget -> Kept(all, 0)
          [] Cost(ms, all) > budget /\ room = 0 -> Kept(s, 0)
          [] OTHER -> Kept(s \o newest, lost)
    BY DEF TruncateMessages
<1> HIDE DEF s, others, all, room, guessed, newest
<1>6. CASE Cost(ms, all) <= budget
    <2>1. TruncateMessages(ms, budget) = Kept(all, 0)
        BY <1>2, <1>5, <1>6
    <2>2. Chosen(all, {i \in DOMAIN all : Role(ms, all[i]) # "system"}) = others
        <3>1. DOMAIN all = DOMAIN ms /\ \A i \in DOMAIN ms : all[i] = i
            BY AllIs DEF all
        <3>2. {i \in DOMAIN all : Role(ms, all[i]) # "system"}
                = {i \in DOMAIN ms : Role(ms, i) # "system"}
            BY <3>1
        <3> QED
            BY <3>2 DEF all, others, OthersOf
    <2>3. {i \in DOMAIN ms : Role(ms, i) = "system"} \subseteq {all[k] : k \in DOMAIN all}
        <3>1. DOMAIN all = DOMAIN ms /\ \A i \in DOMAIN ms : all[i] = i
            BY AllIs DEF all
        <3> QED
            BY <3>1
    <2>4. Cost(ms, all) <= Max({budget, Cost(ms, s)})
        BY <1>2, <1>4, <1>6
    <2>5. 0 <= Len(ms) - Len(all)
        BY <1>1
    <2> QED
        BY <1>3, <2>1, <2>2, <2>3, <2>4, <2>5 DEF TruncateIs, Kept, others, s
<1>7. CASE Cost(ms, all) > budget /\ room = 0
    <2>1. TruncateMessages(ms, budget) = Kept(s, 0)
        BY <1>2, <1>5, <1>7
    <2>2. s \o LastOf(others, 0) = s
        BY <1>1, <1>3
    <2>3. 0 \in 0 .. n /\ 0 <= n - 0
        BY <1>1
    <2> QED
        BY <1>4, <2>1, <2>2, <2>3, SystemAndLast DEF s, others
<1>8. CASE Cost(ms, all) > budget /\ room # 0
    <2>1. TruncateMessages(ms, budget) = Kept(s \o newest, lost)
        BY <1>2, <1>5, <1>8
    <2>2. room \in Nat /\ room + Cost(ms, s) = budget
        BY <1>2, <1>8 DEF room, Minus
    <2>3. guessed \in Nat /\ guessed <= n /\ guessed <= room /\ (guessed = n \/ guessed = room)
        BY <1>1, <2>2, MaxOfTwo DEF guessed
    <2>4. Minus(room, spent) \in Nat /\ Minus(room, spent) <= room
        BY <1>1, <2>2, <2>3 DEF Minus
    <2>5. PICK k \in 0 .. n : newest = LastOf(others, k) /\ Cost(ms, newest) <= Minus(room, spent)
        BY <1>1, <2>4, NewestIs DEF newest
    <2>6. newest \in Seq(DOMAIN ms) /\ Len(newest) = k /\ k \in Nat /\ k <= n
        BY <1>1, <2>5, LastOfIs
    <2>7. Cost(ms, newest) \in Nat
        BY <1>2, <2>5
    <2>8. Cost(ms, s \o newest) = Cost(ms, s) + Cost(ms, newest)
        BY <1>1, <2>6, CostOfBoth
    <2>9. Cost(ms, s \o newest) <= Max({budget, Cost(ms, s)})
        BY <1>2, <1>4, <2>2, <2>4, <2>5, <2>7, <2>8
    <2>10. ASSUME \A i \in DOMAIN ms : ms[i].tokens > 0
           PROVE  lost <= n - k
        <3>1. k <= Cost(ms, newest)
            BY <2>6, <2>10, CostAtLeast
        <3>2. k <= room
            BY <2>2, <2>4, <2>5, <2>6, <2>7, <3>1
        <3> QED
            BY <1>1, <2>2, <2>3, <2>6, <3>2
    <2> QED
        BY <2>1, <2>5, <2>9, <2>10, SystemAndLast DEF s, others
<1> QED
    BY <1>2, <1>6, <1>7, <1>8

LEMMA CountIs ==
    ASSUME NEW chars \in Nat
    PROVE  /\ CountTokens(chars) \in Nat /\ CountTokens(chars) >= 1
           /\ \A b \in Nat : chars <= 4 * b => CountTokens(chars) <= b \/ CountTokens(chars) = 1
           /\ \A m \in Nat : m <= chars => CountTokens(m) <= CountTokens(chars)
<1>1. \A c \in Nat : c \div 4 \in Nat /\ 4 * (c \div 4) <= c /\ c < 4 * (c \div 4) + 4
    OBVIOUS
<1>2. \A c \in Nat : /\ CountTokens(c) \in Nat /\ CountTokens(c) >= 1 /\ CountTokens(c) >= c \div 4
                     /\ CountTokens(c) = 1 \/ CountTokens(c) = c \div 4
    BY <1>1, MaxOfTwo DEF CountTokens
<1>3. \A b \in Nat : chars <= 4 * b => chars \div 4 <= b
    BY <1>1
<1>4. \A m \in Nat : m <= chars => m \div 4 <= chars \div 4
    BY <1>1
<1>5. ASSUME NEW m \in Nat, m <= chars
      PROVE  CountTokens(m) <= CountTokens(chars)
    BY <1>1, <1>2, <1>4, <1>5
<1> QED
    BY <1>1, <1>2, <1>3, <1>5

\* The share of a text that is kept is less than the whole of it.
LEMMA KeepIs ==
    ASSUME NEW chars \in Nat, chars > 0, NEW budget \in Nat, NEW tokens \in Nat, budget < tokens
    PROVE  /\ (chars * budget * 9) \div (tokens * 10) \in Nat
           /\ (chars * budget * 9) \div (tokens * 10) < chars
<1> DEFINE x == chars * budget * 9
           y == tokens * 10
<1>1. x \in Nat /\ y \in Nat /\ y > 0
    OBVIOUS
<1>2. x < chars * y
    <2>1. chars * budget < chars * tokens
        BY chars * tokens = chars * budget + chars * (tokens - budget), chars * (tokens - budget) > 0
    <2>2. chars * budget \in Nat /\ chars * tokens \in Nat
        OBVIOUS
    <2>3. chars * y = (chars * tokens) * 10
        OBVIOUS
    <2> QED
        BY <2>1, <2>2, <2>3
<1> HIDE DEF x, y
<1>3. x \div y \in Nat /\ y * (x \div y) <= x
    BY <1>1
<1>4. ASSUME x \div y >= chars
      PROVE  FALSE
    <2>1. y * (x \div y) >= y * chars
        BY <1>1, <1>3, <1>4
    <2>2. y * chars = chars * y /\ y * chars \in Nat /\ y * (x \div y) \in Nat
        BY <1>1, <1>3
    <2> QED
        BY <1>1, <1>2, <1>3, <2>1, <2>2
<1> QED
    BY <1>3, <1>4 DEF x, y

\* A bounded set of numbers has its largest.
LEMMA MaxIsIn ==
    ASSUME NEW n \in Nat, NEW S \in SUBSET (0 .. n), S # {}
    PROVE  Max(S) \in S
<1> DEFINE above == {n - i : i \in S}
<1>1. above \in SUBSET Nat /\ above # {}
    <2>1. \A i \in S : n - i \in Nat
        OBVIOUS
    <2> QED
        BY <2>1
<1>2. PICK b \in above : \A c \in above : b <= c
    BY <1>1, LeastPlace
<1>3. PICK i \in S : b = n - i
    BY <1>2
<1>4. \A j \in S : i >= j
    <2> SUFFICES ASSUME NEW j \in S
                 PROVE  i >= j
        OBVIOUS
    <2>1. n - j \in above
        OBVIOUS
    <2>2. n - i <= n - j
        BY <1>2, <1>3, <2>1
    <2>3. i \in Nat /\ j \in Nat
        OBVIOUS
    <2> QED
        BY <2>2, <2>3
<1> QED
    BY <1>4 DEF Max

TextIs(text, budget, start) ==
    /\ start <= text.length
    /\ start = 0 <=> text.length = 0 \/ CountTokens(text.length) <= budget
    /\ CountTokens(Minus(text.length, start + LookBack)) <= Max({budget, 1})

LEMMA TextFits ==
    ASSUME NEW text, text.length \in Nat, text.stops \subseteq Nat, NEW budget \in Nat,
           NoticeTokens \in Nat, LookBack \in Nat
    PROVE  TextIs(text, budget, TruncateText(text, budget))
<1> DEFINE chars == text.length
           tokens == CountTokens(chars)
           keep == (chars * budget * 9) \div (tokens * 10)
           tail == Min({keep, 4 * Minus(budget, NoticeTokens)})
           start == Minus(chars, tail)
           first == TruncateText(text, budget)
<1>1. chars \in Nat /\ tokens \in Nat /\ tokens >= 1
    BY CountIs
<1>2. first = IF tokens <= budget THEN 0
              ELSE IF start > 0 THEN SentenceBoundary(text, start) ELSE 0
    BY DEF TruncateText
<1>3. Max({budget, 1}) \in Nat /\ Max({budget, 1}) >= budget /\ Max({budget, 1}) >= 1
    BY MaxOfTwo
<1> HIDE DEF tokens, keep, tail, start, first
<1>4. \A c \in Nat : c <= chars => CountTokens(c) <= tokens /\ CountTokens(c) \in Nat
    BY <1>1, CountIs DEF tokens
<1>5. CASE tokens <= budget
    <2>1. first = 0
        BY <1>2, <1>5
    <2>2. Minus(chars, 0 + LookBack) \in Nat /\ Minus(chars, 0 + LookBack) <= chars
        BY <1>1 DEF Minus
    <2>3. CountTokens(Minus(chars, 0 + LookBack)) <= tokens
          /\ CountTokens(Minus(chars, 0 + LookBack)) \in Nat
        BY <1>4, <2>2
    <2> QED
        BY <1>1, <1>3, <1>5, <2>1, <2>3 DEF TextIs, first, tokens
<1>6. CASE ~(tokens <= budget) /\ chars = 0
    <2>1. tail \in Nat
        <3>1. keep = 0
            BY <1>1, <1>6 DEF keep
        <3>2. 4 * Minus(budget, NoticeTokens) \in Nat
            BY DEF Minus
        <3> QED
            BY <3>1, <3>2, MaxOfTwo DEF tail
    <2>2. start = 0
        BY <1>6, <2>1 DEF start, Minus
    <2>3. first = 0
        BY <1>2, <1>6, <2>2
    <2>4. Minus(chars, 0 + LookBack) = 0
        BY <1>6 DEF Minus
    <2>5. CountTokens(0) = 1
        BY 0 \div 4 = 0, MaxOfTwo DEF CountTokens
    <2> QED
        BY <1>1, <1>3, <1>6, <2>3, <2>4, <2>5 DEF TextIs, first, tokens
<1>7. CASE ~(tokens <= budget) /\ chars # 0
    <2>1. keep \in Nat /\ keep < chars
        BY <1>1, <1>7, KeepIs DEF keep
    <2>2. 4 * Minus(budget, NoticeTokens) \in Nat /\ 4 * Minus(budget, NoticeTokens) <= 4 * budget
        BY DEF Minus
    <2>3. tail \in Nat /\ tail < chars /\ tail <= 4 * budget
        BY <1>1, <2>1, <2>2, MaxOfTwo DEF tail
    <2>4. start \in Nat /\ start > 0 /\ start + tail = chars
        BY <1>1, <2>3 DEF start, Minus
    <2> DEFINE ends == {i \in text.stops : i < start /\ i + LookBack >= start}
    <2>5. /\ first \in Nat /\ first > 0 /\ first <= chars
          /\ first + LookBack >= start
        <3>1. first = IF ends = {} THEN start ELSE Max(ends) + 1
            BY <1>2, <1>7, <2>4 DEF SentenceBoundary
        <3>2. ends \in SUBSET (0 .. start)
            BY <2>4
        <3>3. CASE ends = {}
            BY <1>1, <2>3, <2>4, <3>1, <3>3
        <3>4. CASE ends # {}
            <4>1. Max(ends) \in ends
                BY <2>4, <3>2, <3>4, MaxIsIn
            <4>2. Max(ends) \in Nat /\ Max(ends) < start /\ Max(ends) + LookBack >= start
                BY <4>1
            <4> QED
                BY <1>1, <2>3, <2>4, <3>1, <3>4, <4>2
        <3> QED
            BY <3>3, <3>4
    <2> DEFINE rest == Minus(chars, first + LookBack)
    <2>6. rest \in Nat /\ rest <= 4 * budget
        BY <1>1, <2>3, <2>4, <2>5 DEF Minus
    <2>7. CountTokens(rest) \in Nat /\ (CountTokens(rest) <= budget \/ CountTokens(rest) = 1)
        BY <2>6, CountIs
    <2> HIDE DEF rest
    <2>8. CountTokens(rest) <= Max({budget, 1})
        BY <1>3, <2>7
    <2> QED
        BY <1>1, <1>7, <2>5, <2>8 DEF TextIs, first, tokens, rest
<1> QED
    BY <1>5, <1>6, <1>7 DEF first

LEMMA ContextStepFits ==
    ASSUME ContextKept, [ContextNext]_contextVars
    PROVE  ContextKept'
<1>0. /\ \A ms \in Conversations : IsConversation(ms)
      /\ \A text \in Texts : text.length \in Nat /\ text.stops \subseteq Nat
      /\ Budgets \subseteq Nat /\ NoticeTokens \in Nat /\ LookBack \in Nat
    BY ContextAssumption DEF IsConversation
<1>1. CASE UNCHANGED contextVars
    BY <1>1 DEF contextVars, ContextKept, OptimizeKeeps, TruncateKeeps, TextKeeps
<1>2. ASSUME NEW budget \in Budgets, NEW ms \in Conversations,
             Call([what |-> "optimize", messages |-> ms, budget |-> budget,
                   result |-> Optimize(ms, budget)])
      PROVE  ContextKept'
    <2>1. /\ job'.what = "optimize" /\ job'.messages = ms /\ job'.budget = budget
          /\ job'.result = Optimize(ms, budget)
        BY <1>2 DEF Call
    <2>2. /\ Optimize(ms, budget).places =
                LastOf(All(ms), Affordable(ms, All(ms), budget))
          /\ Optimize(ms, budget).told = Len(ms) - Len(Optimize(ms, budget).places)
        BY <1>0, OptimizeFits
    <2> QED
        BY <2>1, <2>2 DEF ContextKept, OptimizeKeeps
<1>3. ASSUME NEW budget \in Budgets, NEW ms \in Conversations,
             Call([what |-> "truncate", messages |-> ms, budget |-> budget,
                   result |-> TruncateMessages(ms, budget)])
      PROVE  ContextKept'
    <2>1. /\ job'.what = "truncate" /\ job'.messages = ms /\ job'.budget = budget
          /\ job'.result = TruncateMessages(ms, budget)
        BY <1>3 DEF Call
    <2>2. TruncateIs(ms, budget, TruncateMessages(ms, budget))
        BY <1>0, TruncateFits
    <2> QED
        BY <2>1, <2>2 DEF ContextKept, TruncateKeeps, TruncateIs
<1>4. ASSUME NEW budget \in Budgets, NEW text \in Texts,
             Call([what |-> "text", text |-> text, budget |-> budget,
                   start |-> TruncateText(text, budget)])
      PROVE  ContextKept'
    <2>1. /\ job'.what = "text" /\ job'.text = text /\ job'.budget = budget
          /\ job'.start = TruncateText(text, budget)
        BY <1>4 DEF Call
    <2>2. TextIs(text, budget, TruncateText(text, budget))
        BY <1>0, TextFits
    <2> QED
        BY <2>1, <2>2 DEF ContextKept, TextKeeps, TextIs
<1> QED
    BY <1>1, <1>2, <1>3, <1>4 DEF ContextNext

\* Of a conversation of any length and any token counts, the window keeps the
\* longest newest part the budget pays for and tells how much is gone;
\* truncate_messages keeps the system messages and a newest part of the rest,
\* within the budget unless the system messages alone exceed it; a text is
\* cut to its budget or to the beginning of a sentence before it.
THEOREM NewestIsKept == TerminalSpec => []ContextKept
<1>1. TerminalInit => ContextKept
    BY DEF TerminalInit, ContextInit, ContextKept
<1>2. ContextKept /\ [TerminalNext]_terminalVars => ContextKept'
    BY ContextStepFits, OthersRest
<1> QED
    BY <1>1, <1>2, PTL DEF TerminalSpec

=============================================================================
