-------------------------------- MODULE Panes -------------------------------
(***************************************************************************)
(* The multiplexer of the terminal UI: a bar of tabs, each with its panes, *)
(* their layout and the pane in focus.  The program itself has one tab and *)
(* only calls next_tab; the operations are the library's.                  *)
(*                                                                         *)
(* A split always puts a new pane beside the whole layout so far, so that  *)
(* a layout is a sequence: its first pane, and then each split in turn.    *)
(***************************************************************************)
EXTENDS Naturals, Sequences

CONSTANTS
    MaxTabs,   \* bound: tabs at a time
    MaxPanes   \* bound: panes made in all; a pane's id is its number

VARIABLES
    tabs,      \* TabBar::tabs, each [panes, layout, focused]
    active,    \* TabBar::active_index, from 1
    created    \* how many panes were made

panesVars == <<tabs, active, created>>

NewTab(id) ==
    [panes |-> {id}, layout |-> <<[pane |-> id, side |-> "whole"]>>, focused |-> id]

PanesInit ==
    /\ tabs = <<NewTab(1)>>
    /\ active = 1
    /\ created = 1

MakePane == created < MaxPanes /\ created' = created + 1

\* split_horizontal (side "right") and split_vertical (side "below").
Split(side) ==
    /\ MakePane
    /\ tabs' = [tabs EXCEPT ![active] =
                [panes   |-> @.panes \union {created'},
                 layout  |-> Append(@.layout, [pane |-> created', side |-> side]),
                 focused |-> created']]
    /\ UNCHANGED active

Position(tab) == CHOOSE i \in DOMAIN tab.layout : tab.layout[i].pane = tab.focused

\* focus_next: round the panes in the order of the layout.
FocusNext ==
    /\ tabs' = [tabs EXCEPT ![active].focused =
                LET tab == tabs[active] IN
                tab.layout[(Position(tab) % Len(tab.layout)) + 1].pane]
    /\ UNCHANGED <<active, created>>

OpenTab ==
    /\ MakePane /\ Len(tabs) < MaxTabs
    /\ tabs' = Append(tabs, NewTab(created'))
    /\ active' = Len(tabs) + 1

NextTab ==
    /\ active' = (active % Len(tabs)) + 1
    /\ UNCHANGED <<tabs, created>>

PrevTab ==
    /\ active' = IF active = 1 THEN Len(tabs) ELSE active - 1
    /\ UNCHANGED <<tabs, created>>

Others == [i \in 1 .. Len(tabs) - 1 |-> IF i < active THEN tabs[i] ELSE tabs[i + 1]]

\* Mutant: the index is left where it was.
CloseTabAtEnd ==
    /\ Len(tabs) > 1
    /\ tabs' = Others
    /\ UNCHANGED <<active, created>>

\* close_tab: the last tab stays; the index moves if it points past the end.
CloseTab ==
    /\ Len(tabs) > 1
    /\ tabs' = Others
    /\ active' = IF active > Len(tabs) - 1 THEN Len(tabs) - 1 ELSE active
    /\ UNCHANGED created

PanesNext ==
    \/ \E side \in {"right", "below"} : Split(side)
    \/ FocusNext \/ OpenTab \/ NextTab \/ PrevTab \/ CloseTab

-----------------------------------------------------------------------------

\* After any sequence of splits, cycles, and tabs opened, changed and closed:
\* a tab is active (active_tab would index past the end otherwise), a tab's
\* layout shows each of its panes once and nothing else, its focus is on one
\* of them, and no pane is in two tabs.
PanesAgree ==
    /\ active \in DOMAIN tabs
    /\ \A i \in DOMAIN tabs :
        /\ {tabs[i].layout[k].pane : k \in DOMAIN tabs[i].layout} = tabs[i].panes
        /\ \A k, l \in DOMAIN tabs[i].layout :
            tabs[i].layout[k].pane = tabs[i].layout[l].pane => k = l
        /\ tabs[i].focused \in tabs[i].panes
        /\ \A j \in DOMAIN tabs : tabs[i].panes \intersect tabs[j].panes # {} => i = j

=============================================================================
