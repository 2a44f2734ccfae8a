---------------------------- MODULE GatewayProofs ---------------------------
(***************************************************************************)
(* What the audit file can be trusted for, for any number of calls, any    *)
(* quota and any number of starts.                                         *)
(*                                                                         *)
(* The invariant follows a call to its line.  Nothing of it is in the file *)
(* until it has handed its line over; the one line on its way is of the    *)
(* call that flushes, or of one that is gone; and after that it is in the  *)
(* file once and whole, or an error is waiting for whoever is next, which  *)
(* while the call flushes is the call itself, for it holds the mutex.      *)
(***************************************************************************)
EXTENDS GatewayProperties, Integers, FiniteSetTheorems, TLAPS

Torn(c) == {i \in DOMAIN log : ~log[i].whole /\ log[i].line.of = c}

Bare(c) == Positions(c) = {}

Untouched(c) == Bare(c) /\ Torn(c) = {}

Once(c) ==
    \E i \in DOMAIN log : Positions(c) = {i} /\ log[i].line.outcome = call[c].outcome

Intact(c) == Once(c) /\ Torn(c) = {}

\* How far a call is, against its outcome, its answer and what GitHub did.
CallFits(c) ==
    /\ call[c].phase = "idle" => c \notin effects
    /\ call[c].phase \in {"idle", "acting", "orphan"} => call[c].outcome = "none"
    /\ call[c].phase \in {"emitting", "writing", "flushing"} => call[c].outcome # "none"
    /\ call[c].phase # "answered" <=> call[c].answer = "none"
    /\ call[c].outcome = "ok" => c \in effects
    /\ call[c].outcome \in {"rejected", "rate_limited"} => c \notin effects

IsUnderway(c) == underway # None /\ underway.of = c

\* How far a call is, against the file.
LineFits(c) ==
    /\ call[c].phase \in {"idle", "acting", "orphan", "emitting", "writing"} => Untouched(c)
    /\ IsUnderway(c) => Untouched(c) /\ call[c].phase \in {"flushing", "gone"}
    /\ call[c].phase = "flushing" =>
        \/ IsUnderway(c)
        \/ underway = None /\ failed /\ Bare(c)
        \/ underway = None /\ ~failed /\ Intact(c)
    /\ call[c].phase = "gone" => Bare(c) \/ Once(c)
    /\ call[c].answer = "ok" => call[c].outcome = "ok" /\ Intact(c)
    /\ call[c].answer = "error" =>
        \/ call[c].outcome = "none" /\ Untouched(c) /\ c \notin effects
        \/ call[c].outcome \in {"rejected", "failed"} /\ Intact(c)
    /\ call[c].answer = "audit_error" => Bare(c)
    /\ call[c].answer = "limited" =>
        call[c].outcome = "rate_limited" /\ (Bare(c) \/ Once(c))

\* The mutex is held by the one emit that is at the file, and the line on its
\* way is of this process.
SinkFits ==
    /\ \A c \in Calls : call[c].phase \in {"writing", "flushing"} <=> holder = c
    /\ \A c \in Calls :
        call[c].phase \in {"acting", "emitting", "writing", "flushing"} => up
    /\ underway # None =>
        /\ ~failed
        /\ underway.of \in Calls
        /\ underway.outcome = call[underway.of].outcome
        /\ underway.run = run
    /\ ~up => holder = None /\ underway = None /\ ~failed

BootAt(j) == log[j].whole /\ log[j].line.of = Boot

Booted ==
    up => run > 0 /\ \E j \in DOMAIN log : BootAt(j) /\ log[j].line.run = run

IInv ==
    /\ TypeOK /\ SinkFits /\ Booted /\ BootFirst
    /\ \A c \in Calls : CallFits(c) /\ LineFits(c)

-----------------------------------------------------------------------------
(* The file.                                                               *)

LEMMA LogGrows ==
    ASSUME TypeOK, NEW line \in Line, NEW whole \in BOOLEAN, log' = Written(line, whole)
    PROVE  /\ log' \in Seq(Chunk)
           /\ DOMAIN log = 1 .. Len(log) /\ DOMAIN log' = 1 .. Len(log) + 1
           /\ Len(log) \in Nat
           /\ \A i \in DOMAIN log : log'[i] = log[i]
           /\ log'[Len(log) + 1] = [line |-> line, whole |-> whole]
    BY DEF TypeOK, SinkTypeOK, Written, Chunk

LEMMA OthersLinesKept ==
    ASSUME TypeOK, NEW line \in Line, NEW whole \in BOOLEAN, log' = Written(line, whole),
           NEW c \in Calls, line.of # c
    PROVE  /\ Positions(c)' = Positions(c)
           /\ Torn(c)' = Torn(c)
           /\ \A i \in DOMAIN log : i \in DOMAIN log' /\ log'[i] = log[i]
<1>1. /\ DOMAIN log = 1 .. Len(log) /\ DOMAIN log' = 1 .. Len(log) + 1
      /\ Len(log) \in Nat
      /\ \A i \in DOMAIN log : log'[i] = log[i]
      /\ log'[Len(log) + 1] = [line |-> line, whole |-> whole]
    BY LogGrows
<1>2. log'[Len(log) + 1].line.of # c
    BY <1>1
<1>3. \A i \in DOMAIN log' : i \in DOMAIN log \/ i = Len(log) + 1
    BY <1>1
<1>4. \A i \in DOMAIN log : i \in DOMAIN log'
    BY <1>1
<1> QED
    BY <1>1, <1>2, <1>3, <1>4 DEF Positions, Torn

LEMMA LineArrives ==
    ASSUME TypeOK, NEW line \in Line, NEW whole \in BOOLEAN, log' = Written(line, whole),
           NEW c \in Calls, line.of = c,
           Untouched(c), line.outcome = call[c].outcome, UNCHANGED call
    PROVE  IF whole THEN Intact(c)' ELSE Bare(c)'
<1>1. /\ DOMAIN log = 1 .. Len(log) /\ DOMAIN log' = 1 .. Len(log) + 1
      /\ Len(log) \in Nat
      /\ log \in Seq(Chunk)
      /\ \A i \in DOMAIN log : log'[i] = log[i]
      /\ log'[Len(log) + 1] = [line |-> line, whole |-> whole]
    BY LogGrows DEF TypeOK, SinkTypeOK
<1>2. \A i \in DOMAIN log : log[i].line.of # c
    BY <1>1 DEF Untouched, Bare, Positions, Torn, Chunk
<1>3. \A i \in DOMAIN log' : log'[i].line.of = c <=> i = Len(log) + 1
    BY <1>1, <1>2
<1>4. CASE whole
    <2>1. log'[Len(log) + 1].whole /\ log'[Len(log) + 1].line.outcome = call'[c].outcome
        BY <1>1, <1>4
    <2>2. Len(log) + 1 \in DOMAIN log'
        BY <1>1
    <2>3. Torn(c)' = {}
        BY <1>3, <2>1 DEF Torn
    <2>4. Positions(c)' = {Len(log) + 1}
        BY <1>3, <2>1, <2>2 DEF Positions
    <2>5. Once(c)'
        BY <2>1, <2>2, <2>4 DEF Once
    <2> QED
        BY <1>4, <2>3, <2>5 DEF Intact
<1>5. CASE ~whole
    <2>1. ~log'[Len(log) + 1].whole
        BY <1>1, <1>5
    <2> QED
        BY <1>3, <1>5, <2>1 DEF Bare, Positions
<1> QED
    BY <1>4, <1>5

LEMMA BootFirstGrows ==
    ASSUME TypeOK, BootFirst, NEW line \in Line, NEW whole \in BOOLEAN,
           log' = Written(line, whole),
           line.of # Boot => \E j \in DOMAIN log : BootAt(j) /\ log[j].line.run = line.run
    PROVE  BootFirst'
<1>1. /\ DOMAIN log = 1 .. Len(log) /\ DOMAIN log' = 1 .. Len(log) + 1
      /\ Len(log) \in Nat
      /\ \A i \in DOMAIN log : log'[i] = log[i]
      /\ log'[Len(log) + 1] = [line |-> line, whole |-> whole]
    BY LogGrows
<1> SUFFICES ASSUME NEW i \in DOMAIN log', log'[i].line.of # Boot
             PROVE  \E j \in 1 .. i - 1 : /\ log'[j].whole /\ log'[j].line.of = Boot
                                          /\ log'[j].line.run = log'[i].line.run
    BY DEF BootFirst
<1>2. CASE i \in DOMAIN log
    <2>1. PICK j \in 1 .. i - 1 : /\ log[j].whole /\ log[j].line.of = Boot
                                  /\ log[j].line.run = log[i].line.run
        BY <1>1, <1>2 DEF BootFirst
    <2>2. j \in DOMAIN log
        BY <1>1, <1>2
    <2> QED
        BY <1>1, <1>2, <2>1, <2>2
<1>3. CASE i = Len(log) + 1
    <2>1. PICK j \in DOMAIN log : BootAt(j) /\ log[j].line.run = line.run
        BY <1>1, <1>3
    <2>2. j \in 1 .. i - 1
        BY <1>1, <1>3
    <2> QED
        BY <1>1, <1>3, <2>1, <2>2 DEF BootAt
<1> QED
    BY <1>1, <1>2, <1>3

-----------------------------------------------------------------------------

LEMMA InitIInv == Init => IInv
<1> SUFFICES ASSUME Init PROVE IInv
    OBVIOUS
<1>1. log = << >> /\ holder = None /\ underway = None /\ failed = FALSE /\ up = FALSE
    BY DEF Init, SinkInit
<1>2. TypeOK
    <2>1. SinkTypeOK
        <3>1. << >> \in Seq(Chunk)
            OBVIOUS
        <3> QED
            BY <1>1, <3>1 DEF SinkTypeOK
    <2>2. run \in 0 .. MaxRuns /\ cells \in 0 .. Quota
        BY GatewayAssumption DEF Init
    <2>3. call \in [Calls -> [tool : Tools \union {"none"}, phase : Phases,
                             outcome : Outcomes \union {"none"}, answer : Answers]]
        BY DEF Init, Phases, Answers
    <2> QED
        BY <1>1, <2>1, <2>2, <2>3 DEF Init, TypeOK
<1>3. SinkFits
    BY <1>1, GatewayAssumption DEF Init, SinkFits
<1>4. Booted /\ BootFirst
    BY <1>1 DEF Booted, BootFirst
<1>5. \A c \in Calls : CallFits(c)
    BY DEF Init, CallFits
<1>6. \A c \in Calls : LineFits(c)
    BY <1>1 DEF Init, LineFits, IsUnderway, Untouched, Bare, Positions, Torn
<1> QED
    BY <1>2, <1>3, <1>4, <1>5, <1>6 DEF IInv

\* A call that a step does not touch.
LEMMA StillFits ==
    ASSUME NEW c \in Calls, CallFits(c), LineFits(c),
           call'[c] = call[c], c \in effects' <=> c \in effects,
           Positions(c)' = Positions(c), Torn(c)' = Torn(c),
           \A i \in DOMAIN log : i \in DOMAIN log' /\ log'[i] = log[i],
           IsUnderway(c)' <=> IsUnderway(c),
           call[c].phase = "flushing" => UNCHANGED <<underway, failed>>
    PROVE  CallFits(c)' /\ LineFits(c)'
<1>1. CallFits(c)'
    BY DEF CallFits
<1>2. /\ Bare(c)' <=> Bare(c)
      /\ Untouched(c)' <=> Untouched(c)
      /\ Once(c) => Once(c)'
      /\ Intact(c) => Intact(c)'
    BY DEF Bare, Untouched, Once, Intact
<1>3. LineFits(c)'
    BY <1>2 DEF LineFits
<1> QED
    BY <1>1, <1>3

\* A step that leaves the file and the sink alone and moves one call.
LEMMA OthersFit ==
    ASSUME IInv, NEW c \in Calls, UNCHANGED <<log, underway, failed, effects>>,
           \A d \in Calls : d # c => call'[d] = call[d],
           CallFits(c)', LineFits(c)'
    PROVE  \A d \in Calls : CallFits(d)' /\ LineFits(d)'
<1> SUFFICES ASSUME NEW d \in Calls, d # c PROVE CallFits(d)' /\ LineFits(d)'
    OBVIOUS
<1>1. CallFits(d) /\ LineFits(d)
    BY DEF IInv
<1>2. /\ Positions(d)' = Positions(d) /\ Torn(d)' = Torn(d)
      /\ IsUnderway(d)' <=> IsUnderway(d)
      /\ \A i \in DOMAIN log : i \in DOMAIN log' /\ log'[i] = log[i]
    BY DEF Positions, Torn, IsUnderway
<1> QED
    BY <1>1, <1>2, StillFits

LEMMA FileKept ==
    ASSUME IInv, UNCHANGED <<log, up, run>>
    PROVE  BootFirst' /\ Booted'
    BY DEF IInv, BootFirst, Booted, BootAt

\* What is left to show of a step that moves one call.
LEMMA OneCallMoves ==
    ASSUME IInv, NEW c \in Calls,
           UNCHANGED <<log, underway, failed, up, run, effects>>,
           \A d \in Calls : d # c => call'[d] = call[d],
           TypeOK', SinkFits', CallFits(c)', LineFits(c)'
    PROVE  IInv'
<1>1. \A d \in Calls : CallFits(d)' /\ LineFits(d)'
    BY OthersFit
<1> QED
    BY <1>1, FileKept DEF IInv

\* The file stands still, so it says of a call what it said.
LEMMA SameFile ==
    ASSUME UNCHANGED <<log, underway>>, NEW c \in Calls
    PROVE  /\ Positions(c)' = Positions(c) /\ Torn(c)' = Torn(c)
           /\ Bare(c)' <=> Bare(c)
           /\ Untouched(c)' <=> Untouched(c)
           /\ IsUnderway(c)' <=> IsUnderway(c)
           /\ call'[c].outcome = call[c].outcome =>
                 (Once(c)' <=> Once(c)) /\ (Intact(c)' <=> Intact(c))
    BY DEF Positions, Torn, Bare, Untouched, IsUnderway, Once, Intact

-----------------------------------------------------------------------------
(* One lemma per action.                                                   *)

LEMMA StartFits == ASSUME IInv, Start PROVE IInv'
<1>1. /\ TypeOK /\ SinkFits /\ BootFirst /\ ~up
      /\ holder = None /\ underway = None /\ failed = FALSE
      /\ \A c \in Calls : CallFits(c) /\ LineFits(c)
    BY DEF IInv, SinkFits, Start, TypeOK, SinkTypeOK
<1>2. Started \in Line /\ Started.of = Boot /\ Started.run = run + 1
    <2>1. run + 1 \in 1 .. MaxRuns
        BY <1>1, GatewayAssumption DEF TypeOK, Start
    <2> QED
        BY <2>1, GatewayAssumption DEF Started, Outcomes
<1>3. UNCHANGED <<holder, underway, failed, call, effects>>
    BY DEF Start
<1>4. \/ log' = log /\ ~up'
      \/ \E whole \in BOOLEAN : log' = Written(Started, whole) /\ (up' => whole)
    BY DEF Start
<1>5. log' \in Seq(Chunk)
    BY <1>1, <1>2, <1>4, LogGrows DEF TypeOK, SinkTypeOK
<1>6. TypeOK'
    <2>1. run' \in 0 .. MaxRuns
        BY <1>1, GatewayAssumption DEF TypeOK, Start
    <2>2. cells' \in 0 .. Quota
        BY GatewayAssumption DEF Start
    <2>3. up' \in BOOLEAN
        BY DEF Start
    <2> QED
        BY <1>1, <1>3, <1>5, <2>1, <2>2, <2>3 DEF TypeOK, SinkTypeOK
<1>7. SinkFits'
    BY <1>1, <1>3 DEF SinkFits
<1>8. BootFirst' /\ \A c \in Calls : Positions(c)' = Positions(c) /\ Torn(c)' = Torn(c)
        /\ \A i \in DOMAIN log : i \in DOMAIN log' /\ log'[i] = log[i]
    <2>1. CASE log' = log
        BY <1>1, <2>1 DEF BootFirst, Positions, Torn
    <2>2. ASSUME NEW whole \in BOOLEAN, log' = Written(Started, whole)
          PROVE  /\ BootFirst'
                 /\ \A c \in Calls :
                       /\ Positions(c)' = Positions(c) /\ Torn(c)' = Torn(c)
                       /\ \A i \in DOMAIN log : i \in DOMAIN log' /\ log'[i] = log[i]
        <3>1. BootFirst'
            BY <1>1, <1>2, <2>2, BootFirstGrows
        <3>2. \A c \in Calls : Started.of # c
            BY <1>2, GatewayAssumption
        <3> QED
            BY <1>1, <1>2, <2>2, <3>1, <3>2, OthersLinesKept
    <2> QED
        BY <1>4, <2>1, <2>2
<1>9. Booted'
    <2> SUFFICES ASSUME up' PROVE Booted'
        BY DEF Booted
    <2>1. log' = Written(Started, TRUE)
        BY DEF Start
    <2>2. /\ DOMAIN log' = 1 .. Len(log) + 1 /\ Len(log) \in Nat
          /\ log'[Len(log) + 1] = [line |-> Started, whole |-> TRUE]
        BY <1>1, <1>2, <2>1, LogGrows
    <2>3. run' > 0 /\ run' = Started.run
        BY <1>1, <1>2, GatewayAssumption DEF TypeOK, Start
    <2>4. \E j \in DOMAIN log' :
            log'[j].whole /\ log'[j].line.of = Boot /\ log'[j].line.run = run'
        <3>1. Len(log) + 1 \in DOMAIN log'
            BY <2>2
        <3> QED
            BY <1>2, <2>2, <2>3, <3>1
    <2> QED
        BY <2>3, <2>4 DEF Booted, BootAt
<1>10. \A c \in Calls : CallFits(c)' /\ LineFits(c)'
    BY <1>1, <1>3, <1>8, StillFits DEF IsUnderway
<1> QED
    BY <1>6, <1>7, <1>8, <1>9, <1>10 DEF IInv

LEMMA StopFits == ASSUME IInv, Stop PROVE IInv'
<1>1. /\ TypeOK /\ SinkFits /\ BootFirst
      /\ \A c \in Calls : CallFits(c) /\ LineFits(c)
    BY DEF IInv
<1>2. /\ UNCHANGED <<log, run, cells, effects>> /\ up' = FALSE
      /\ holder' = None /\ underway' = None /\ failed' = FALSE
    BY DEF Stop, Close
<1>3. ASSUME NEW c \in Calls
      PROVE  /\ call'[c].tool = call[c].tool /\ call'[c].outcome = call[c].outcome
             /\ call'[c].answer = call[c].answer
             /\ call[c].phase = "acting" => call'[c].phase = "orphan"
             /\ call[c].phase \in {"emitting", "writing", "flushing"} =>
                    call'[c].phase = "gone"
             /\ call[c].phase \notin {"acting", "emitting", "writing", "flushing"} =>
                    call'[c] = call[c]
             /\ call'[c] \in [tool : Tools \union {"none"}, phase : Phases,
                              outcome : Outcomes \union {"none"}, answer : Answers]
    BY <1>1 DEF Stop, TypeOK, Phases
<1>4. TypeOK'
    <2>1. call' \in [Calls -> [tool : Tools \union {"none"}, phase : Phases,
                             outcome : Outcomes \union {"none"}, answer : Answers]]
        BY <1>3 DEF Stop
    <2> QED
        BY <1>1, <1>2, <2>1 DEF TypeOK, SinkTypeOK
<1>5. \A c \in Calls :
        call'[c].phase \notin {"acting", "emitting", "writing", "flushing"}
    BY <1>3
<1>6. SinkFits'
    BY <1>2, <1>5, GatewayAssumption DEF SinkFits
<1>7. BootFirst' /\ Booted'
    BY <1>1, <1>2 DEF BootFirst, Booted
<1>8. ASSUME NEW c \in Calls PROVE CallFits(c)' /\ LineFits(c)'
    <2>1. CallFits(c) /\ LineFits(c)
        BY <1>1
    <2>2. /\ Bare(c)' <=> Bare(c)
          /\ Untouched(c)' <=> Untouched(c)
          /\ Once(c)' <=> Once(c)
          /\ Intact(c)' <=> Intact(c)
          /\ ~IsUnderway(c)'
        BY <1>2, <1>3 DEF Positions, Torn, Bare, Untouched, Once, Intact, IsUnderway
    <2>3. CallFits(c)'
        BY <1>2, <1>3, <2>1 DEF CallFits
    <2>4. CASE call[c].phase \notin {"acting", "emitting", "writing", "flushing"}
        <3>1. call'[c] = call[c] /\ effects' = effects
            BY <1>2, <1>3, <2>4
        <3>2. call[c].phase # "flushing"
            BY <2>4
        <3> QED
            BY <2>1, <2>2, <2>3, <3>1, <3>2 DEF LineFits
    <2>5. CASE call[c].phase \in {"acting", "emitting", "writing", "flushing"}
        <3>1. call[c].answer = "none"
            BY <2>1, <2>5 DEF CallFits
        <3>2. Untouched(c) \/ Bare(c) \/ Intact(c)
            BY <2>1, <2>5 DEF LineFits
        <3>3. call[c].phase = "acting" => Untouched(c)
            BY <2>1 DEF LineFits
        <3>4. Bare(c) \/ Once(c)
            BY <3>2 DEF Untouched, Intact
        <3>5. /\ call'[c].answer = "none"
              /\ \/ call'[c].phase = "orphan" /\ call[c].phase = "acting"
                 \/ call'[c].phase = "gone"
            BY <1>3, <2>5, <3>1
        <3> QED
            BY <2>2, <2>3, <3>3, <3>4, <3>5 DEF LineFits
    <2> QED
        BY <2>4, <2>5
<1> QED
    BY <1>4, <1>6, <1>7, <1>8 DEF IInv

LEMMA CellsFit == ASSUME IInv, Refill \/ OtherRequest PROVE IInv'
<1>1. UNCHANGED <<log, holder, underway, failed, up, run, call, effects>>
    BY DEF Refill, OtherRequest
<1>2. cells' \in 0 .. Quota
    BY GatewayAssumption DEF IInv, TypeOK, Refill, OtherRequest
<1>3. TypeOK' /\ SinkFits'
    BY <1>1, <1>2 DEF IInv, TypeOK, SinkTypeOK, SinkFits
<1>4. \A c \in Calls : CallFits(c)' /\ LineFits(c)'
    BY <1>1, SameFile DEF IInv, CallFits, LineFits
<1> QED
    BY <1>1, <1>3, <1>4, FileKept DEF IInv

\* A step of one call that neither takes nor gives back the mutex.
LEMMA OutsideTheLock ==
    ASSUME IInv, NEW c \in Calls,
           UNCHANGED <<log, holder, underway, failed, up, run, effects>>,
           call[c].phase \notin {"writing", "flushing"},
           call'[c].phase \notin {"writing", "flushing"},
           call'[c].phase \in {"acting", "emitting"} => up,
           ~IsUnderway(c),
           \A d \in Calls : d # c => call'[d] = call[d]
    PROVE  SinkFits'
<1>1. SinkFits
    BY DEF IInv
<1>2. \A d \in Calls : call'[d].phase \in {"writing", "flushing"} <=> holder = d
    BY <1>1 DEF SinkFits
<1>3. \A d \in Calls :
        call'[d].phase \in {"acting", "emitting", "writing", "flushing"} => up
    BY <1>1 DEF SinkFits
<1>4. underway # None => underway.of # c
    BY DEF IsUnderway
<1>5. underway # None => underway.outcome = call'[underway.of].outcome
    BY <1>1, <1>4 DEF SinkFits
<1> QED
    BY <1>1, <1>2, <1>3, <1>5 DEF SinkFits

Records == [tool : Tools \union {"none"}, phase : Phases,
            outcome : Outcomes \union {"none"}, answer : Answers]

LEMMA ArriveFits ==
    ASSUME IInv, NEW c \in Calls, NEW tool \in Tools, NEW valid \in BOOLEAN,
           Arrive(c, tool, valid)
    PROVE  IInv'
<1>1. TypeOK /\ CallFits(c) /\ LineFits(c)
    BY DEF IInv
<1>2. /\ UNCHANGED <<log, holder, underway, failed, up, run, effects>>
      /\ up /\ call[c].phase = "idle"
    BY DEF Arrive
<1>3. call \in [Calls -> Records]
    BY <1>1 DEF TypeOK, Records
<1>4. /\ \A d \in Calls : d # c => call'[d] = call[d]
      /\ call'[c].answer = call[c].answer
      /\ \/ call'[c].phase = "acting" /\ call'[c].outcome = call[c].outcome
         \/ call'[c].phase = "emitting" /\ call'[c].outcome = "rejected"
      /\ call' \in [Calls -> Records]
    BY <1>3 DEF Arrive, Records, Phases, Outcomes
<1>5. cells' \in 0 .. Quota
    BY <1>1, GatewayAssumption DEF TypeOK, Arrive
<1>6. TypeOK'
    BY <1>1, <1>2, <1>4, <1>5 DEF TypeOK, SinkTypeOK, Records
<1>7. call[c].answer = "none" /\ call[c].outcome = "none" /\ c \notin effects
      /\ Untouched(c) /\ ~IsUnderway(c)
    BY <1>1, <1>2 DEF CallFits, LineFits
<1>8. SinkFits'
    BY <1>2, <1>4, <1>7, OutsideTheLock
<1>9. CallFits(c)'
    BY <1>2, <1>4, <1>7 DEF CallFits
<1>10. Untouched(c)' /\ ~IsUnderway(c)'
    BY <1>2, <1>7, SameFile
<1>11. LineFits(c)'
    BY <1>4, <1>7, <1>10 DEF LineFits
<1> QED
    BY <1>2, <1>4, <1>6, <1>8, <1>9, <1>11, OneCallMoves

LEMMA LimitFits ==
    ASSUME IInv, NEW c \in Calls, Limit(c)
    PROVE  IInv'
<1>1. TypeOK /\ CallFits(c) /\ LineFits(c)
    BY DEF IInv
<1>2. /\ UNCHANGED <<log, holder, underway, failed, up, run, cells, effects>>
      /\ up /\ call[c].phase = "idle"
    BY DEF Limit
<1>3. call \in [Calls -> Records]
    BY <1>1 DEF TypeOK, Records
<1>4. /\ \A d \in Calls : d # c => call'[d] = call[d]
      /\ call'[c].answer = call[c].answer
      /\ call'[c].phase = "emitting" /\ call'[c].outcome = "rate_limited"
      /\ call' \in [Calls -> Records]
    BY <1>3 DEF Limit, Emit, Records, Phases, Outcomes
<1>5. TypeOK'
    BY <1>1, <1>2, <1>4 DEF TypeOK, SinkTypeOK, Records
<1>6. call[c].answer = "none" /\ c \notin effects /\ Untouched(c) /\ ~IsUnderway(c)
    BY <1>1, <1>2 DEF CallFits, LineFits
<1>7. SinkFits'
    BY <1>2, <1>4, <1>6, OutsideTheLock
<1>8. CallFits(c)'
    BY <1>2, <1>4, <1>6 DEF CallFits
<1>9. Untouched(c)' /\ ~IsUnderway(c)'
    BY <1>2, <1>6, SameFile
<1>10. LineFits(c)'
    BY <1>4, <1>6, <1>9 DEF LineFits
<1> QED
    BY <1>2, <1>4, <1>5, <1>7, <1>8, <1>10, OneCallMoves

\* The error is not recorded, and nothing was done.
LEMMA ClientFailsFits ==
    ASSUME IInv, NEW c \in Calls, ClientFails(c)
    PROVE  IInv'
<1>1. TypeOK /\ CallFits(c) /\ LineFits(c)
    BY DEF IInv
<1>2. /\ UNCHANGED <<log, holder, underway, failed, up, run, cells, effects>>
      /\ call[c].phase = "acting" /\ c \notin effects
    BY DEF ClientFails
<1>3. call \in [Calls -> Records]
    BY <1>1 DEF TypeOK, Records
<1>4. /\ \A d \in Calls : d # c => call'[d] = call[d]
      /\ call'[c].answer = "error" /\ call'[c].phase = "answered"
      /\ call'[c].outcome = call[c].outcome
      /\ call' \in [Calls -> Records]
    BY <1>3 DEF ClientFails, Reply, Records, Phases, Answers
<1>5. TypeOK'
    BY <1>1, <1>2, <1>4 DEF TypeOK, SinkTypeOK, Records
<1>6. call[c].outcome = "none" /\ Untouched(c) /\ ~IsUnderway(c)
    BY <1>1, <1>2 DEF CallFits, LineFits
<1>7. SinkFits'
    BY <1>2, <1>4, <1>6, OutsideTheLock
<1>8. CallFits(c)'
    BY <1>2, <1>4, <1>6 DEF CallFits
<1>9. Untouched(c)' /\ ~IsUnderway(c)'
    BY <1>2, <1>6, SameFile
<1>10. LineFits(c)'
    BY <1>2, <1>4, <1>6, <1>9 DEF LineFits
<1> QED
    BY <1>2, <1>4, <1>5, <1>7, <1>8, <1>10, OneCallMoves

LEMMA LearnFits ==
    ASSUME IInv, NEW c \in Calls, NEW outcome \in {"ok", "failed"}, Learn(c, outcome)
    PROVE  IInv'
<1>1. TypeOK /\ SinkFits /\ CallFits(c) /\ LineFits(c)
    BY DEF IInv
<1>2. /\ UNCHANGED <<log, holder, underway, failed, up, run, cells, effects>>
      /\ call[c].phase = "acting" /\ (outcome = "ok" => c \in effects)
    BY DEF Learn
<1>3. call \in [Calls -> Records]
    BY <1>1 DEF TypeOK, Records
<1>4. /\ \A d \in Calls : d # c => call'[d] = call[d]
      /\ call'[c].answer = call[c].answer
      /\ call'[c].phase = "emitting" /\ call'[c].outcome = outcome
      /\ call' \in [Calls -> Records]
    BY <1>3 DEF Learn, Emit, Records, Phases, Outcomes
<1>5. TypeOK'
    BY <1>1, <1>2, <1>4 DEF TypeOK, SinkTypeOK, Records
<1>6. call[c].answer = "none" /\ Untouched(c) /\ ~IsUnderway(c) /\ up
    BY <1>1, <1>2 DEF CallFits, LineFits, SinkFits
<1>7. SinkFits'
    BY <1>2, <1>4, <1>6, OutsideTheLock
<1>8. CallFits(c)'
    BY <1>2, <1>4, <1>6 DEF CallFits
<1>9. Untouched(c)' /\ ~IsUnderway(c)'
    BY <1>2, <1>6, SameFile
<1>10. LineFits(c)'
    BY <1>4, <1>6, <1>9 DEF LineFits
<1> QED
    BY <1>2, <1>4, <1>5, <1>7, <1>8, <1>10, OneCallMoves

LEMMA PerformFits ==
    ASSUME IInv, NEW c \in Calls, Perform(c)
    PROVE  IInv'
<1>1. TypeOK /\ CallFits(c) /\ LineFits(c)
    BY DEF IInv
<1>2. /\ UNCHANGED <<log, holder, underway, failed, up, run, cells, call>>
      /\ effects' = effects \union {c}
      /\ call[c].phase \in {"acting", "orphan"} \/ call[c].outcome = "failed"
    BY DEF Perform
<1>3. TypeOK' /\ SinkFits'
    BY <1>1, <1>2 DEF IInv, TypeOK, SinkTypeOK, SinkFits
<1>4. CallFits(c)'
    BY <1>1, <1>2 DEF CallFits
<1>5. /\ Bare(c)' <=> Bare(c)
      /\ Untouched(c)' <=> Untouched(c)
      /\ Once(c)' <=> Once(c)
      /\ Intact(c)' <=> Intact(c)
      /\ IsUnderway(c)' <=> IsUnderway(c)
    BY <1>2, SameFile
<1>6. call[c].answer = "error" => call[c].outcome # "none"
    BY <1>1, <1>2 DEF CallFits
<1>7. LineFits(c)'
    BY <1>1, <1>2, <1>5, <1>6 DEF LineFits
<1>8. ASSUME NEW d \in Calls, d # c PROVE CallFits(d)' /\ LineFits(d)'
    <2>1. CallFits(d) /\ LineFits(d) /\ (d \in effects' <=> d \in effects)
        BY <1>2, <1>8 DEF IInv
    <2>2. /\ Positions(d)' = Positions(d) /\ Torn(d)' = Torn(d)
          /\ IsUnderway(d)' <=> IsUnderway(d)
          /\ \A i \in DOMAIN log : i \in DOMAIN log' /\ log'[i] = log[i]
        BY <1>2, SameFile
    <2> QED
        BY <1>2, <2>1, <2>2, StillFits
<1> QED
    BY <1>2, <1>3, <1>4, <1>7, <1>8, FileKept DEF IInv

LEMMA TakeLockFits ==
    ASSUME IInv, NEW c \in Calls, TakeLock(c)
    PROVE  IInv'
<1>1. TypeOK /\ SinkFits /\ CallFits(c) /\ LineFits(c)
    BY DEF IInv
<1>2. /\ UNCHANGED <<log, underway, failed, up, run, cells, effects>>
      /\ call[c].phase = "emitting" /\ holder = None /\ holder' = c
    BY DEF TakeLock, Lock, process
<1>3. call \in [Calls -> Records]
    BY <1>1 DEF TypeOK, Records
<1>4. /\ \A d \in Calls : d # c => call'[d] = call[d]
      /\ call'[c].answer = call[c].answer /\ call'[c].outcome = call[c].outcome
      /\ call'[c].phase = "writing"
      /\ call' \in [Calls -> Records]
    BY <1>3 DEF TakeLock, To, Records, Phases
<1>5. TypeOK'
    BY <1>1, <1>2, <1>4 DEF TypeOK, SinkTypeOK, Records
<1>6. call[c].answer = "none" /\ Untouched(c) /\ ~IsUnderway(c) /\ up
    BY <1>1, <1>2 DEF CallFits, LineFits, SinkFits
<1>7. SinkFits'
    <2>1. \A d \in Calls : d # None
        BY GatewayAssumption
    <2>2. \A d \in Calls : call'[d].phase \in {"writing", "flushing"} <=> holder' = d
        BY <1>1, <1>2, <1>4, <2>1 DEF SinkFits
    <2>3. underway # None => underway.outcome = call'[underway.of].outcome
        BY <1>1, <1>4 DEF SinkFits
    <2> QED
        BY <1>1, <1>2, <1>4, <1>6, <2>2, <2>3 DEF SinkFits
<1>8. CallFits(c)'
    BY <1>1, <1>2, <1>4 DEF CallFits
<1>9. Untouched(c)' /\ ~IsUnderway(c)'
    BY <1>2, <1>6, SameFile
<1>10. LineFits(c)'
    BY <1>4, <1>6, <1>9 DEF LineFits
<1> QED
    BY <1>2, <1>4, <1>5, <1>7, <1>8, <1>10, OneCallMoves

LEMMA WriteFits ==
    ASSUME IInv, NEW c \in Calls, Write(c)
    PROVE  IInv'
<1>1. TypeOK /\ SinkFits /\ Booted /\ CallFits(c) /\ LineFits(c)
    BY DEF IInv
<1>2. /\ UNCHANGED <<log, holder, failed, up, run, cells, effects>>
      /\ call[c].phase = "writing" /\ holder = c /\ underway = None /\ ~failed
      /\ underway' = LineOf(c)
    BY DEF Write, HandOver, process
<1>3. call \in [Calls -> Records]
    BY <1>1 DEF TypeOK, Records
<1>4. /\ \A d \in Calls : d # c => call'[d] = call[d]
      /\ call'[c].answer = call[c].answer /\ call'[c].outcome = call[c].outcome
      /\ call'[c].phase = "flushing"
      /\ call' \in [Calls -> Records]
    BY <1>3 DEF Write, To, Records, Phases
<1>5. call[c].answer = "none" /\ call[c].outcome # "none" /\ Untouched(c) /\ up
    BY <1>1, <1>2 DEF CallFits, LineFits, SinkFits
<1>6. LineOf(c) \in Line /\ LineOf(c) # None
    <2>1. call[c].outcome \in Outcomes
        BY <1>3, <1>5 DEF Records
    <2>2. run \in 1 .. MaxRuns
        BY <1>1, <1>5, GatewayAssumption DEF Booted, TypeOK
    <2> QED
        BY <2>1, <2>2, GatewayAssumption, LineAssumption DEF LineOf
<1>7. TypeOK'
    BY <1>1, <1>2, <1>4, <1>6 DEF TypeOK, SinkTypeOK, Records
<1>8. SinkFits'
    <2>1. \A d \in Calls : call'[d].phase \in {"writing", "flushing"} <=> holder' = d
        BY <1>1, <1>2, <1>4 DEF SinkFits
    <2>2. /\ underway'.of = c /\ underway'.outcome = call'[c].outcome
          /\ underway'.run = run'
        BY <1>2, <1>4 DEF LineOf
    <2> QED
        BY <1>1, <1>2, <1>4, <1>5, <2>1, <2>2 DEF SinkFits
<1>9. /\ Positions(c)' = Positions(c) /\ Torn(c)' = Torn(c)
      /\ IsUnderway(c)'
    BY <1>2, <1>6 DEF Positions, Torn, IsUnderway, LineOf
<1>10. CallFits(c)'
    BY <1>1, <1>2, <1>4, <1>5 DEF CallFits
<1>11. Untouched(c)'
    BY <1>5, <1>9 DEF Untouched, Bare
<1>12. LineFits(c)'
    BY <1>4, <1>5, <1>9, <1>11 DEF LineFits
<1>13. ASSUME NEW d \in Calls, d # c PROVE CallFits(d)' /\ LineFits(d)'
    <2>1. CallFits(d) /\ LineFits(d)
        BY DEF IInv
    <2>2. call[d].phase # "flushing"
        BY <1>1, <1>2, <1>13 DEF SinkFits
    <2>3. /\ Positions(d)' = Positions(d) /\ Torn(d)' = Torn(d)
          /\ IsUnderway(d)' <=> IsUnderway(d)
          /\ \A i \in DOMAIN log : i \in DOMAIN log' /\ log'[i] = log[i]
        BY <1>2, <1>13 DEF Positions, Torn, IsUnderway, LineOf
    <2> QED
        BY <1>2, <1>4, <1>13, <2>1, <2>2, <2>3, StillFits
<1> QED
    BY <1>2, <1>7, <1>8, <1>10, <1>12, <1>13, FileKept DEF IInv

\* The end of an emit gives the mutex back.
LEMMA AfterTheLock ==
    ASSUME IInv, NEW c \in Calls,
           UNCHANGED <<underway, up, run>>, failed' \in {failed, FALSE},
           holder' = None,
           call'[c].phase \in {"answered", "gone"}, call'[c].outcome = call[c].outcome,
           call[c].phase \in {"writing", "flushing"},
           \A d \in Calls : d # c => call'[d] = call[d]
    PROVE  SinkFits'
<1>1. SinkFits /\ holder = c
    BY DEF IInv, SinkFits
<1>2. \A d \in Calls : d # None
    BY GatewayAssumption
<1>3. \A d \in Calls : call'[d].phase \notin {"writing", "flushing"}
    BY <1>1 DEF SinkFits
<1>4. underway # None => ~failed' /\ underway.outcome = call'[underway.of].outcome
    BY <1>1 DEF SinkFits
<1>5. up
    BY <1>1 DEF SinkFits
<1> QED
    BY <1>1, <1>2, <1>3, <1>4, <1>5 DEF SinkFits

LEMMA RecordedFits ==
    ASSUME IInv, NEW c \in Calls, Recorded(c)
    PROVE  IInv'
<1>1. TypeOK /\ SinkFits /\ CallFits(c) /\ LineFits(c)
    BY DEF IInv
<1>2. /\ UNCHANGED <<log, underway, failed, up, run, cells, effects>>
      /\ call[c].phase = "flushing" /\ holder = c /\ holder' = None
      /\ underway = None /\ ~failed
    BY DEF Recorded, Flush, process
<1>3. call \in [Calls -> Records]
    BY <1>1 DEF TypeOK, Records
<1>4. /\ \A d \in Calls : d # c => call'[d] = call[d]
      /\ call'[c].answer = AnswerOf(c) /\ call'[c].outcome = call[c].outcome
      /\ call'[c].phase = "answered"
      /\ call' \in [Calls -> Records]
    <2>1. AnswerOf(c) \in Answers
        BY DEF AnswerOf, Answers
    <2> QED
        BY <1>3, <2>1 DEF Recorded, Reply, Records, Phases
<1>5. TypeOK'
    BY <1>1, <1>2, <1>4 DEF TypeOK, SinkTypeOK, Records
<1>6. up /\ call[c].outcome # "none" /\ Intact(c) /\ ~IsUnderway(c)
    BY <1>1, <1>2 DEF CallFits, LineFits, SinkFits, IsUnderway
<1>7. SinkFits'
    BY <1>2, <1>4, <1>6, AfterTheLock
<1>8. /\ call[c].outcome \in Outcomes
      /\ call[c].outcome = "ok" => AnswerOf(c) = "ok"
      /\ call[c].outcome = "rate_limited" => AnswerOf(c) = "limited"
      /\ call[c].outcome \in {"rejected", "failed"} => AnswerOf(c) = "error"
    BY <1>3, <1>6 DEF Records, AnswerOf
<1>9. CallFits(c)'
    BY <1>1, <1>2, <1>4, <1>8 DEF CallFits, Outcomes
<1>10. Intact(c)' /\ ~IsUnderway(c)'
    BY <1>2, <1>4, <1>6, SameFile
<1>11. LineFits(c)'
    BY <1>4, <1>8, <1>10 DEF LineFits, Intact, Outcomes
<1> QED
    BY <1>2, <1>4, <1>5, <1>7, <1>9, <1>11, OneCallMoves

LEMMA UnrecordedFits ==
    ASSUME IInv, NEW c \in Calls, Unrecorded(c)
    PROVE  IInv'
<1>1. TypeOK /\ SinkFits /\ CallFits(c) /\ LineFits(c)
    BY DEF IInv
<1>2. /\ UNCHANGED <<log, underway, up, run, cells, effects>>
      /\ call[c].phase \in {"writing", "flushing"} /\ holder = c /\ holder' = None
      /\ underway = None /\ failed /\ failed' = FALSE
    BY DEF Unrecorded, Fault, process
<1>3. call \in [Calls -> Records]
    BY <1>1 DEF TypeOK, Records
<1>4. /\ \A d \in Calls : d # c => call'[d] = call[d]
      /\ call'[c].outcome = call[c].outcome
      /\ call'[c].phase = "answered"
      /\ \/ call'[c].answer = "limited" /\ call[c].outcome = "rate_limited"
         \/ call'[c].answer = "audit_error"
      /\ call' \in [Calls -> Records]
    <2>1. PICK answer \in {"limited", "audit_error"} :
            /\ Reply(c, answer)
            /\ answer = "limited" => call[c].outcome = "rate_limited"
        BY DEF Unrecorded
    <2>2. answer \in Answers
        BY DEF Answers
    <2> QED
        BY <1>3, <2>1, <2>2 DEF Reply, Records, Phases
<1>5. TypeOK'
    BY <1>1, <1>2, <1>4 DEF TypeOK, SinkTypeOK, Records
<1>6. up /\ Bare(c) /\ ~IsUnderway(c)
    BY <1>1, <1>2 DEF LineFits, SinkFits, IsUnderway, Untouched
<1>7. SinkFits'
    BY <1>2, <1>4, <1>6, AfterTheLock
<1>8. CallFits(c)'
    BY <1>1, <1>2, <1>4 DEF CallFits
<1>9. Bare(c)' /\ ~IsUnderway(c)'
    BY <1>2, <1>6, SameFile
<1>10. LineFits(c)'
    BY <1>4, <1>9 DEF LineFits
<1>11. ASSUME NEW d \in Calls, d # c PROVE CallFits(d)' /\ LineFits(d)'
    <2>1. CallFits(d) /\ LineFits(d)
        BY DEF IInv
    <2>2. call[d].phase # "flushing"
        BY <1>1, <1>2, <1>11 DEF SinkFits
    <2>3. /\ Positions(d)' = Positions(d) /\ Torn(d)' = Torn(d)
          /\ IsUnderway(d)' <=> IsUnderway(d)
          /\ \A i \in DOMAIN log : i \in DOMAIN log' /\ log'[i] = log[i]
        BY <1>2, SameFile
    <2> QED
        BY <1>2, <1>4, <1>11, <2>1, <2>2, <2>3, StillFits
<1> QED
    BY <1>2, <1>5, <1>7, <1>8, <1>10, <1>11, FileKept DEF IInv

\* Dropped at the mutex, in write_all or in flush.
LEMMA DropFits ==
    ASSUME IInv, NEW c \in Calls, Drop(c)
    PROVE  IInv'
<1>1. TypeOK /\ SinkFits /\ CallFits(c) /\ LineFits(c)
    BY DEF IInv
<1>2. /\ UNCHANGED <<log, underway, failed, up, run, cells, effects>>
      /\ call[c].phase \in {"emitting", "writing", "flushing"}
      /\ call[c].outcome = "rate_limited"
      /\ holder' = Unlocked(c)
    BY DEF Drop, process
<1>3. call \in [Calls -> Records]
    BY <1>1 DEF TypeOK, Records
<1>4. /\ \A d \in Calls : d # c => call'[d] = call[d]
      /\ call'[c].outcome = call[c].outcome /\ call'[c].answer = call[c].answer
      /\ call'[c].phase = "gone"
      /\ call' \in [Calls -> Records]
    BY <1>3 DEF Drop, To, Records, Phases
<1>5. TypeOK'
    BY <1>1, <1>2, <1>4 DEF TypeOK, SinkTypeOK, Records, Unlocked
<1>6. up /\ call[c].answer = "none"
    BY <1>1, <1>2 DEF CallFits, SinkFits
<1>7. SinkFits'
    <2>1. CASE call[c].phase = "emitting"
        <3>1. holder # c /\ holder' = holder
            BY <1>1, <1>2, <2>1 DEF SinkFits, Unlocked
        <3>2. \A d \in Calls :
                call'[d].phase \in {"writing", "flushing"} <=> holder' = d
            BY <1>1, <1>4, <3>1 DEF SinkFits
        <3>3. underway # None => underway.outcome = call'[underway.of].outcome
            BY <1>1, <1>4 DEF SinkFits
        <3> QED
            BY <1>1, <1>2, <1>4, <1>6, <3>1, <3>2, <3>3 DEF SinkFits
    <2>2. CASE call[c].phase \in {"writing", "flushing"}
        <3>1. holder' = None
            BY <1>1, <1>2, <2>2 DEF SinkFits, Unlocked
        <3> QED
            BY <1>2, <1>4, <1>6, <2>2, <3>1, AfterTheLock
    <2> QED
        BY <1>2, <2>1, <2>2
<1>8. CallFits(c)'
    BY <1>1, <1>2, <1>4, <1>6 DEF CallFits
<1>9. Bare(c) \/ Once(c)
    BY <1>1, <1>2 DEF LineFits, Untouched, Intact
<1>10. IsUnderway(c) => Untouched(c)
    BY <1>1 DEF LineFits
<1>11. /\ Bare(c)' <=> Bare(c)
       /\ Untouched(c)' <=> Untouched(c)
       /\ Once(c)' <=> Once(c)
       /\ IsUnderway(c)' <=> IsUnderway(c)
    BY <1>2, <1>4, SameFile
<1>12. LineFits(c)'
    BY <1>4, <1>6, <1>9, <1>10, <1>11 DEF LineFits
<1> QED
    BY <1>2, <1>4, <1>5, <1>7, <1>8, <1>12, OneCallMoves

\* The line that was on its way is in the file, or some or none of it is and
\* the error waits.
LEMMA DiskFits == ASSUME IInv, DiskStep PROVE IInv'
<1>1. TypeOK /\ SinkFits /\ BootFirst /\ Booted
    BY DEF IInv
<1>2. /\ UNCHANGED <<holder, up, run, cells, call, effects>>
      /\ underway # None /\ underway' = None
      /\ \/ log' = Written(underway, TRUE) /\ failed' = failed
         \/ log' = Written(underway, FALSE) /\ failed' = TRUE
         \/ log' = log /\ failed' = TRUE
    BY DEF DiskStep, Disk, process
<1>3. /\ underway \in Line /\ underway.run = run /\ up /\ underway.of # Boot
      /\ underway.of \in Calls /\ underway.outcome = call[underway.of].outcome
    BY <1>1, <1>2, GatewayAssumption DEF TypeOK, SinkTypeOK, SinkFits
<1>4. PICK c \in Calls : underway.of = c
    BY <1>3
<1>5. CallFits(c) /\ LineFits(c) /\ IsUnderway(c)
    BY <1>2, <1>4 DEF IInv, IsUnderway
<1>6. Untouched(c) /\ call[c].phase \in {"flushing", "gone"} /\ call[c].answer = "none"
    BY <1>5 DEF LineFits, CallFits
<1>7. log' \in Seq(Chunk)
    BY <1>1, <1>2, <1>3, LogGrows DEF TypeOK, SinkTypeOK
<1>8. TypeOK' /\ SinkFits'
    BY <1>1, <1>2, <1>3, <1>7 DEF TypeOK, SinkTypeOK, SinkFits
<1>9. BootFirst' /\ Booted' /\
      \A d \in Calls : d # c =>
        /\ Positions(d)' = Positions(d) /\ Torn(d)' = Torn(d)
        /\ \A i \in DOMAIN log : i \in DOMAIN log' /\ log'[i] = log[i]
    <2>1. CASE log' = log
        BY <1>1, <1>2, <2>1 DEF BootFirst, Booted, BootAt, Positions, Torn
    <2>2. ASSUME NEW whole \in BOOLEAN, log' = Written(underway, whole)
          PROVE  /\ BootFirst' /\ Booted'
                 /\ \A d \in Calls : d # c =>
                       /\ Positions(d)' = Positions(d) /\ Torn(d)' = Torn(d)
                       /\ \A i \in DOMAIN log : i \in DOMAIN log' /\ log'[i] = log[i]
        <3>1. \E j \in DOMAIN log : BootAt(j) /\ log[j].line.run = underway.run
            BY <1>1, <1>3 DEF Booted
        <3>2. BootFirst'
            BY <1>1, <1>3, <2>2, <3>1, BootFirstGrows
        <3>3. /\ DOMAIN log = 1 .. Len(log) /\ DOMAIN log' = 1 .. Len(log) + 1
              /\ Len(log) \in Nat
              /\ \A i \in DOMAIN log : log'[i] = log[i]
            BY <1>1, <1>3, <2>2, LogGrows
        <3>4. \A j \in DOMAIN log : j \in DOMAIN log' /\ (BootAt(j) => BootAt(j)')
            BY <3>3 DEF BootAt
        <3>5. Booted'
            BY <1>1, <1>2, <3>3, <3>4 DEF Booted
        <3> QED
            BY <1>1, <1>3, <1>4, <2>2, <3>2, <3>5, OthersLinesKept
    <2> QED
        BY <1>2, <2>1, <2>2
<1>10. CallFits(c)'
    BY <1>2, <1>5 DEF CallFits
<1>11. ~IsUnderway(c)' /\ ~failed
    BY <1>1, <1>2 DEF IsUnderway, SinkFits
<1>12. LineFits(c)'
    <2>1. CASE log' = Written(underway, TRUE) /\ failed' = failed
        <3>1. Intact(c)'
            BY <1>1, <1>2, <1>3, <1>4, <1>6, <2>1, LineArrives
        <3> QED
            BY <1>2, <1>6, <1>11, <2>1, <3>1 DEF LineFits, Intact
    <2>2. CASE log' = Written(underway, FALSE) /\ failed' = TRUE
        <3>1. Bare(c)'
            BY <1>1, <1>2, <1>3, <1>4, <1>6, <2>2, LineArrives
        <3> QED
            BY <1>2, <1>6, <1>11, <2>2, <3>1 DEF LineFits
    <2>3. CASE log' = log /\ failed' = TRUE
        <3>1. Bare(c)'
            BY <1>6, <2>3 DEF Untouched, Bare, Positions
        <3> QED
            BY <1>2, <1>6, <1>11, <2>3, <3>1 DEF LineFits
    <2> QED
        BY <1>2, <2>1, <2>2, <2>3
<1>13. ASSUME NEW d \in Calls, d # c PROVE CallFits(d)' /\ LineFits(d)'
    <2>1. CallFits(d) /\ LineFits(d)
        BY DEF IInv
    <2>2. ~IsUnderway(d) /\ ~IsUnderway(d)'
        BY <1>2, <1>4, <1>13 DEF IsUnderway
    <2>3. call[d].phase # "flushing"
        BY <1>2, <2>1, <2>2 DEF LineFits
    <2> QED
        BY <1>2, <1>9, <1>13, <2>1, <2>2, <2>3, StillFits
<1> QED
    BY <1>8, <1>9, <1>10, <1>12, <1>13 DEF IInv

-----------------------------------------------------------------------------

LEMMA NextIInv == IInv /\ [Next]_vars => IInv'
<1> SUFFICES ASSUME IInv, [Next]_vars PROVE IInv'
    OBVIOUS
<1>1. CASE Start
    BY <1>1, StartFits
<1>2. CASE Stop
    BY <1>2, StopFits
<1>3. CASE Refill \/ OtherRequest
    BY <1>3, CellsFit
<1>4. CASE DiskStep
    BY <1>4, DiskFits
<1>5. ASSUME NEW c \in Calls, NEW tool \in Tools, NEW valid \in BOOLEAN,
             Arrive(c, tool, valid)
      PROVE  IInv'
    BY <1>5, ArriveFits
<1>6. ASSUME NEW c \in Calls, Limit(c) \/ Perform(c) \/ ClientFails(c) PROVE IInv'
    BY <1>6, LimitFits, PerformFits, ClientFailsFits
<1>7. ASSUME NEW c \in Calls, NEW outcome \in {"ok", "failed"}, Learn(c, outcome)
      PROVE  IInv'
    BY <1>7, LearnFits
<1>8. ASSUME NEW c \in Calls, EmitStep(c) PROVE IInv'
    BY <1>8, TakeLockFits, WriteFits, RecordedFits, UnrecordedFits DEF EmitStep
<1>9. ASSUME NEW c \in Calls, Drop(c) PROVE IInv'
    BY <1>9, DropFits
<1>10. CASE UNCHANGED vars
    <2>1. UNCHANGED <<log, holder, underway, failed, up, run, cells, call, effects>>
        BY <1>10 DEF vars
    <2>2. TypeOK' /\ SinkFits'
        BY <2>1 DEF IInv, TypeOK, SinkTypeOK, SinkFits
    <2>3. \A c \in Calls : CallFits(c)' /\ LineFits(c)'
        BY <2>1, SameFile DEF IInv, CallFits, LineFits
    <2> QED
        BY <2>1, <2>2, <2>3, FileKept DEF IInv
<1> QED
    BY <1>1, <1>2, <1>3, <1>4, <1>5, <1>6, <1>7, <1>8, <1>9, <1>10 DEF Next

LEMMA Invariance == Spec => []IInv
    BY InitIInv, NextIInv, PTL DEF Spec

-----------------------------------------------------------------------------

\* What a file with no line, or with one, says of a call.
LEMMA RecordingsOf ==
    ASSUME NEW c \in Calls
    PROVE  /\ Bare(c) => Cardinality(Positions(c)) <= 1 /\ Recordings(c) = {}
           /\ Once(c) => /\ Cardinality(Positions(c)) <= 1
                          /\ Recordings(c) = {call[c].outcome}
<1>1. ASSUME Bare(c) PROVE Cardinality(Positions(c)) <= 1 /\ Recordings(c) = {}
    <2>1. Cardinality(Positions(c)) = 0
        BY <1>1, FS_EmptySet DEF Bare
    <2> QED
        BY <1>1, <2>1 DEF Bare, Recordings
<1>2. ASSUME Once(c)
      PROVE  Cardinality(Positions(c)) <= 1 /\ Recordings(c) = {call[c].outcome}
    <2>1. PICK i \in DOMAIN log :
            Positions(c) = {i} /\ log[i].line.outcome = call[c].outcome
        BY <1>2 DEF Once
    <2>2. Cardinality(Positions(c)) = 1
        BY <2>1, FS_Singleton
    <2> QED
        BY <2>1, <2>2 DEF Recordings
<1> QED
    BY <1>1, <1>2

\* Every call has a line or none, and what that says about its answer.
LEMMA HasOneOrNone ==
    ASSUME IInv, NEW c \in Calls
    PROVE  /\ Bare(c) \/ Once(c)
           /\ Torn(c) # {} =>
                \/ call[c].phase \in {"flushing", "gone"}
                \/ call[c].answer \in {"audit_error", "limited"}
<1>1. CallFits(c) /\ LineFits(c)
    BY DEF IInv
<1>2. call[c].phase \in Phases /\ call[c].answer \in Answers
    BY DEF IInv, TypeOK
<1>3. CASE call[c].phase \in {"idle", "acting", "orphan", "emitting", "writing"}
    BY <1>1, <1>3 DEF LineFits, Untouched
<1>4. CASE call[c].phase \in {"flushing", "gone"}
    BY <1>1, <1>4 DEF LineFits, Untouched, Intact
<1>5. CASE call[c].phase = "answered"
    <2>1. call[c].answer \in {"ok", "error", "audit_error", "limited"}
        BY <1>1, <1>2, <1>5 DEF CallFits, Answers
    <2> QED
        BY <1>1, <2>1 DEF LineFits, Untouched, Intact
<1> QED
    BY <1>2, <1>3, <1>4, <1>5 DEF Phases

\* The state of the gateway stays what it is declared to be.
THEOREM TypeCorrect == Spec => []TypeOK
<1>1. IInv => TypeOK
    BY DEF IInv
<1> QED
    BY <1>1, Invariance, PTL

\* Whatever emits of other calls, failed writes, dropped requests and ends of
\* the process come in between: a call answered Ok is done and has its one
\* line, one answered with an audit error has none, and none has two.
THEOREM AnswersMatchTheLog == Spec => []AnswersMatchLog
<1>1. IInv => AnswersMatchLog
    <2> SUFFICES ASSUME IInv, NEW c \in Calls
                 PROVE  /\ Cardinality(Positions(c)) <= 1
                        /\ call[c].answer = "ok" => c \in effects /\ Recordings(c) = {"ok"}
                        /\ call[c].answer = "audit_error" => Recordings(c) = {}
                        /\ call[c].answer = "error" =>
                                Recordings(c) \subseteq {"rejected", "failed"}
        BY DEF AnswersMatchLog
    <2>1. CallFits(c) /\ LineFits(c) /\ (Bare(c) \/ Once(c))
        BY HasOneOrNone DEF IInv
    <2>2. /\ Bare(c) => Cardinality(Positions(c)) <= 1 /\ Recordings(c) = {}
          /\ Once(c) => /\ Cardinality(Positions(c)) <= 1
                         /\ Recordings(c) = {call[c].outcome}
        BY RecordingsOf
    <2> QED
        BY <2>1, <2>2 DEF CallFits, LineFits, Untouched, Intact
<1> QED
    BY <1>1, Invariance, PTL

\* GitHub is not asked for a call that the limiter or a validator refused.
THEOREM RefusalsTouchNothing == Spec => []RefusedTouchesNothing
<1>1. IInv => RefusedTouchesNothing
    BY DEF IInv, CallFits, RefusedTouchesNothing
<1> QED
    BY <1>1, Invariance, PTL

\* What GitHub did for a call that was answered is in the file, or the client
\* knows that it is not.
THEOREM NothingIsOnTheQuiet == Spec => []NothingOnTheQuiet
<1>1. IInv => NothingOnTheQuiet
    <2> SUFFICES ASSUME IInv, NEW c \in effects, call[c].phase = "answered"
                 PROVE  \/ Recordings(c) \in {{"ok"}, {"failed"}}
                        \/ call[c].answer = "audit_error"
        BY DEF NothingOnTheQuiet
    <2>1. c \in Calls
        BY DEF IInv, TypeOK
    <2>2. /\ CallFits(c) /\ LineFits(c)
          /\ call[c].answer \in {"ok", "error", "audit_error", "limited"}
        BY <2>1 DEF IInv, TypeOK, CallFits, Answers
    <2>3. call[c].answer \in {"ok", "error"} => Once(c) /\ call[c].outcome \in {"ok", "failed"}
        BY <2>2 DEF CallFits, LineFits, Intact
    <2>4. call[c].answer # "limited"
        BY <2>2 DEF CallFits, LineFits
    <2> QED
        BY <2>1, <2>2, <2>3, <2>4, RecordingsOf
<1> QED
    BY <1>1, Invariance, PTL

\* A line that was begun and not ended is known to its writer, or has none left.
THEOREM TornLinesAreNoticed == Spec => []TornIsNoticed
<1>1. IInv => TornIsNoticed
    <2> SUFFICES ASSUME IInv, NEW i \in DOMAIN log, ~log[i].whole, log[i].line.of # Boot
                 PROVE  LET c == log[i].line.of IN
                        call[c].phase = "flushing" \/ call[c].phase = "gone"
                        \/ call[c].answer \in {"audit_error", "limited"}
        BY DEF TornIsNoticed
    <2>1. log[i].line \in Line
        <3>1. log \in Seq(Chunk)
            BY DEF IInv, TypeOK, SinkTypeOK
        <3>2. log[i] \in Chunk
            BY <3>1
        <3> QED
            BY <3>2 DEF Chunk
    <2>2. PICK c \in Calls : log[i].line.of = c
        BY <2>1, GatewayAssumption
    <2>3. i \in Torn(c)
        BY <2>2 DEF Torn
    <2> QED
        BY <2>2, <2>3, HasOneOrNone
<1> QED
    BY <1>1, Invariance, PTL

\* Every line in the file follows the gateway_started of the process that
\* wrote it, over any number of starts.
THEOREM BootComesFirst == Spec => []BootFirst
<1>1. IInv => BootFirst
    BY DEF IInv
<1> QED
    BY <1>1, Invariance, PTL

=============================================================================
