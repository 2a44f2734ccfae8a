------------------------------ MODULE JsonlSink -----------------------------
(***************************************************************************)
(* The gateway's audit file, events.jsonl: one file opened for appending,  *)
(* behind an async mutex.                                                  *)
(*                                                                         *)
(* emit takes the mutex, hands its line to the file with write_all and     *)
(* waits for it with flush.  The file is tokio's: write_all returns when   *)
(* the line is on its way to a blocking thread, a file has one line on its *)
(* way at a time, and the error of a write is told to whoever uses the     *)
(* file next: the emit that flushes, or a later one if that was dropped.   *)
(***************************************************************************)
EXTENDS Naturals, Sequences, FiniteSets

CONSTANTS
    Line,    \* what can be written
    None

VARIABLES
    log,       \* the file: lines, or the beginnings of lines
    holder,    \* who holds the mutex, or None
    underway,  \* the line on its way to the disk, or None
    failed     \* a write has failed and nobody knows yet

sink == <<log, holder, underway, failed>>

ASSUME LineAssumption == None \notin Line

Chunk == [line : Line, whole : BOOLEAN]

SinkTypeOK ==
    /\ log \in Seq(Chunk)
    /\ underway \in Line \union {None}
    /\ failed \in BOOLEAN

SinkInit ==
    /\ log = << >>
    /\ holder = None
    /\ underway = None
    /\ failed = FALSE

Lock(e) ==
    /\ holder = None
    /\ holder' = e
    /\ UNCHANGED <<log, underway, failed>>

\* The end of an emit, or its loss: the guard is dropped.
Unlocked(e) == IF holder = e THEN None ELSE holder

\* write_all
HandOver(e, line) ==
    /\ holder = e
    /\ underway = None /\ ~failed
    /\ underway' = line
    /\ UNCHANGED <<log, holder, failed>>

\* write_all or flush is told of an error, and emit ends.
Fault(e) ==
    /\ holder = e
    /\ underway = None /\ failed
    /\ failed' = FALSE
    /\ holder' = None
    /\ UNCHANGED <<log, underway>>

\* flush, and emit ends.
Flush(e) ==
    /\ holder = e
    /\ underway = None /\ ~failed
    /\ holder' = None
    /\ UNCHANGED <<log, underway, failed>>

Written(line, whole) == Append(log, [line |-> line, whole |-> whole])

\* The blocking thread: the line is written, or all or part of it is not.
Disk ==
    /\ underway # None
    /\ \/ log' = Written(underway, TRUE) /\ UNCHANGED failed
       \/ log' \in {log, Written(underway, FALSE)} /\ failed' = TRUE
    /\ underway' = None
    /\ UNCHANGED holder

\* The process ends.  What has reached the file stays there.
Close ==
    /\ holder' = None
    /\ underway' = None
    /\ failed' = FALSE
    /\ UNCHANGED log

=============================================================================
