----------------------------- MODULE SseDecoder -----------------------------
(***************************************************************************)
(* send_stream of the OpenAI-compatible clients: a body of server-sent     *)
(* events, decoded from the reads the network happens to make of it.       *)
(*                                                                         *)
(* A body is a sequence of symbols: line ends, the prefix of a data line,  *)
(* the [DONE] marker, braces that open and close a JSON chunk, texts, stop *)
(* reasons, and the two halves of a character that UTF-8 writes in two     *)
(* bytes.  A read may end between any two symbols.                         *)
(***************************************************************************)
EXTENDS Naturals, Sequences, SequencesExt, Selection

NoFinish == "no finish_reason"

CR == "CR"
LF == "LF"
DataPrefix == "data:"
DoneMarker == "[DONE]"
OpenBrace == "{"
CloseBrace == "}"
NotJson == "error"
Comment == ": keep-alive"
Lead == "lead byte"
Cont == "continuation byte"
Replacement == "U+FFFD"

StopReasons == {"stop", "length", "content_filter", "function_call", "tool_calls"}

\* What an upstream says in one event: a chunk of its one choice, a chunk
\* with no choices, a comment, an error in place of a chunk, or the end.
Chunk(text, finish) == [kind |-> "chunk", text |-> text, finish |-> finish]
Usage == [kind |-> "usage"]
KeepAlive == [kind |-> "comment"]
Failure == [kind |-> "error"]
Done == [kind |-> "done"]

Line(event) ==
    CASE event.kind = "chunk" ->
            <<DataPrefix, OpenBrace>> \o event.text
              \o (IF event.finish = NoFinish THEN <<>> ELSE <<event.finish>>) \o <<CloseBrace>>
      [] event.kind = "usage"   -> <<DataPrefix, OpenBrace, CloseBrace>>
      [] event.kind = "comment" -> <<Comment>>
      [] event.kind = "error"   -> <<DataPrefix, NotJson>>
      [] event.kind = "done"    -> <<DataPrefix, DoneMarker>>

\* A text: halves of a character come in pairs, and nothing in it is a mark.
Marks == {CR, LF, DataPrefix, DoneMarker, OpenBrace, CloseBrace, NotJson} \union StopReasons

IsText(text) ==
    /\ text \in Seq({text[i] : i \in DOMAIN text} \ Marks)
    /\ \A i \in DOMAIN text :
        /\ text[i] = Lead => i < Len(text) /\ text[i + 1] = Cont
        /\ text[i] = Cont => i > 1 /\ text[i - 1] = Lead

IsEvent(event) ==
    \/ event \in {Usage, KeepAlive, Failure, Done}
    \/ /\ event = Chunk(event.text, event.finish)
       /\ IsText(event.text) /\ event.finish \in StopReasons \union {NoFinish}
       /\ event.text = <<>> => event.finish # NoFinish

\* The body an upstream sends that ends its lines with eol: its events, the
\* symbols it is sent as, and how many of them each event has been sent whole
\* with.
LineEnds == {<<LF>>, <<CR, LF>>}

Body(events, eol) ==
    LET sent[n \in 0 .. Len(events)] ==
            IF n = 0 THEN <<>> ELSE sent[n - 1] \o (Line(events[n]) \o eol \o eol)
    IN [events  |-> events,
        symbols |-> sent[Len(events)],
        ends    |-> [n \in DOMAIN events |-> Len(sent[n])]]

IsBody(body) ==
    /\ body.events \in Seq({body.events[i] : i \in DOMAIN body.events})
    /\ \A i \in DOMAIN body.events : IsEvent(body.events[i])
    /\ \E eol \in LineEnds : body = Body(body.events, eol)

-----------------------------------------------------------------------------

\* String::from_utf8_lossy, applied to each read on its own: half a character
\* at the edge of a read is replaced.
Lossy(read) ==
    [i \in DOMAIN read |->
        IF \/ read[i] = Lead /\ (i = Len(read) \/ read[i + 1] # Cont)
           \/ read[i] = Cont /\ (i = 1 \/ read[i - 1] # Lead)
        THEN Replacement ELSE read[i]]

\* .replace("\r\n", "\n"), applied to each read on its own as well.
Unixed(read) ==
    Chosen(read, {i \in DOMAIN read :
                    ~(read[i] = CR /\ i < Len(read) /\ read[i + 1] = LF)})

\* Mutant: only a whole read that ends in a frame's end is looked at again.
ReceivedFresh(buffer, read) ==
    (IF buffer # <<>> /\ Last(buffer) = LF THEN <<>> ELSE buffer) \o Unixed(Lossy(read))

Received(buffer, read) == buffer \o Unixed(Lossy(read))

FrameEnds(buffer) == {i \in 1 .. Len(buffer) - 1 : buffer[i] = LF /\ buffer[i + 1] = LF}
FrameEnd(buffer) == CHOOSE i \in FrameEnds(buffer) : \A j \in FrameEnds(buffer) : i <= j

FirstFrame(buffer) == SubSeq(buffer, 1, FrameEnd(buffer) - 1)
AfterFrame(buffer) == SubSeq(buffer, FrameEnd(buffer) + 2, Len(buffer))

\* event_data: what follows "data:" in the lines that begin with it.  White
\* space around it, which neither trim() nor JSON minds, is left out.
EventData(frame) ==
    LET FollowsPrefix(i) ==
            \E p \in 1 .. i - 1 :
                /\ frame[p] = DataPrefix /\ (p = 1 \/ frame[p - 1] = LF)
                /\ \A j \in p .. i : frame[j] # LF
    IN Chosen(frame, {i \in DOMAIN frame : FollowsPrefix(i) /\ frame[i] # CR})

\* serde_json::from_str: exactly one JSON chunk, and nothing after it.
ParsesAsChunk(data) ==
    /\ Len(data) >= 2 /\ data[1] = OpenBrace /\ data[Len(data)] = CloseBrace
    /\ \A i \in 2 .. Len(data) - 1 : data[i] \notin {OpenBrace, CloseBrace, NotJson, DoneMarker}

\* finish_reason_from_str
FinishReason(reason) ==
    CASE reason = "stop"           -> "Stop"
      [] reason = "length"         -> "Length"
      [] reason = "content_filter" -> "ContentFilter"
      [] reason = "function_call"  -> "FunctionCall"
      [] reason = "tool_calls"     -> "ToolUse"
      [] OTHER                     -> "Unknown"

\* What the loop does with a frame: on to the next one, return, fail, or yield
\* a StreamChunk for each choice.
Decoded(frame) ==
    LET data == EventData(frame)
        inner == SubSeq(data, 2, Len(data) - 1)
        texts == Chosen(inner, {i \in DOMAIN inner : inner[i] \notin StopReasons})
        reasons == Chosen(inner, {i \in DOMAIN inner : inner[i] \in StopReasons})
    IN
    CASE data = <<>> -> [kind |-> "skip"]
      [] data = <<DoneMarker>> -> [kind |-> "done"]
      [] data # <<>> /\ data # <<DoneMarker>> /\ ~ParsesAsChunk(data) -> [kind |-> "error"]
      [] ParsesAsChunk(data) /\ inner = <<>> -> [kind |-> "skip"]
      [] ParsesAsChunk(data) /\ inner # <<>> ->
            [kind   |-> "chunk",
             text   |-> texts,
             finish |-> IF reasons = <<>> THEN NoFinish ELSE FinishReason(Last(reasons))]

=============================================================================
