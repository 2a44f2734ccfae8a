------------------------------ MODULE ChatWire ------------------------------
(***************************************************************************)
(* ChatCompletion with the provider clients in it: what the client of the  *)
(* API asks, what is sent upstream for it, what the upstream answers and   *)
(* what of that the client is given, as one response or as a stream.       *)
(*                                                                         *)
(* Every step is a step of ChatCompletion or, while a stream runs, one it  *)
(* does not see.  A stream is pulled: the next read is made when the       *)
(* frames of the last one have been passed on.                             *)
(***************************************************************************)
EXTENDS ChatCompletion, ProviderClients

CONSTANTS
    Chats,     \* the chats clients send: [messages, in_range]
    Replies,   \* what upstreams reply to a buffered request
    Bodies     \* what upstreams stream: Body(events, eol)

\* What ProviderManager::new can register; a chat's messages are a Vec.
ASSUME WireAssumption ==
    /\ Registered \subseteq ProviderNames
    /\ \A c \in Chats : c.messages \in Seq({c.messages[i] : i \in DOMAIN c.messages})
    /\ \A reply \in Replies : reply.kind \in ReplyKinds
    /\ \A b \in Bodies : IsBody(b)

VARIABLES
    chat,      \* chat[r]: what the client of r asked
    sent,      \* sent[r]: what the last provider tried was sent
    answer,    \* answer[r]: its reply to a buffered request, and the Response
    body,      \* body[r]: what the provider of a stream says in all
    arrived,   \* arrived[r]: how many symbols of it have arrived
    buffer,    \* buffer[r]: what has arrived and is not decoded
    fate,      \* fate[r]: how r's provider stream stands
    torn,      \* torn[r]: what a read of it ended in the middle of
    sse        \* sse[r]: the events the client was sent

wireVars == <<chat, sent, answer, body, arrived, buffer, fate, torn, sse>>
allVars == <<vars, wireVars>>

NoChat == [messages |-> <<>>, in_range |-> FALSE]
NoAnswer == [reply |-> NoReply, response |-> Err("none")]

NoBody == [events |-> <<>>, symbols |-> <<>>, ends |-> <<>>]

Fates == {"none", "open", "ended", "failed", "hung up"}

WireInit ==
    /\ Init
    /\ chat = [r \in Requests |-> NoChat]
    /\ sent = [r \in Requests |-> NothingSent]
    /\ answer = [r \in Requests |-> NoAnswer]
    /\ body = [r \in Requests |-> NoBody]
    /\ arrived = [r \in Requests |-> 0]
    /\ buffer = [r \in Requests |-> <<>>]
    /\ fate = [r \in Requests |-> "none"]
    /\ torn = [r \in Requests |-> {}]
    /\ sse = [r \in Requests |-> <<>>]

-----------------------------------------------------------------------------

\* convert_message; CoreRequest::new leaves the system field empty.
CoreMessage(m) == Said(IF m.role \in Roles THEN m.role ELSE "user", m.text)

CoreRequest(r) ==
    [messages |-> [i \in DOMAIN chat[r].messages |-> CoreMessage(chat[r].messages[i])],
     system   |-> <<>>,
     in_range |-> chat[r].in_range]

ReceiveChat(r, ask, stream, c) ==
    /\ Receive(r, ask, stream)
    /\ chat' = [chat EXCEPT ![r] = c]
    /\ UNCHANGED <<sent, answer, body, arrived, buffer, fate, torn, sse>>

\* send_request returns.
AnswerBuffered(r, reply) ==
    /\ req[r].phase = "sending" /\ ~req[r].stream
    /\ \E x \in {SendRequest(Key(r).provider, CoreRequest(r), reply)} :
        /\ Answer(r, x.result.ok)
        /\ sent' = [sent EXCEPT ![r] = x.wire]
        /\ answer' = [answer EXCEPT ![r] = [reply |-> reply, response |-> x.result]]
    /\ UNCHANGED <<chat, body, arrived, buffer, fate, torn, sse>>

\* stream_request returns: the stream it gives has not read anything yet.
AnswerStream(r, reply, b) ==
    /\ req[r].phase = "sending" /\ req[r].stream
    /\ \E x \in {StreamRequest(Key(r).provider, CoreRequest(r), reply)} :
        /\ Answer(r, x.result.ok)
        /\ sent' = [sent EXCEPT ![r] = x.wire]
        /\ IF x.result.ok
           THEN /\ body' = [body EXCEPT ![r] = b]
                /\ fate' = [fate EXCEPT ![r] = "open"]
           ELSE UNCHANGED <<body, fate>>
    /\ UNCHANGED <<chat, answer, arrived, buffer, torn, sse>>

Reading(r) == req[r].phase = "streaming" /\ fate[r] = "open"
Unread(r) == SubSeq(body[r].symbols, arrived[r] + 1, Len(body[r].symbols))
Starved(r) == Reading(r) /\ FrameEnds(buffer[r]) = {}

\* What a read that leaves rest for later, after the symbol last, tears apart.
Tears(last, rest) ==
    {t \in {"character", "line end"} :
        /\ rest # <<>>
        /\ \/ t = "character" /\ last = Lead /\ rest[1] = Cont
           \/ t = "line end" /\ last = CR /\ rest[1] = LF}

\* The next n symbols arrive together.
Read(r, n) ==
    LET read == SubSeq(Unread(r), 1, n)
        rest == SubSeq(Unread(r), n + 1, Len(Unread(r)))
    IN
    /\ Starved(r) /\ n \in 1 .. Len(Unread(r))
    /\ buffer' = [buffer EXCEPT ![r] = Received(@, read)]
    /\ arrived' = [arrived EXCEPT ![r] = @ + n]
    /\ torn' = [torn EXCEPT ![r] = @ \union Tears(read[n], rest)]
    /\ UNCHANGED <<vars, chat, sent, answer, body, fate, sse>>

\* The upstream closes the body, whatever is left in the buffer.
ReadEnds(r) ==
    /\ Starved(r)
    /\ fate' = [fate EXCEPT ![r] = "ended"]
    /\ UNCHANGED <<vars, chat, sent, answer, body, arrived, buffer, torn, sse>>

\* The connection breaks, or the timeout of the HTTP client cuts the body off.
ReadFails(r) ==
    /\ Starved(r)
    /\ fate' = [fate EXCEPT ![r] = "failed"]
    /\ sse' = [sse EXCEPT ![r] = Append(@, [kind |-> "error"])]
    /\ UNCHANGED <<vars, chat, sent, answer, body, arrived, buffer, torn>>

\* stream_chunk_to_event and finish_reason_to_openai.
FinishWord(finish) ==
    CASE finish = "Stop"          -> "stop"
      [] finish = "Length"        -> "length"
      [] finish = "ContentFilter" -> "content_filter"
      [] finish = "FunctionCall"  -> "function_call"
      [] finish = "ToolUse"       -> "tool_calls"
      [] finish = "Unknown"       -> "unknown"

ChunkEvent(d) ==
    [kind |-> "chunk", text |-> d.text,
     finish |-> IF d.finish = NoFinish THEN NoFinish ELSE FinishWord(d.finish)]

\* Mutant: a chunk that does not parse is passed over.
TakeFrameLeniently(r) ==
    /\ Reading(r) /\ FrameEnds(buffer[r]) # {}
    /\ \E d \in {Decoded(FirstFrame(buffer[r]))} :
       /\ fate' = [fate EXCEPT ![r] = IF d.kind = "done" THEN "ended" ELSE @]
       /\ sse' = [sse EXCEPT ![r] = IF d.kind = "chunk" THEN Append(@, ChunkEvent(d)) ELSE @]
    /\ buffer' = [buffer EXCEPT ![r] = AfterFrame(@)]
    /\ UNCHANGED <<vars, chat, sent, answer, body, arrived, torn>>

\* The first frame in the buffer is taken out and decoded.
TakeFrame(r) ==
    /\ Reading(r) /\ FrameEnds(buffer[r]) # {}
    /\ \E d \in {Decoded(FirstFrame(buffer[r]))} :
       /\ fate' = [fate EXCEPT ![r] = CASE d.kind = "done"  -> "ended"
                                        [] d.kind = "error" -> "failed"
                                        [] OTHER            -> @]
       /\ sse' = [sse EXCEPT ![r] =
                    CASE d.kind = "chunk" -> Append(@, ChunkEvent(d))
                      [] d.kind = "error" -> Append(@, [kind |-> "error"])
                      [] OTHER            -> @]
    /\ buffer' = [buffer EXCEPT ![r] = AfterFrame(@)]
    /\ UNCHANGED <<vars, chat, sent, answer, body, arrived, torn>>

\* Mutant: only a stream that ended well is followed by anything.
ConcludeEnded(r) ==
    /\ fate[r] = "ended"
    /\ EndStream(r)
    /\ sse' = [sse EXCEPT ![r] = Append(@, [kind |-> "done"])]
    /\ UNCHANGED <<chat, sent, answer, body, arrived, buffer, fate, torn>>

\* .chain(...): [DONE] follows the provider's stream, however that ended.
Conclude(r) ==
    /\ fate[r] \in {"ended", "failed"}
    /\ EndStream(r)
    /\ sse' = [sse EXCEPT ![r] = Append(@, [kind |-> "done"])]
    /\ UNCHANGED <<chat, sent, answer, body, arrived, buffer, fate, torn>>

\* The client disconnects and the stream is dropped.
HangUp(r) ==
    /\ Reading(r)
    /\ EndStream(r)
    /\ fate' = [fate EXCEPT ![r] = "hung up"]
    /\ UNCHANGED <<chat, sent, answer, body, arrived, buffer, torn, sse>>

ServeWire(r) ==
    \/ /\ \/ Drop(r) \/ Call(r) \/ Skip(r) \/ ReportResult(r)
          \/ CountSuccess(r) \/ CountError(r) \/ RefuseStream(r)
          \/ Respond(r) \/ \E persisted \in BOOLEAN : Persist(r, persisted)
       /\ UNCHANGED wireVars
    \/ \E reply \in Replies : AnswerBuffered(r, reply)
    \/ \E reply \in Replies, b \in Bodies : AnswerStream(r, reply, b)
    \/ HangUp(r) \/ ReadEnds(r) \/ ReadFails(r) \/ Conclude(r) \/ TakeFrame(r)
    \/ \E n \in 1 .. Len(Unread(r)) : Read(r, n)

WireNext ==
    \/ \E r \in Requests, ask \in Asks, stream \in BOOLEAN, c \in Chats :
        ReceiveChat(r, ask, stream, c)
    \/ \E r \in Requests : ServeWire(r)
    \/ Elapse /\ UNCHANGED wireVars

\* As in ChatCompletion; reads end or fail, for every client that streams was
\* built with a timeout, which counts the body in.
WireSpec == WireInit /\ [][WireNext]_allVars /\ \A r \in Requests : WF_allVars(ServeWire(r))

=============================================================================
