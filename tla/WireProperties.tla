--------------------------- MODULE WireProperties ---------------------------
(***************************************************************************)
(* What ChatWire promises about the words that go through it.              *)
(***************************************************************************)
EXTENDS ChatWire

\* The events of a body that have arrived whole, with their empty line.
Whole(r) == {n \in DOMAIN body[r].ends : body[r].ends[n] <= arrived[r]}
Arrived(r) == SubSeq(body[r].events, 1, Cardinality(Whole(r)))

\* The chunks among events that come before the end, or before an error.
IsEnd(event) == event.kind \in {"done", "error"}
Chunks(events) ==
    Chosen(events, {i \in DOMAIN events :
        events[i].kind = "chunk" /\ \A j \in 1 .. i : ~IsEnd(events[j])})

Given(r) == Chosen(sse[r], {i \in DOMAIN sse[r] : sse[r][i].kind = "chunk"})

SameBut(s, t, garbled) ==
    /\ Len(s) = Len(t)
    /\ \A i \in DOMAIN s : s[i] = t[i] \/ (garbled /\ s[i] = Replacement /\ t[i] \in {Lead, Cont})

\* However the network cuts a stream into reads, what the client has been
\* given is the beginning of what the model said: every chunk once, in order,
\* with its words and its reason to stop, never joined with another one nor
\* cut short.  Only a character that a read ended in the middle of is lost.
ChunksAreTheModels ==
    \A r \in Requests :
        LET given == Given(r)
            said == Chunks(Arrived(r))
        IN /\ Len(given) <= Len(said)
           /\ \A i \in DOMAIN given :
                /\ given[i].finish = said[i].finish
                /\ SameBut(given[i].text, said[i].text, "character" \in torn[r])

Errors(r) == {i \in DOMAIN sse[r] : sse[r][i].kind = "error"}
Finished(r) == sse[r] # <<>> /\ Last(sse[r]).kind = "done"

\* A stream that ends without an error event has given the client every chunk
\* that arrived whole, unless a read ended between the CR and the LF of a line
\* end, which can hide the end of a frame.  [DONE] comes once and last.
NothingLostQuietly ==
    \A r \in Requests :
        Finished(r) =>
            /\ Errors(r) = {} /\ "line end" \notin torn[r]
                  => Len(Given(r)) = Len(Chunks(Arrived(r)))
            /\ \A i \in 1 .. Len(sse[r]) - 1 : sse[r][i].kind # "done"

Turns(r, roles) ==
    LET kept == OfRole(sent[r].turns, roles) IN [i \in DOMAIN kept |-> kept[i].text]

Asked(r, roles) ==
    LET kept == OfRole(CoreRequest(r).messages, roles)
    IN [i \in DOMAIN kept |-> TextOf(kept[i].content)]

NoFunctions(r) ==
    \A i \in DOMAIN chat[r].messages : chat[r].messages[i].role # "function"

\* Whichever provider is tried, in the chain of a fallback too, it is shown
\* what the assistant said as the assistant's, all of it, in the order it was
\* said, and what the user said as the user's, in a chat without the results
\* of functions (which Anthropic is shown as the user's); and a stream that is
\* not in range is sent to none.
ConversationArrives ==
    \A r \in Requests :
        /\ sent[r] # NothingSent =>
            /\ Turns(r, {"assistant", "model"}) = Asked(r, {"assistant"})
            /\ NoFunctions(r) =>
                  /\ Turns(r, {"user"}) = Asked(r, {"user"})
                  /\ Turns(r, {"user", "assistant", "model"}) = Asked(r, {"user", "assistant"})
        /\ req[r].stream /\ ~chat[r].in_range => sent[r] = NothingSent

\* An answer that the model broke off at max_tokens is never reported as
\* complete, whoever gave it; llamacpp alone does not say why it stopped, nor
\* does an ml-ops that gives no choice.
CutIsTold ==
    \A r \in Requests :
        answer[r].response.ok /\ answer[r].reply.stop = "length"
            => \/ answer[r].response.finish # "Stop"
               \/ Key(r).provider = "llamacpp"
               \/ Key(r).provider = "ml-ops" /\ answer[r].reply.texts = <<>>

\* A stream that was opened is brought to its end: the last event is sent or
\* the client has gone.
StreamsEnd ==
    \A r \in Requests : fate[r] = "open" ~> req[r].phase = "done"

=============================================================================
