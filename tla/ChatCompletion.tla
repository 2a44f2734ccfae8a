--------------------------- MODULE ChatCompletion ---------------------------
(***************************************************************************)
(* POST /v1/chat/completions: requests served concurrently over the shared *)
(* breakers, quality statistics, metrics and audit table.                  *)
(*                                                                         *)
(* A request runs from one await to the next without interruption; each    *)
(* such stretch is an action.  At an await the other requests go on, and   *)
(* the handler's future may be dropped, by the 30 s TimeoutLayer or by a   *)
(* client that disconnects: what it had not done yet is never done.  The   *)
(* audit row is the exception: once the sink has its statement, SQLite's   *)
(* worker thread runs it, whoever still waits for it.                      *)
(***************************************************************************)
EXTENDS CircuitBreaker, Routing

CONSTANTS
    Requests,     \* request ids; each is served once
    Names,        \* provider names
    Registered,   \* the names ProviderManager holds a provider for
    Config,       \* their breaker configurations
    AutoName,     \* the provider name "auto", which is nobody's
    AutoChain     \* the fixed candidates that "auto" stands for

ASSUME ChatAssumption ==
    /\ IsFiniteSet(Requests)
    /\ Registered \subseteq Names
    /\ Config \in [Registered -> BreakerConfig]
    /\ \A k \in Keys : k.provider \in Names
    /\ AutoName \notin Names /\ AutoName \notin Keys
    /\ AutoChain \in Seq(Keys)

VARIABLES
    breakers,        \* the breakers of ProviderManager
    qos,             \* qos[k]: statistics of key k in QoSObservatory
    req,             \* req[r]: where the handler of request r is
    requests_total,  \* the counter, by label and status; provider_errors_total
                     \* moves with its status "error"
    audit,           \* audit[r]: rows of audit_logs with request_id r
    client           \* client[r]: what the client of r has been given

vars == <<breakers, qos, req, requests_total, audit, client>>

Asks == Keys \union {AutoName}
Labels == Names \union {AutoName}
Label(ask) == IF ask = AutoName THEN AutoName ELSE ask.provider

Phases ==
    {"new",        \* not received
     "routing",    \* at the head of the loop over the ranked candidates
     "sending",    \* awaiting send_request or stream_request
     "reporting",  \* the call is over, report_result is next
     "answered",   \* create_completion returned Ok
     "auditing",   \* counted, awaiting the audit sink
     "audited",    \* the sink is through, the response is next
     "orphaned",   \* dropped while it awaited the sink
     "streaming",  \* the SSE body is being sent
     "done"}

Request ==
    [phase : Phases, ask : Asks, stream : BOOLEAN, ranked : Seq(Keys),
     pos : Nat \ {0}, ok : BOOLEAN]

Key(r) == req[r].ranked[req[r].pos]
Exhausted(r) == req[r].phase = "routing" /\ req[r].pos > Len(req[r].ranked)

TypeOK ==
    /\ breakers \in [Registered -> Breaker]
    /\ qos \in [Keys -> QosStats]
    /\ req \in [Requests -> Request]
    /\ requests_total \in [Labels -> [success : Nat, error : Nat]]
    /\ audit \in [Requests -> Seq({"ResponseSent", "RequestFailed"})]
    /\ client \in [Requests -> {"waiting", "response", "sse", "error", "gone", "limited"}]

Init ==
    /\ breakers = [p \in Registered |-> NewBreaker]
    /\ qos = [k \in Keys |-> NoStats]
    /\ req = [r \in Requests |->
                [phase |-> "new", ask |-> AutoName, stream |-> FALSE,
                 ranked |-> <<>>, pos |-> 1, ok |-> FALSE]]
    /\ requests_total = [l \in Labels |-> [success |-> 0, error |-> 0]]
    /\ audit = [r \in Requests |-> <<>>]
    /\ client = [r \in Requests |-> "waiting"]

-----------------------------------------------------------------------------

\* log_request_received writes no row; the candidates are ranked once.
Receive(r, ask, stream) ==
    /\ req[r].phase = "new"
    /\ LET candidates == IF ask = AutoName THEN AutoChain ELSE <<ask>> IN
       req' = [req EXCEPT ![r] =
                [@ EXCEPT !.phase = "routing", !.ask = ask, !.stream = stream,
                          !.ranked = SelectCandidates(candidates, qos)]]
    /\ UNCHANGED <<breakers, qos, requests_total, audit, client>>

\* Mutant: the provider is looked up without asking its breaker.
CallUnasked(r) ==
    /\ req[r].phase = "routing" /\ ~Exhausted(r)
    /\ Key(r).provider \in Registered
    /\ req' = [req EXCEPT ![r].phase = "sending"]
    /\ UNCHANGED <<breakers, qos, requests_total, audit, client>>

\* get_provider returns Some.
Call(r) ==
    /\ req[r].phase = "routing" /\ ~Exhausted(r)
    /\ LET p == Key(r).provider IN
       /\ p \in Registered
       /\ CanAttempt(breakers[p], Config[p])
       /\ breakers' = [breakers EXCEPT ![p] = AfterCanAttempt(@, Config[p])]
    /\ req' = [req EXCEPT ![r].phase = "sending"]
    /\ UNCHANGED <<qos, requests_total, audit, client>>

\* get_provider returns None: on to the next candidate.
Skip(r) ==
    /\ req[r].phase = "routing" /\ ~Exhausted(r)
    /\ LET p == Key(r).provider IN
       p \in Registered => ~CanAttempt(breakers[p], Config[p])
    /\ req' = [req EXCEPT ![r].pos = @ + 1]
    /\ UNCHANGED <<breakers, qos, requests_total, audit, client>>

\* The provider answers.  Only complete responses are observed.
Answer(r, ok) ==
    /\ req[r].phase = "sending"
    /\ req' = [req EXCEPT ![r].phase = "reporting", ![r].ok = ok]
    /\ qos' = IF req[r].stream THEN qos
              ELSE [qos EXCEPT ![Key(r)] = Observed(@, ~ok)]
    /\ UNCHANGED <<breakers, requests_total, audit, client>>

\* report_result, then the response, the stream or the next candidate.
ReportResult(r) ==
    LET p == Key(r).provider IN
    /\ req[r].phase = "reporting"
    /\ breakers' = [breakers EXCEPT ![p] =
                        IF req[r].ok THEN RecordSuccess(@, Config[p])
                                     ELSE RecordFailure(@, Config[p])]
    /\ \/ /\ req[r].ok /\ ~req[r].stream
          /\ req' = [req EXCEPT ![r].phase = "answered"]
          /\ UNCHANGED client
       \/ /\ req[r].ok /\ req[r].stream
          /\ req' = [req EXCEPT ![r].phase = "streaming"]
          /\ client' = [client EXCEPT ![r] = "sse"]
       \/ /\ ~req[r].ok
          /\ req' = [req EXCEPT ![r].phase = "routing", ![r].pos = @ + 1]
          /\ UNCHANGED client
    /\ UNCHANGED <<qos, requests_total, audit>>

\* Both branches of chat_completions up to the audit log.  The request is
\* observed again, under the name asked for; "auto" is no candidate's name,
\* so what is observed of it is never read.
Observe(r, is_error) ==
    qos' = IF req[r].ask = AutoName THEN qos
           ELSE [qos EXCEPT ![req[r].ask] = Observed(@, is_error)]

CountSuccess(r) ==
    /\ req[r].phase = "answered"
    /\ requests_total' = [requests_total EXCEPT ![Label(req[r].ask)].success = @ + 1]
    /\ Observe(r, FALSE)
    /\ req' = [req EXCEPT ![r].phase = "auditing"]
    /\ UNCHANGED <<breakers, audit, client>>

\* Mutant: the early return of a failure skips the metrics.
CountErrorUncounted(r) ==
    /\ Exhausted(r) /\ ~req[r].stream
    /\ Observe(r, TRUE)
    /\ req' = [req EXCEPT ![r].phase = "auditing", ![r].ok = FALSE]
    /\ UNCHANGED <<breakers, requests_total, audit, client>>

\* Mutant: a request nobody could serve is observed as a success.
CountErrorAsSuccess(r) ==
    /\ Exhausted(r) /\ ~req[r].stream
    /\ requests_total' = [requests_total EXCEPT ![Label(req[r].ask)].error = @ + 1]
    /\ Observe(r, FALSE)
    /\ req' = [req EXCEPT ![r].phase = "auditing", ![r].ok = FALSE]
    /\ UNCHANGED <<breakers, audit, client>>

CountError(r) ==
    /\ Exhausted(r) /\ ~req[r].stream
    /\ requests_total' = [requests_total EXCEPT ![Label(req[r].ask)].error = @ + 1]
    /\ Observe(r, TRUE)
    /\ req' = [req EXCEPT ![r].phase = "auditing", ![r].ok = FALSE]
    /\ UNCHANGED <<breakers, audit, client>>

\* Mutant: the handler of a refused stream never completes its response.
RefuseStreamSilently(r) ==
    /\ Exhausted(r) /\ req[r].stream
    /\ req' = [req EXCEPT ![r].phase = "done"]
    /\ UNCHANGED <<breakers, qos, requests_total, audit, client>>

\* A streaming request that finds no provider: the `?` returns at once.
RefuseStream(r) ==
    /\ Exhausted(r) /\ req[r].stream
    /\ req' = [req EXCEPT ![r].phase = "done"]
    /\ client' = [client EXCEPT ![r] = "error"]
    /\ UNCHANGED <<breakers, qos, requests_total, audit>>

Row(r) == IF req[r].ok THEN "ResponseSent" ELSE "RequestFailed"

\* The sink persists one row or fails, which is logged and swallowed.  It
\* does so for a handler that was dropped, too.
Persist(r, persisted) ==
    /\ req[r].phase \in {"auditing", "orphaned"}
    /\ audit' = IF persisted THEN [audit EXCEPT ![r] = Append(@, Row(r))] ELSE audit
    /\ req' = [req EXCEPT ![r].phase = IF @ = "auditing" THEN "audited" ELSE "done"]
    /\ UNCHANGED <<breakers, qos, requests_total, client>>

\* The handler is polled again and returns.
Respond(r) ==
    /\ req[r].phase = "audited"
    /\ client' = [client EXCEPT ![r] = IF req[r].ok THEN "response" ELSE "error"]
    /\ req' = [req EXCEPT ![r].phase = "done"]
    /\ UNCHANGED <<breakers, qos, requests_total, audit>>

\* The provider's stream ends, with or without an error chunk: data: [DONE].
EndStream(r) ==
    /\ req[r].phase = "streaming"
    /\ req' = [req EXCEPT ![r].phase = "done"]
    /\ UNCHANGED <<breakers, qos, requests_total, audit, client>>

\* The handler awaits, or its last await is over and it is not polled yet.
Droppable(r) ==
    /\ req[r].phase \in {"routing", "sending", "reporting", "auditing", "audited"}
    /\ ~Exhausted(r)

\* Mutant: the handler is a spawned task, which outlives its request's timeout.
DropDetached(r) ==
    /\ Droppable(r)
    /\ client[r] = "waiting"
    /\ client' = [client EXCEPT ![r] = "gone"]
    /\ UNCHANGED <<breakers, qos, req, requests_total, audit>>

\* The future is dropped at an await.
Drop(r) ==
    /\ Droppable(r)
    /\ req' = [req EXCEPT ![r].phase = IF @ = "auditing" THEN "orphaned" ELSE "done"]
    /\ client' = [client EXCEPT ![r] = "gone"]
    /\ UNCHANGED <<breakers, qos, requests_total, audit>>

Elapse ==
    /\ breakers' = [p \in Registered |-> Aged(breakers[p], Config[p])]
    /\ UNCHANGED <<qos, req, requests_total, audit, client>>

Serve(r) ==
    \/ Call(r) \/ Skip(r) \/ ReportResult(r)
    \/ \E ok \in BOOLEAN : Answer(r, ok)
    \/ CountSuccess(r) \/ CountError(r) \/ RefuseStream(r)
    \/ \E persisted \in BOOLEAN : Persist(r, persisted)
    \/ Respond(r) \/ EndStream(r)
    \/ Drop(r)

Next ==
    \/ \E r \in Requests, ask \in Asks, stream \in BOOLEAN : Receive(r, ask, stream)
    \/ \E r \in Requests : Serve(r)
    \/ Elapse

\* A handler that can go on does: tokio polls it, SQLite's thread ends every
\* statement, the providers answer or fail, and the TimeoutLayer ends a wait
\* that would not.  Nothing makes a client send a request.
Fairness == \A r \in Requests : WF_vars(Serve(r))

Spec == Init /\ [][Next]_vars /\ Fairness

=============================================================================
