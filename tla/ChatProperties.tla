--------------------------- MODULE ChatProperties ---------------------------
(***************************************************************************)
(* What holds of ChatCompletion, and what its documentation says that does *)
(* not.                                                                    *)
(***************************************************************************)
EXTENDS ChatCompletion

\* The calls of p that ProviderManager counts: a provider was handed out and
\* its result is still to be reported.
AtProvider(p) ==
    {r \in Requests : req[r].phase \in {"sending", "reporting"} /\ Key(r).provider = p}

PM ==
    INSTANCE ProviderManager WITH
        inflight <- [p \in Registered |-> Cardinality(AtProvider(p))],
        MaxInFlight <- Cardinality(Requests)

\* The handlers use the breakers as ProviderManager expects of its callers:
\* they only report to a provider they were handed, once per call, whatever
\* was refused, dropped or answered late in between.  With BreakerHistory this
\* makes the breaker contract hold for the whole server.
ImplementsProviderManager == PM!Spec

AskedFor(l) ==
    {r \in Requests : /\ req[r].phase # "new" /\ client[r] # "limited"
                      /\ Label(req[r].ask) = l}

Told(l, outcome) == {r \in AskedFor(l) : ~req[r].stream /\ client[r] = outcome}
Rows(l, row) == {r \in AskedFor(l) : audit[r] = <<row>>}

\* Metrics, audit table and clients agree, in every order of concurrent
\* requests and drops: a request has at most one row, what a client was told
\* or a row records was counted under the name the request asked for, and
\* nothing is counted twice.
BooksAgree ==
    /\ \A r \in Requests : Len(audit[r]) <= 1
    /\ \A l \in Labels :
        /\ Cardinality(Told(l, "response") \union Rows(l, "ResponseSent"))
              <= requests_total[l].success
        /\ Cardinality(Told(l, "error") \union Rows(l, "RequestFailed"))
              <= requests_total[l].error
        /\ requests_total[l].success + requests_total[l].error
              <= Cardinality({r \in AskedFor(l) : ~req[r].stream})

\* What may still become of r's rows: one more while its statement is with
\* the worker thread and nobody awaits it any longer.
RowsFrom(r) ==
    IF req[r].phase = "orphaned" THEN {audit[r], Append(audit[r], Row(r))} ELSE {audit[r]}

\* Once a client has its answer, its stream or is gone, nothing more is done
\* in its name: no other provider is called, no further row is handed to the
\* sink, and a stream that has started never switches providers.  Only a row
\* that was with the sink when the client left may still be committed, once.
NoWorkAfterAnswer ==
    [][\A r \in Requests :
        client[r] # "waiting" =>
            /\ client'[r] = client[r]
            /\ audit'[r] \in RowsFrom(r)
            /\ audit'[r] # audit[r] => req'[r].phase = "done"
            /\ req'[r].pos = req[r].pos
            /\ req'[r].phase \in
                ({req[r].phase} \intersect {"streaming", "orphaned"}) \union {"done"}]_vars

\* Requests whose handler may still call key k or be counted under it.
Holds(r, k) ==
    /\ ~req[r].stream
    /\ req[r].phase \in {"routing", "sending", "reporting", "answered"}
    /\ \/ req[r].ask = k /\ req[r].ranked # <<>>
       \/ \E i \in 1 .. Len(req[r].ranked) : req[r].ranked[i] = k

\* A key that the error filter excludes, while nobody is still using it, is
\* excluded for ever: requests that name it are refused before its breaker is
\* asked, and each refusal is recorded as one more error of it.
Banned(k) == Excluded(qos[k]) /\ \A r \in Requests : ~Holds(r, k)

BanIsForever == [][\A k \in Keys : Banned(k) => Banned(k)']_vars

\* Every request that was received gets an answer, a stream, an error or is
\* cut off by the timeout.
EveryRequestSettles ==
    \A r \in Requests : req[r].phase # "new" ~> client[r] # "waiting"

\* README.md: "Full audit trail of every input/output token", "Immutable record
\* of all interactions".  Violated: see the README of this directory.
EveryAnswerAudited ==
    \A r \in Requests :
        req[r].phase = "done" /\ client[r] \in {"response", "sse"}
            => audit[r] = <<"ResponseSent">>

=============================================================================
