----------------------------- MODULE ApiServer ------------------------------
(***************************************************************************)
(* build_router: the chat route behind the rate limiter, which the models  *)
(* and text completion routes share.                                       *)
(***************************************************************************)
EXTENDS ChatProperties, RateLimiter

apiVars == <<vars, cells>>

ApiInit == Init /\ LimiterInit

Receives(r) ==
    /\ \E header \in Headers : Take(header)
    /\ \E ask \in Asks, stream \in BOOLEAN : Receive(r, ask, stream)

\* 429, or 500 for a name without a bucket; on no book of the server.
Refuse(r) ==
    /\ req[r].phase = "new"
    /\ \E header \in Headers : Refused(header)
    /\ req' = [req EXCEPT ![r].phase = "done"]
    /\ client' = [client EXCEPT ![r] = "limited"]
    /\ UNCHANGED <<breakers, qos, requests_total, audit>>

\* GET /v1/models, POST /v1/completions: a token, and nothing else that lasts.
OtherRoute ==
    /\ \E header \in Headers : Take(header)
    /\ UNCHANGED vars

Handles(r) == Serve(r) /\ UNCHANGED cells

ApiNext ==
    \/ \E r \in Requests : Receives(r) \/ Refuse(r) \/ Handles(r)
    \/ OtherRoute
    \/ Elapse /\ UNCHANGED cells
    \/ \E p \in Limited : Replenish(p) /\ UNCHANGED vars

ApiSpec ==
    /\ ApiInit /\ [][ApiNext]_apiVars
    /\ \A r \in Requests : WF_apiVars(Handles(r))
=============================================================================
