------------------------------ MODULE MCGateway -----------------------------
(***************************************************************************)
(* Two calls, a quota of one, and one restart; or two consents and two     *)
(* requests for a token, likewise.  The tools and the OAuth store share    *)
(* nothing, so a behaviour is of one or of the other.                      *)
(***************************************************************************)
EXTENDS GatewayProperties, OAuthStore

CONSTANTS c1, c2

MCCalls == {c1, c2}
MCLine == [of : MCCalls \union {Boot}, outcome : Outcomes, run : 1 .. MaxRuns]

VARIABLE part

MCInit == Init /\ OAuthInit /\ part \in {"tools", "oauth"}

MCNext ==
    /\ UNCHANGED part
    /\ \/ part = "tools" /\ Next /\ UNCHANGED oauthVars
       \/ part = "oauth" /\ OAuthNext /\ UNCHANGED vars

mcVars == <<vars, oauthVars, part>>

\* The fairness of Gateway; OAuthStore has none.
MCSpec ==
    /\ MCInit /\ [][MCNext]_mcVars
    /\ WF_mcVars(part = "tools" /\ DiskStep /\ UNCHANGED <<oauthVars, part>>)
    /\ \A c \in Calls :
        WF_mcVars(part = "tools" /\ EmitStep(c) /\ UNCHANGED <<oauthVars, part>>)
=============================================================================
