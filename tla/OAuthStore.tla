----------------------------- MODULE OAuthStore -----------------------------
(***************************************************************************)
(* The gateway's authorization server and the middleware that asks it: two *)
(* tables in memory, each behind a mutex of its own that is never held     *)
(* over an await, so a critical section is one step and everything between *)
(* two of them can interleave, be abandoned by the client, or be cut off   *)
(* by the end of the process.                                              *)
(*                                                                         *)
(* A code is named for the consent that made it, a token for the token     *)
(* request that got it: both are fresh UUIDs.                              *)
(***************************************************************************)
EXTENDS Naturals, FiniteSets

CONSTANTS
    Codes,        \* POSTs of the consent page
    Requests,     \* POSTs to /token
    CodeTTL,
    TokenTTL,
    MaxTime,      \* bound: how far the clock runs
    MaxStarts     \* bound: how often the process is started

ASSUME OAuthAssumption ==
    /\ CodeTTL \in Nat \ {0} /\ TokenTTL \in Nat \ {0}
    /\ Requests \cap {"fresh", "open", "void"} = {}
    /\ MaxTime \in Nat /\ MaxStarts \in Nat

VARIABLES
    now,
    starts,     \* how often the process has been started
    codes,      \* the keys of the table of codes
    code,       \* code[c]: how far the consent is, and when it was given
    tokens,     \* the keys of the table of tokens
    request,    \* request[r]: what it asks, how far it is, what it got and when
    served      \* history: the tokens the middleware has let through

oauthVars == <<now, starts, codes, code, tokens, request, served>>

Stages == {"none", "minted", "sent", "lost"}

RequestPhases ==
    {"idle",
     "asking",    \* about to exchange its code
     "issuing",   \* has a token that is in no table yet
     "issued",
     "told",      \* the client has the token
     "refused",
     "gone",      \* the client left
     "past"}      \* of an earlier process

Gains == {"nothing", "code", "token"}

OAuthTypeOK ==
    /\ now \in 0 .. MaxTime /\ starts \in 1 .. MaxStarts \union {1}
    /\ codes \subseteq Codes /\ tokens \subseteq Requests
    /\ code \in [Codes -> [stage : Stages, at : 0 .. MaxTime]]
    /\ request \in [Requests -> [code : Codes \union {"none"}, fits : BOOLEAN,
                                 got : Gains, phase : RequestPhases, at : 0 .. MaxTime]]
    /\ served \subseteq Requests

OAuthInit ==
    /\ now = 0 /\ starts = 1
    /\ codes = {} /\ tokens = {}
    /\ code = [c \in Codes |-> [stage |-> "none", at |-> 0]]
    /\ request = [r \in Requests |-> [code |-> "none", fits |-> FALSE, got |-> "nothing",
                                      phase |-> "idle", at |-> 0]]
    /\ served = {}

CodeAge(c) == now - code[c].at

TokenAge(r) == now - request[r].at

-----------------------------------------------------------------------------
(* Codes.                                                                  *)

\* authorize_submit takes the time, then waits for the table.
Consent(c) ==
    /\ code[c].stage = "none"
    /\ code' = [code EXCEPT ![c] = [stage |-> "minted", at |-> now]]
    /\ UNCHANGED <<now, starts, codes, tokens, request, served>>

\* Old codes are swept out, and the redirect tells the client the code.
StoreCode(c) ==
    /\ code[c].stage = "minted"
    /\ codes' = {d \in codes : CodeAge(d) < CodeTTL} \union {c}
    /\ code' = [code EXCEPT ![c].stage = "sent"]
    /\ UNCHANGED <<now, starts, tokens, request, served>>

LeaveConsent(c) ==
    /\ code[c].stage = "minted"
    /\ code' = [code EXCEPT ![c].stage = "lost"]
    /\ UNCHANGED <<now, starts, codes, tokens, request, served>>

-----------------------------------------------------------------------------
(* Tokens.                                                                 *)

Becomes(r, phase) == request' = [request EXCEPT ![r].phase = phase]

\* Any code may be asked for, with parameters that fit it or do not: its
\* redirect_uri, its client_id and a verifier whose hash is its challenge.
Ask(r) ==
    /\ request[r].phase = "idle"
    /\ \E c \in Codes, fits \in BOOLEAN :
        request' = [request EXCEPT ![r].phase = "asking", ![r].code = c, ![r].fits = fits]
    /\ UNCHANGED <<now, starts, codes, code, tokens, served>>

WrongGrantType(r) ==
    /\ request[r].phase = "idle"
    /\ Becomes(r, "refused")
    /\ UNCHANGED <<now, starts, codes, code, tokens, served>>

Good(r) ==
    /\ request[r].code \in codes
    /\ CodeAge(request[r].code) < CodeTTL
    /\ request[r].fits

Win(r) == request' = [request EXCEPT ![r].phase = "issuing", ![r].got = "code"]

\* Mutant: the code leaves the table when it is found wrong or old only.
ExchangeKeeps(r) ==
    /\ request[r].phase = "asking"
    /\ IF Good(r) THEN Win(r) /\ UNCHANGED codes
                  ELSE Becomes(r, "refused") /\ codes' = codes \ {request[r].code}
    /\ UNCHANGED <<now, starts, code, tokens, served>>

\* The code leaves the table before anything is checked.
ExchangeCode(r) ==
    /\ request[r].phase = "asking"
    /\ codes' = codes \ {request[r].code}
    /\ IF Good(r) THEN Win(r) ELSE Becomes(r, "refused")
    /\ UNCHANGED <<now, starts, code, tokens, served>>

\* Mutant: the sweep of one table uses the lifetime of the other.
IssueSweepsEarly(r) ==
    /\ request[r].phase = "issuing"
    /\ tokens' = {s \in tokens : TokenAge(s) < CodeTTL} \union {r}
    /\ request' = [request EXCEPT ![r].phase = "issued", ![r].got = "token", ![r].at = now]
    /\ UNCHANGED <<now, starts, codes, code, served>>

IssueToken(r) ==
    /\ request[r].phase = "issuing"
    /\ tokens' = {s \in tokens : TokenAge(s) < TokenTTL} \union {r}
    /\ request' = [request EXCEPT ![r].phase = "issued", ![r].got = "token", ![r].at = now]
    /\ UNCHANGED <<now, starts, codes, code, served>>

Tell(r) ==
    /\ request[r].phase = "issued"
    /\ Becomes(r, "told")
    /\ UNCHANGED <<now, starts, codes, code, tokens, served>>

\* The connection goes while the request waits for a table or is answered.
Leave(r) ==
    /\ request[r].phase \in {"asking", "issuing", "issued"}
    /\ Becomes(r, "gone")
    /\ UNCHANGED <<now, starts, codes, code, tokens, served>>

-----------------------------------------------------------------------------
(* The middleware, the clock and the process.                              *)

IsValidToken(r) == r \in tokens /\ TokenAge(r) < TokenTTL

\* The static token, where there is one, opens the gateway too and touches
\* neither table.
Present(r) ==
    /\ IsValidToken(r)
    /\ served' = served \union {r}
    /\ UNCHANGED <<now, starts, codes, code, tokens, request>>

Tick ==
    /\ now < MaxTime
    /\ now' = now + 1
    /\ UNCHANGED <<starts, codes, code, tokens, request, served>>

\* Both tables are in memory.
Restart ==
    /\ starts < MaxStarts
    /\ starts' = starts + 1
    /\ codes' = {} /\ tokens' = {}
    /\ code' = [c \in Codes |->
            IF code[c].stage = "none" THEN code[c] ELSE [code[c] EXCEPT !.stage = "lost"]]
    /\ request' = [r \in Requests |->
            IF request[r].phase = "idle" THEN request[r]
                                         ELSE [request[r] EXCEPT !.phase = "past"]]
    /\ UNCHANGED <<now, served>>

OAuthNext ==
    \/ \E c \in Codes :
        \/ Consent(c)
        \/ StoreCode(c)
        \/ LeaveConsent(c)
    \/ \E r \in Requests :
        \/ Ask(r)
        \/ WrongGrantType(r)
        \/ ExchangeCode(r)
        \/ IssueToken(r)
        \/ Tell(r)
        \/ Leave(r)
        \/ Present(r)
    \/ Tick
    \/ Restart

OAuthSpec == OAuthInit /\ [][OAuthNext]_oauthVars

-----------------------------------------------------------------------------

Winners(c) == {r \in Requests : request[r].code = c /\ request[r].got # "nothing"}

\* What a client was told holds until its lifetime is over or the process
\* ends: the code of the redirect is in the table unless somebody tried it,
\* and the token it got opens the gateway, whatever other consents and other
\* requests sweep out.
PromisesHold ==
    /\ \A c \in Codes :
        code[c].stage = "sent" /\ CodeAge(c) < CodeTTL
            => \/ c \in codes
               \/ Winners(c) # {}
               \/ \E r \in Requests : request[r].code = c /\ request[r].phase = "refused"
    /\ \A r \in Requests : request[r].phase = "told" /\ TokenAge(r) < TokenTTL
            => IsValidToken(r)

CodeStatus(c) ==
    IF Winners(c) # {} THEN CHOOSE r \in Winners(c) : TRUE
    ELSE IF c \in codes /\ CodeAge(c) < CodeTTL THEN "open"
    ELSE IF code[c].stage \in {"none", "minted"} THEN "fresh"
    ELSE "void"

TokenStatus(r) ==
    IF IsValidToken(r) THEN "valid"
    ELSE IF request[r].got = "token" THEN "void"
    ELSE "none"

OneTime ==
    INSTANCE OneTimeCodes WITH
        code <- [c \in Codes |-> CodeStatus(c)],
        token <- [r \in Requests |-> TokenStatus(r)]

\* The store implements the one-time codes, whatever requests race for a code,
\* wherever their clients leave and the process ends: no code yields two
\* tokens, no token appears without a code, none comes back.
ImplementsOneTimeCodes == OneTime!Spec
=============================================================================
