----------------------------- MODULE OAuthProofs ----------------------------
(***************************************************************************)
(* OAuthStore keeps its promises and implements OneTimeCodes, for any      *)
(* number of consents and requests, any lifetimes and any restarts.        *)
(*                                                                         *)
(* The invariant: a code in the table has been sent, nobody has won it and *)
(* it is not coming back, for StoreCode is done with it; so it has at most *)
(* one winner.                                                             *)
(***************************************************************************)
EXTENDS OAuthStore, Integers, TLAPS

Won(r) == request[r].got # "nothing"

\* A code in the table has been sent and not been won; a won code was one.
CodesAreSpent ==
    /\ \A c \in codes : code[c].stage = "sent"
    /\ \A r \in Requests : Won(r) =>
        /\ request[r].code \in Codes
        /\ request[r].code \notin codes
        /\ code[request[r].code].stage \in {"sent", "lost"}

OneWinner ==
    \A r, s \in Requests : Won(r) /\ Won(s) /\ request[r].code = request[s].code => r = s

\* What a request has got, by how far it is.
GainsFit ==
    \A r \in Requests :
        /\ request[r].phase \in {"idle", "asking"} => request[r].got = "nothing"
        /\ request[r].phase = "asking" => request[r].code \in Codes
        /\ request[r].phase = "issuing" => request[r].got = "code"
        /\ request[r].phase \in {"issued", "told"} => request[r].got = "token"
        /\ r \in tokens => request[r].got = "token"

\* A code that was sent and is young is there, or was tried.
CodesAreThere ==
    \A c \in Codes :
        code[c].stage = "sent" /\ CodeAge(c) < CodeTTL
            => \/ c \in codes
               \/ \E r \in Requests :
                    request[r].code = c /\ (Won(r) \/ request[r].phase = "refused")

TokensAreThere ==
    \A r \in Requests :
        request[r].phase \in {"issued", "told"} /\ TokenAge(r) < TokenTTL => r \in tokens

IInv ==
    /\ OAuthTypeOK /\ CodesAreSpent /\ OneWinner /\ GainsFit
    /\ CodesAreThere /\ TokensAreThere

-----------------------------------------------------------------------------

LEMMA InitIInv == OAuthInit => IInv
    BY OAuthAssumption
    DEF OAuthInit, IInv, OAuthTypeOK, CodesAreSpent, OneWinner, GainsFit, CodesAreThere,
        TokensAreThere, Won, Stages, RequestPhases, Gains

\* A request that goes on, and nothing else.
LEMMA ToPhase ==
    ASSUME OAuthTypeOK, NEW r \in Requests, NEW p \in RequestPhases, Becomes(r, p)
    PROVE  /\ request' \in [Requests -> [code : Codes \union {"none"}, fits : BOOLEAN,
                                         got : Gains, phase : RequestPhases, at : 0 .. MaxTime]]
           /\ request'[r].phase = p
           /\ \A s \in Requests : s # r => request'[s].phase = request[s].phase
           /\ \A s \in Requests :
                /\ request'[s].code = request[s].code
                /\ request'[s].got = request[s].got
                /\ request'[s].at = request[s].at
    BY DEF OAuthTypeOK, Becomes


\* Time passes: what is kept of ages only gets weaker.
LEMMA TickIInv == IInv /\ Tick => IInv'
<1> SUFFICES ASSUME IInv, Tick PROVE IInv'
    OBVIOUS
<1>1. /\ now' = now + 1 /\ now < MaxTime
      /\ UNCHANGED <<starts, codes, code, tokens, request, served>>
    BY DEF Tick
<1>2. OAuthTypeOK'
    BY <1>1, OAuthAssumption DEF IInv, OAuthTypeOK
<1>3. CodesAreSpent' /\ OneWinner' /\ GainsFit'
    BY <1>1 DEF IInv, CodesAreSpent, OneWinner, GainsFit, Won
<1>4. /\ \A c \in Codes : CodeAge(c)' = CodeAge(c) + 1 /\ CodeAge(c) \in Int
      /\ \A r \in Requests : TokenAge(r)' = TokenAge(r) + 1 /\ TokenAge(r) \in Int
    BY <1>1, OAuthAssumption DEF IInv, OAuthTypeOK, CodeAge, TokenAge
<1>5. CodesAreThere'
    BY <1>1, <1>4, OAuthAssumption DEF IInv, CodesAreThere, Won
<1>6. TokensAreThere'
    BY <1>1, <1>4, OAuthAssumption DEF IInv, TokensAreThere
<1> QED
    BY <1>2, <1>3, <1>5, <1>6 DEF IInv

LEMMA ConsentIInv ==
    ASSUME IInv, NEW c \in Codes, Consent(c)
    PROVE  IInv'
<1>1. /\ code[c].stage = "none"
      /\ code' = [code EXCEPT ![c] = [stage |-> "minted", at |-> now]]
      /\ UNCHANGED <<now, starts, codes, tokens, request, served>>
    BY DEF Consent
<1>2. /\ code'[c].stage = "minted"
      /\ \A d \in Codes : d # c => code'[d] = code[d]
    BY <1>1 DEF IInv, OAuthTypeOK
<1>3. OAuthTypeOK'
    BY <1>1 DEF IInv, OAuthTypeOK, Stages
<1>4. CodesAreSpent'
    BY <1>1, <1>2 DEF IInv, OAuthTypeOK, CodesAreSpent, Won
<1>5. OneWinner' /\ GainsFit' /\ TokensAreThere'
    BY <1>1 DEF IInv, OneWinner, GainsFit, TokensAreThere, Won, TokenAge
<1>6. CodesAreThere'
    BY <1>1, <1>2 DEF IInv, CodesAreThere, CodeAge, Won
<1> QED
    BY <1>3, <1>4, <1>5, <1>6 DEF IInv

LEMMA LeaveConsentIInv ==
    ASSUME IInv, NEW c \in Codes, LeaveConsent(c)
    PROVE  IInv'
<1>1. /\ code[c].stage = "minted"
      /\ code' = [code EXCEPT ![c].stage = "lost"]
      /\ UNCHANGED <<now, starts, codes, tokens, request, served>>
    BY DEF LeaveConsent
<1>2. /\ code'[c].stage = "lost" /\ code'[c].at = code[c].at
      /\ \A d \in Codes : d # c => code'[d] = code[d]
    BY <1>1 DEF IInv, OAuthTypeOK
<1>3. OAuthTypeOK'
    BY <1>1 DEF IInv, OAuthTypeOK, Stages
<1>4. CodesAreSpent'
    BY <1>1, <1>2 DEF IInv, OAuthTypeOK, CodesAreSpent, Won
<1>5. OneWinner' /\ GainsFit' /\ TokensAreThere'
    BY <1>1 DEF IInv, OneWinner, GainsFit, TokensAreThere, Won, TokenAge
<1>6. CodesAreThere'
    BY <1>1, <1>2 DEF IInv, CodesAreThere, CodeAge, Won
<1> QED
    BY <1>3, <1>4, <1>5, <1>6 DEF IInv

\* The sweep takes old codes only, and this code has no winner yet.
LEMMA StoreCodeIInv ==
    ASSUME IInv, NEW c \in Codes, StoreCode(c)
    PROVE  IInv'
<1>1. /\ code[c].stage = "minted"
      /\ codes' = {d \in codes : CodeAge(d) < CodeTTL} \union {c}
      /\ code' = [code EXCEPT ![c].stage = "sent"]
      /\ UNCHANGED <<now, starts, tokens, request, served>>
    BY DEF StoreCode
<1>2. /\ code'[c].stage = "sent" /\ code'[c].at = code[c].at
      /\ \A d \in Codes : d # c => code'[d] = code[d]
    BY <1>1 DEF IInv, OAuthTypeOK
<1>3. OAuthTypeOK'
    BY <1>1 DEF IInv, OAuthTypeOK, Stages
<1>4. CodesAreSpent'
    BY <1>1, <1>2 DEF IInv, OAuthTypeOK, CodesAreSpent, Won
<1>5. OneWinner' /\ GainsFit' /\ TokensAreThere'
    BY <1>1 DEF IInv, OneWinner, GainsFit, TokensAreThere, Won, TokenAge
<1>6. \A d \in Codes : CodeAge(d)' = CodeAge(d)
    BY <1>1, <1>2 DEF CodeAge
<1>7. CodesAreThere'
    BY <1>1, <1>2, <1>6 DEF IInv, CodesAreThere, Won
<1> QED
    BY <1>3, <1>4, <1>5, <1>7 DEF IInv

\* A request moves to a phase that claims nothing it has not got.
LEMMA ToPhaseIInv ==
    ASSUME IInv, NEW r \in Requests,
           NEW p \in {"refused", "told", "gone"}, Becomes(r, p),
           p = "told" => request[r].phase = "issued",
           request[r].phase # "refused",
           UNCHANGED <<now, starts, codes, code, tokens, served>>
    PROVE  IInv'
<1>1. /\ request' \in [Requests -> [code : Codes \union {"none"}, fits : BOOLEAN,
                                    got : Gains, phase : RequestPhases, at : 0 .. MaxTime]]
      /\ request'[r].phase = p
      /\ \A s \in Requests : s # r => request'[s].phase = request[s].phase
      /\ \A s \in Requests :
            /\ request'[s].code = request[s].code
            /\ request'[s].got = request[s].got
            /\ request'[s].at = request[s].at
    BY ToPhase DEF IInv, RequestPhases
<1>2. OAuthTypeOK'
    BY <1>1 DEF IInv, OAuthTypeOK
<1>3. CodesAreSpent' /\ OneWinner'
    BY <1>1 DEF IInv, CodesAreSpent, OneWinner, Won
<1>4. GainsFit'
    BY <1>1 DEF IInv, GainsFit
<1>5. CodesAreThere'
    BY <1>1 DEF IInv, CodesAreThere, Won, CodeAge
<1>6. \A s \in Requests : TokenAge(s)' = TokenAge(s)
    BY <1>1 DEF TokenAge
<1>7. TokensAreThere'
    BY <1>1, <1>6 DEF IInv, TokensAreThere
<1> QED
    BY <1>2, <1>3, <1>4, <1>5, <1>7 DEF IInv

LEMMA AskIInv ==
    ASSUME IInv, NEW r \in Requests, Ask(r)
    PROVE  IInv'
<1>1. PICK c \in Codes, fits \in BOOLEAN :
        request' = [request EXCEPT ![r].phase = "asking", ![r].code = c, ![r].fits = fits]
    BY DEF Ask
<1>2. /\ request[r].phase = "idle"
      /\ UNCHANGED <<now, starts, codes, code, tokens, served>>
    BY DEF Ask
<1>3. /\ request' \in [Requests -> [code : Codes \union {"none"}, fits : BOOLEAN,
                                    got : Gains, phase : RequestPhases, at : 0 .. MaxTime]]
      /\ request'[r].phase = "asking" /\ request'[r].code = c
      /\ request'[r].got = request[r].got /\ request'[r].at = request[r].at
      /\ \A s \in Requests : s # r => request'[s] = request[s]
    BY <1>1 DEF IInv, OAuthTypeOK, RequestPhases
<1>4. request'[r].got = "nothing"
    BY <1>2, <1>3 DEF IInv, GainsFit
<1>5. OAuthTypeOK'
    BY <1>2, <1>3 DEF IInv, OAuthTypeOK
<1>6. CodesAreSpent' /\ OneWinner'
    BY <1>2, <1>3, <1>4 DEF IInv, CodesAreSpent, OneWinner, Won
<1>7. GainsFit'
    BY <1>2, <1>3, <1>4 DEF IInv, GainsFit
<1>8. CodesAreThere'
    BY <1>2, <1>3, <1>4 DEF IInv, CodesAreThere, GainsFit, Won, CodeAge
<1>9. TokensAreThere'
    BY <1>2, <1>3 DEF IInv, TokensAreThere, TokenAge
<1> QED
    BY <1>5, <1>6, <1>7, <1>8, <1>9 DEF IInv

\* The code leaves the table whatever comes of it; a winner finds it there, and
\* so is the only one.
LEMMA ExchangeCodeIInv ==
    ASSUME IInv, NEW r \in Requests, ExchangeCode(r)
    PROVE  IInv'
<1> DEFINE c == request[r].code
<1>1. /\ request[r].phase = "asking"
      /\ codes' = codes \ {c}
      /\ UNCHANGED <<now, starts, code, tokens, served>>
    BY DEF ExchangeCode
<1>2. c \in Codes /\ request[r].got = "nothing"
    BY <1>1 DEF IInv, GainsFit
<1>3. /\ request' \in [Requests -> [code : Codes \union {"none"}, fits : BOOLEAN,
                                    got : Gains, phase : RequestPhases, at : 0 .. MaxTime]]
      /\ \A s \in Requests : s # r => request'[s] = request[s]
      /\ request'[r].code = c /\ request'[r].at = request[r].at
      /\ \/ Good(r) /\ request'[r].phase = "issuing" /\ request'[r].got = "code"
         \/ request'[r].phase = "refused" /\ request'[r].got = "nothing"
    <2>1. CASE Good(r)
        <3>1. request' = [request EXCEPT ![r].phase = "issuing", ![r].got = "code"]
            BY <2>1 DEF ExchangeCode, Win
        <3> QED
            BY <2>1, <3>1 DEF IInv, OAuthTypeOK, RequestPhases, Gains
    <2>2. CASE ~Good(r)
        <3>1. request' = [request EXCEPT ![r].phase = "refused"]
            BY <2>2 DEF ExchangeCode, Becomes
        <3> QED
            BY <1>2, <3>1 DEF IInv, OAuthTypeOK, RequestPhases
    <2> QED
        BY <2>1, <2>2
<1>4. OAuthTypeOK'
    BY <1>1, <1>3 DEF IInv, OAuthTypeOK
<1>5. CodesAreSpent'
    <2>1. Good(r) => code[c].stage = "sent"
        BY DEF Good, IInv, CodesAreSpent
    <2> QED
        BY <1>1, <1>2, <1>3, <2>1 DEF IInv, CodesAreSpent, Won
<1>6. OneWinner'
    <2>1. \A s \in Requests : Good(r) /\ Won(s) => request[s].code # c
        BY DEF Good, IInv, CodesAreSpent
    <2> QED
        BY <1>3, <2>1 DEF IInv, OneWinner, Won
<1>7. GainsFit'
    BY <1>1, <1>2, <1>3 DEF IInv, GainsFit
<1>8. CodesAreThere'
    BY <1>1, <1>2, <1>3 DEF IInv, CodesAreThere, Won, CodeAge
<1>9. TokensAreThere'
    BY <1>1, <1>3 DEF IInv, TokensAreThere, TokenAge
<1> QED
    BY <1>4, <1>5, <1>6, <1>7, <1>8, <1>9 DEF IInv

\* The sweep takes old tokens only, and the new one is of now.
LEMMA IssueTokenIInv ==
    ASSUME IInv, NEW r \in Requests, IssueToken(r)
    PROVE  IInv'
<1>1. /\ request[r].phase = "issuing"
      /\ tokens' = {s \in tokens : TokenAge(s) < TokenTTL} \union {r}
      /\ request' = [request EXCEPT ![r].phase = "issued", ![r].got = "token", ![r].at = now]
      /\ UNCHANGED <<now, starts, codes, code, served>>
    BY DEF IssueToken
<1>2. request[r].got = "code"
    BY <1>1 DEF IInv, GainsFit
<1>3. /\ request' \in [Requests -> [code : Codes \union {"none"}, fits : BOOLEAN,
                                    got : Gains, phase : RequestPhases, at : 0 .. MaxTime]]
      /\ request'[r].phase = "issued" /\ request'[r].got = "token"
      /\ request'[r].code = request[r].code
      /\ \A s \in Requests : s # r => request'[s] = request[s]
    <2>1. PICK n : n = now
        OBVIOUS
    <2>2. request' = [request EXCEPT ![r].phase = "issued", ![r].got = "token", ![r].at = n]
        BY <1>1, <2>1
    <2>3. /\ request'[r].phase = "issued" /\ request'[r].got = "token"
          /\ request'[r].code = request[r].code
          /\ \A s \in Requests : s # r => request'[s] = request[s]
        BY <2>2 DEF IInv, OAuthTypeOK
    <2>4. n \in 0 .. MaxTime
        BY <2>1 DEF IInv, OAuthTypeOK
    <2> DEFINE S == [code : Codes \union {"none"}, fits : BOOLEAN,
                     got : Gains, phase : RequestPhases, at : 0 .. MaxTime]
               p == [request[r] EXCEPT !.phase = "issued"]
               g == [p EXCEPT !.got = "token"]
               q == [g EXCEPT !.at = n]
    <2>5. p \in S
        BY DEF IInv, OAuthTypeOK, RequestPhases
    <2>6. g \in S
        <3> HIDE DEF p
        <3> QED
            BY <2>5 DEF Gains
    <2>7. q \in S
        <3> HIDE DEF p, g
        <3> QED
            BY <2>4, <2>6
    <2>8. request' = [request EXCEPT ![r] = q]
        BY <2>2 DEF IInv, OAuthTypeOK
    <2>9. request' \in [Requests -> S]
        <3> HIDE DEF p, g, q, S
        <3>1. request \in [Requests -> S]
            BY DEF IInv, OAuthTypeOK, S
        <3> QED
            BY <2>7, <2>8, <3>1
    <2> QED
        BY <2>3, <2>9
<1>4. OAuthTypeOK'
    BY <1>1, <1>3 DEF IInv, OAuthTypeOK
<1>5. CodesAreSpent' /\ OneWinner'
    BY <1>1, <1>2, <1>3 DEF IInv, CodesAreSpent, OneWinner, Won
<1>6. GainsFit'
    BY <1>1, <1>3 DEF IInv, GainsFit
<1>7. CodesAreThere'
    BY <1>1, <1>2, <1>3 DEF IInv, CodesAreThere, Won, CodeAge
<1>8. \A s \in Requests : s # r => TokenAge(s)' = TokenAge(s)
    BY <1>1, <1>3 DEF TokenAge
<1>9. TokensAreThere'
    BY <1>1, <1>3, <1>8 DEF IInv, TokensAreThere
<1> QED
    BY <1>4, <1>5, <1>6, <1>7, <1>9 DEF IInv

LEMMA RestartIInv == IInv /\ Restart => IInv'
<1> SUFFICES ASSUME IInv, Restart PROVE IInv'
    OBVIOUS
<1>1. /\ starts < MaxStarts /\ starts' = starts + 1
      /\ codes' = {} /\ tokens' = {}
      /\ code' = [c \in Codes |->
            IF code[c].stage = "none" THEN code[c] ELSE [code[c] EXCEPT !.stage = "lost"]]
      /\ request' = [r \in Requests |->
            IF request[r].phase = "idle" THEN request[r]
                                         ELSE [request[r] EXCEPT !.phase = "past"]]
      /\ UNCHANGED <<now, served>>
    BY DEF Restart
<1>2. \A c \in Codes : /\ code'[c] \in [stage : Stages, at : 0 .. MaxTime]
                       /\ code'[c].stage \in {"none", "lost"}
                       /\ code[c].stage # "none" => code'[c].stage = "lost"
    BY <1>1 DEF IInv, OAuthTypeOK, Stages
<1>3. \A r \in Requests :
        /\ request'[r] \in [code : Codes \union {"none"}, fits : BOOLEAN,
                            got : Gains, phase : RequestPhases, at : 0 .. MaxTime]
        /\ request'[r].phase \in {"idle", "past"}
        /\ request'[r].phase = "idle" => request[r].phase = "idle"
        /\ request'[r].code = request[r].code /\ request'[r].got = request[r].got
    BY <1>1 DEF IInv, OAuthTypeOK, RequestPhases
<1>4. OAuthTypeOK'
    <2>1. starts' \in 1 .. MaxStarts /\ now' \in 0 .. MaxTime /\ served' \subseteq Requests
        BY <1>1, OAuthAssumption DEF IInv, OAuthTypeOK
    <2>2. code' \in [Codes -> [stage : Stages, at : 0 .. MaxTime]]
        BY <1>1, <1>2
    <2>3. request' \in [Requests -> [code : Codes \union {"none"}, fits : BOOLEAN,
                                    got : Gains, phase : RequestPhases, at : 0 .. MaxTime]]
        BY <1>1, <1>3
    <2> QED
        BY <1>1, <2>1, <2>2, <2>3 DEF OAuthTypeOK
<1>5. CodesAreSpent'
    BY <1>1, <1>2, <1>3 DEF IInv, CodesAreSpent, Won
<1>6. OneWinner' /\ GainsFit'
    BY <1>1, <1>3 DEF IInv, OneWinner, GainsFit, Won
<1>7. CodesAreThere' /\ TokensAreThere'
    BY <1>2, <1>3 DEF CodesAreThere, TokensAreThere
<1> QED
    BY <1>4, <1>5, <1>6, <1>7 DEF IInv

LEMMA NextIInv == IInv /\ [OAuthNext]_oauthVars => IInv'
<1> SUFFICES ASSUME IInv, [OAuthNext]_oauthVars PROVE IInv'
    OBVIOUS
<1>1. ASSUME NEW c \in Codes, Consent(c) \/ StoreCode(c) \/ LeaveConsent(c) PROVE IInv'
    BY <1>1, ConsentIInv, StoreCodeIInv, LeaveConsentIInv
<1>2. ASSUME NEW r \in Requests, Ask(r) \/ ExchangeCode(r) \/ IssueToken(r) PROVE IInv'
    BY <1>2, AskIInv, ExchangeCodeIInv, IssueTokenIInv
<1>3. ASSUME NEW r \in Requests, WrongGrantType(r) PROVE IInv'
    <2>1. /\ Becomes(r, "refused") /\ request[r].phase = "idle"
          /\ UNCHANGED <<now, starts, codes, code, tokens, served>>
        BY <1>3 DEF WrongGrantType
    <2> QED
        BY <2>1, ToPhaseIInv
<1>4. ASSUME NEW r \in Requests, Tell(r) PROVE IInv'
    <2>1. /\ Becomes(r, "told") /\ request[r].phase = "issued"
          /\ UNCHANGED <<now, starts, codes, code, tokens, served>>
        BY <1>4 DEF Tell
    <2> QED
        BY <2>1, ToPhaseIInv
<1>5. ASSUME NEW r \in Requests, Leave(r) PROVE IInv'
    <2>1. /\ Becomes(r, "gone") /\ request[r].phase # "refused"
          /\ UNCHANGED <<now, starts, codes, code, tokens, served>>
        BY <1>5 DEF Leave
    <2> QED
        BY <2>1, ToPhaseIInv
<1>6. ASSUME UNCHANGED <<now, starts, codes, code, tokens, request>>,
             served' \subseteq Requests
      PROVE  IInv'
    BY <1>6 DEF IInv, OAuthTypeOK, CodesAreSpent, OneWinner, GainsFit, CodesAreThere,
                TokensAreThere, Won, CodeAge, TokenAge
<1>7. ASSUME NEW r \in Requests, Present(r) PROVE IInv'
    BY <1>6, <1>7 DEF Present, IInv, OAuthTypeOK
<1>8. CASE UNCHANGED oauthVars
    BY <1>6, <1>8 DEF oauthVars, IInv, OAuthTypeOK
<1> QED
    BY <1>1, <1>2, <1>3, <1>4, <1>5, <1>7, <1>8, TickIInv, RestartIInv DEF OAuthNext

LEMMA Invariance == OAuthSpec => []IInv
    BY InitIInv, NextIInv, PTL DEF OAuthSpec

\* Tables, consents and requests stay within their types.
THEOREM TypeCorrect == OAuthSpec => []OAuthTypeOK
<1>1. IInv => OAuthTypeOK
    BY DEF IInv
<1> QED
    BY Invariance, <1>1, PTL

\* The redirect's code is in the table until it is tried or old, and a token
\* its client was told opens the gateway for its whole lifetime, whatever is
\* swept out for others in the meantime.
THEOREM PromisesKept == OAuthSpec => []PromisesHold
<1>1. IInv => PromisesHold
    BY DEF IInv, PromisesHold, CodesAreThere, TokensAreThere, Winners, Won, IsValidToken
<1> QED
    BY Invariance, <1>1, PTL

-----------------------------------------------------------------------------
(* The refinement.  Most steps take something away or change nothing that  *)
(* OneTimeCodes sees, and both are its Lapse.                              *)

IsOpen(c) == c \in codes /\ CodeAge(c) < CodeTTL

IsFresh(c) == code[c].stage \in {"none", "minted"}

LEMMA WinnerIsStatus ==
    ASSUME IInv, NEW c \in Codes, NEW r \in Winners(c)
    PROVE  CodeStatus(c) = r
<1>1. \A s \in Winners(c) : s = r
    BY DEF IInv, OneWinner, Winners, Won
<1> QED
    BY <1>1 DEF CodeStatus

LEMMA CodeStays ==
    ASSUME NEW c \in Codes, Winners(c)' = Winners(c),
           IsOpen(c)' <=> IsOpen(c), IsFresh(c)' <=> IsFresh(c)
    PROVE  CodeStatus(c)' = CodeStatus(c)
<1>1. CodeStatus(c) = IF Winners(c) # {} THEN CHOOSE r \in Winners(c) : TRUE
                      ELSE IF IsOpen(c) THEN "open" ELSE IF IsFresh(c) THEN "fresh" ELSE "void"
    BY DEF CodeStatus, IsOpen, IsFresh
<1>2. CodeStatus(c)' = IF Winners(c)' # {} THEN CHOOSE r \in Winners(c)' : TRUE
                       ELSE IF IsOpen(c)' THEN "open" ELSE IF IsFresh(c)' THEN "fresh"
                       ELSE "void"
    BY DEF CodeStatus, IsOpen, IsFresh
<1> QED
    BY <1>1, <1>2

LEMMA CodeFades ==
    ASSUME IInv, NEW c \in Codes, Winners(c)' = Winners(c),
           IsOpen(c)' => IsOpen(c), IsFresh(c)' => IsFresh(c)
    PROVE  \/ CodeStatus(c)' = CodeStatus(c)
           \/ CodeStatus(c) \in {"fresh", "open"} /\ CodeStatus(c)' = "void"
<1>1. ~(IsOpen(c) /\ IsFresh(c))
    BY DEF IInv, CodesAreSpent, IsOpen, IsFresh
<1>2. CodeStatus(c) = IF Winners(c) # {} THEN CHOOSE r \in Winners(c) : TRUE
                      ELSE IF IsOpen(c) THEN "open" ELSE IF IsFresh(c) THEN "fresh" ELSE "void"
    BY DEF CodeStatus, IsOpen, IsFresh
<1>3. CodeStatus(c)' = IF Winners(c)' # {} THEN CHOOSE r \in Winners(c)' : TRUE
                       ELSE IF IsOpen(c)' THEN "open" ELSE IF IsFresh(c)' THEN "fresh"
                       ELSE "void"
    BY DEF CodeStatus, IsOpen, IsFresh
<1> QED
    BY <1>1, <1>2, <1>3

LEMMA TokenFades ==
    ASSUME IInv, NEW r \in Requests,
           IsValidToken(r)' => IsValidToken(r),
           (request[r].got = "token")' <=> request[r].got = "token"
    PROVE  \/ TokenStatus(r)' = TokenStatus(r)
           \/ TokenStatus(r) = "valid" /\ TokenStatus(r)' = "void"
<1>1. IsValidToken(r) => request[r].got = "token"
    BY DEF IsValidToken, IInv, GainsFit
<1> QED
    BY <1>1 DEF TokenStatus

LEMMA Lapses ==
    ASSUME IInv,
           \A c \in Codes : \/ CodeStatus(c)' = CodeStatus(c)
                            \/ CodeStatus(c) \in {"fresh", "open"} /\ CodeStatus(c)' = "void",
           \A r \in Requests : \/ TokenStatus(r)' = TokenStatus(r)
                               \/ TokenStatus(r) = "valid" /\ TokenStatus(r)' = "void",
           UNCHANGED served
    PROVE  OneTime!Lapse
<1> DEFINE C == {c \in Codes : CodeStatus(c)' # CodeStatus(c)}
           T == {r \in Requests : TokenStatus(r)' # TokenStatus(r)}
<1>1. /\ C \subseteq {c \in Codes : CodeStatus(c) \in {"fresh", "open"}}
      /\ \A c \in Codes : CodeStatus(c)' = IF c \in C THEN "void" ELSE CodeStatus(c)
    OBVIOUS
<1>2. /\ T \subseteq {r \in Requests : TokenStatus(r) = "valid"}
      /\ \A r \in Requests : TokenStatus(r)' = IF r \in T THEN "void" ELSE TokenStatus(r)
    OBVIOUS
<1> HIDE DEF C, T
<1>3. /\ C \in SUBSET {c \in Codes : [d \in Codes |-> CodeStatus(d)][c] \in {"fresh", "open"}}
      /\ [c \in Codes |-> CodeStatus(c)']
            = [c \in Codes |-> IF c \in C THEN "void" ELSE [d \in Codes |-> CodeStatus(d)][c]]
    BY <1>1
<1>4. /\ T \in SUBSET {r \in Requests : [s \in Requests |-> TokenStatus(s)][r] = "valid"}
      /\ [r \in Requests |-> TokenStatus(r)']
            = [r \in Requests |-> IF r \in T THEN "void"
                                  ELSE [s \in Requests |-> TokenStatus(s)][r]]
    BY <1>2
<1> QED
    BY <1>3, <1>4 DEF OneTime!Lapse

\* A step that gives nothing.
LEMMA NothingGiven ==
    ASSUME IInv,
           \A c \in Codes : /\ Winners(c)' = Winners(c)
                            /\ IsOpen(c)' => IsOpen(c)
                            /\ IsFresh(c)' => IsFresh(c),
           \A r \in Requests : /\ IsValidToken(r)' => IsValidToken(r)
                               /\ (request[r].got = "token")' <=> request[r].got = "token",
           UNCHANGED served
    PROVE  OneTime!Lapse
<1>1. \A c \in Codes : \/ CodeStatus(c)' = CodeStatus(c)
                       \/ CodeStatus(c) \in {"fresh", "open"} /\ CodeStatus(c)' = "void"
    BY CodeFades
<1>2. \A r \in Requests : \/ TokenStatus(r)' = TokenStatus(r)
                          \/ TokenStatus(r) = "valid" /\ TokenStatus(r)' = "void"
    BY TokenFades
<1> QED
    BY <1>1, <1>2, Lapses

LEMMA GoesOnLapses ==
    ASSUME IInv, NEW r \in Requests, NEW p \in RequestPhases, Becomes(r, p),
           UNCHANGED <<now, starts, codes, code, tokens, served>>
    PROVE  OneTime!Lapse
<1>1. \A s \in Requests : /\ request'[s].code = request[s].code
                          /\ request'[s].got = request[s].got
                          /\ request'[s].at = request[s].at
    BY ToPhase DEF IInv
<1>2. \A c \in Codes : /\ Winners(c)' = Winners(c)
                       /\ IsOpen(c)' <=> IsOpen(c)
                       /\ IsFresh(c)' <=> IsFresh(c)
    BY <1>1 DEF Winners, IsOpen, IsFresh, CodeAge
<1>3. \A s \in Requests : IsValidToken(s)' <=> IsValidToken(s)
    BY <1>1 DEF IsValidToken, TokenAge
<1> QED
    BY <1>1, <1>2, <1>3, NothingGiven

LEMMA TickLapses ==
    ASSUME IInv, Tick
    PROVE  OneTime!Lapse
<1>1. /\ now' = now + 1 /\ now \in Nat
      /\ UNCHANGED <<starts, codes, code, tokens, request, served>>
    BY OAuthAssumption DEF Tick, IInv, OAuthTypeOK
<1>2. \A c \in Codes : CodeAge(c)' = CodeAge(c) + 1 /\ CodeAge(c) \in Int
    BY <1>1, OAuthAssumption DEF IInv, OAuthTypeOK, CodeAge
<1>3. \A r \in Requests : TokenAge(r)' = TokenAge(r) + 1 /\ TokenAge(r) \in Int
    BY <1>1, OAuthAssumption DEF IInv, OAuthTypeOK, TokenAge
<1>4. \A c \in Codes : /\ Winners(c)' = Winners(c)
                       /\ IsOpen(c)' => IsOpen(c)
                       /\ IsFresh(c)' => IsFresh(c)
    BY <1>1, <1>2, OAuthAssumption DEF Winners, IsOpen, IsFresh
<1>5. \A r \in Requests : IsValidToken(r)' => IsValidToken(r)
    BY <1>1, <1>3, OAuthAssumption DEF IsValidToken
<1> QED
    BY <1>1, <1>4, <1>5, NothingGiven

LEMMA RestartLapses ==
    ASSUME IInv, Restart
    PROVE  OneTime!Lapse
<1>1. /\ codes' = {} /\ tokens' = {} /\ UNCHANGED served
      /\ \A c \in Codes : IsFresh(c)' => IsFresh(c)
    BY DEF Restart, IInv, OAuthTypeOK, IsFresh
<1>2. \A r \in Requests : /\ request'[r].code = request[r].code
                          /\ request'[r].got = request[r].got
    BY DEF Restart, IInv, OAuthTypeOK
<1>3. \A c \in Codes : Winners(c)' = Winners(c) /\ ~IsOpen(c)'
    BY <1>1, <1>2 DEF Winners, IsOpen
<1>4. \A r \in Requests : ~IsValidToken(r)'
    BY <1>1 DEF IsValidToken
<1> QED
    BY <1>1, <1>2, <1>3, <1>4, NothingGiven

LEMMA ConsentLapses ==
    ASSUME IInv, NEW c \in Codes, Consent(c) \/ LeaveConsent(c)
    PROVE  OneTime!Lapse
<1>1. /\ code[c].stage \in {"none", "minted"} /\ code'[c].stage \in {"minted", "lost"}
      /\ \A d \in Codes : d # c => code'[d] = code[d]
      /\ UNCHANGED <<now, starts, codes, tokens, request, served>>
    BY DEF Consent, LeaveConsent, IInv, OAuthTypeOK
<1>2. c \notin codes
    BY <1>1 DEF IInv, CodesAreSpent
<1>3. \A d \in Codes : /\ Winners(d)' = Winners(d)
                       /\ IsOpen(d)' => IsOpen(d)
                       /\ IsFresh(d)' => IsFresh(d)
    BY <1>1, <1>2 DEF Winners, IsOpen, IsFresh, CodeAge
<1>4. \A r \in Requests : IsValidToken(r)' <=> IsValidToken(r)
    BY <1>1 DEF IsValidToken, TokenAge
<1> QED
    BY <1>1, <1>3, <1>4, NothingGiven

LEMMA AskLapses ==
    ASSUME IInv, NEW r \in Requests, Ask(r)
    PROVE  OneTime!Lapse
<1>1. /\ request[r].phase = "idle"
      /\ UNCHANGED <<now, starts, codes, code, tokens, served>>
      /\ \A s \in Requests : /\ request'[s].got = request[s].got
                             /\ request'[s].at = request[s].at
                             /\ s # r => request'[s] = request[s]
    BY DEF Ask, IInv, OAuthTypeOK
<1>2. request[r].got = "nothing"
    BY <1>1 DEF IInv, GainsFit
<1>3. \A c \in Codes : /\ Winners(c)' = Winners(c)
                       /\ IsOpen(c)' <=> IsOpen(c)
                       /\ IsFresh(c)' <=> IsFresh(c)
    BY <1>1, <1>2 DEF Winners, IsOpen, IsFresh, CodeAge
<1>4. \A s \in Requests : IsValidToken(s)' <=> IsValidToken(s)
    BY <1>1 DEF IsValidToken, TokenAge
<1> QED
    BY <1>1, <1>3, <1>4, NothingGiven

\* Before it is stored a code is fresh; after, it is open unless it is old
\* already, and the codes swept out were old before.
LEMMA StoreCodeOpens ==
    ASSUME IInv, NEW c \in Codes, StoreCode(c)
    PROVE  OneTime!Open(c) \/ OneTime!Lapse
<1>1. /\ code[c].stage = "minted"
      /\ codes' = {d \in codes : CodeAge(d) < CodeTTL} \union {c}
      /\ code'[c].stage = "sent" /\ code'[c].at = code[c].at
      /\ \A d \in Codes : d # c => code'[d] = code[d]
      /\ UNCHANGED <<now, starts, tokens, request, served>>
    BY DEF StoreCode, IInv, OAuthTypeOK
<1>2. /\ \A d \in Codes : Winners(d)' = Winners(d)
      /\ \A d \in Codes : CodeAge(d)' = CodeAge(d)
      /\ \A r \in Requests : TokenStatus(r)' = TokenStatus(r)
    BY <1>1 DEF Winners, CodeAge, TokenStatus, IsValidToken, TokenAge
<1>3. Winners(c) = {} /\ c \notin codes
    BY <1>1 DEF IInv, CodesAreSpent, Winners, Won
<1>4. \A d \in Codes : d # c => CodeStatus(d)' = CodeStatus(d)
    <2>1. \A d \in Codes : d # c => /\ IsOpen(d)' <=> IsOpen(d)
                                    /\ IsFresh(d)' <=> IsFresh(d)
        BY <1>1, <1>2 DEF IsOpen, IsFresh
    <2> QED
        BY <1>2, <2>1, CodeStays
<1>5. CodeStatus(c) = "fresh"
    BY <1>1, <1>3 DEF CodeStatus
<1>6. CodeStatus(c)' = IF CodeAge(c) < CodeTTL THEN "open" ELSE "void"
    BY <1>1, <1>2, <1>3 DEF CodeStatus
<1>7. CASE CodeAge(c) < CodeTTL
    <2>1. [d \in Codes |-> CodeStatus(d)']
            = [[d \in Codes |-> CodeStatus(d)] EXCEPT ![c] = "open"]
        BY <1>4, <1>6, <1>7
    <2> QED
        BY <1>1, <1>2, <1>5, <2>1 DEF OneTime!Open
<1>8. CASE ~(CodeAge(c) < CodeTTL)
    BY <1>1, <1>2, <1>4, <1>5, <1>6, <1>8, Lapses
<1> QED
    BY <1>7, <1>8

\* A request that finds the code, in time and with what fits it, is the first
\* to have it.
LEMMA ExchangeCodeGives ==
    ASSUME IInv, NEW r \in Requests, ExchangeCode(r)
    PROVE  (\E c \in Codes : OneTime!Give(c, r)) \/ OneTime!Lapse
<1>0. PICK c \in Codes : c = request[r].code
    BY DEF ExchangeCode, IInv, GainsFit
<1>1. /\ request[r].phase = "asking"
      /\ codes' = codes \ {c}
      /\ UNCHANGED <<now, starts, code, tokens, served>>
    BY <1>0 DEF ExchangeCode
<1>2. c = request[r].code /\ request[r].got = "nothing"
    BY <1>0, <1>1 DEF IInv, GainsFit
<1>3. CASE Good(r)
    <2>1. /\ request'[r].code = c /\ request'[r].got = "code" /\ request'[r].at = request[r].at
          /\ \A s \in Requests : s # r => request'[s] = request[s]
        BY <1>2, <1>3 DEF ExchangeCode, Win, IInv, OAuthTypeOK
    <2>2. Winners(c) = {} /\ CodeStatus(c) = "open"
        BY <1>2, <1>3 DEF Good, IInv, CodesAreSpent, Winners, Won, CodeStatus
    <2>3. CodeStatus(c)' = r
        <3>1. Winners(c)' = {r}
            BY <2>1, <2>2 DEF Winners
        <3> QED
            BY <3>1 DEF CodeStatus
    <2>4. \A d \in Codes : d # c => CodeStatus(d)' = CodeStatus(d)
        <3>1. \A d \in Codes : d # c => /\ Winners(d)' = Winners(d)
                                        /\ IsOpen(d)' <=> IsOpen(d)
                                        /\ IsFresh(d)' <=> IsFresh(d)
            BY <1>1, <1>2, <2>1 DEF Winners, IsOpen, IsFresh, CodeAge
        <3> QED
            BY <3>1, CodeStays
    <2>5. \A d \in Codes : CodeStatus(d) # r
        <3> SUFFICES ASSUME NEW d \in Codes PROVE CodeStatus(d) # r
            OBVIOUS
        <3>1. r \notin Winners(d)
            BY <1>2 DEF Winners
        <3>2. r \notin {"fresh", "open", "void"}
            BY OAuthAssumption
        <3> QED
            BY <3>1, <3>2 DEF CodeStatus
    <2>6. \A s \in Requests : TokenStatus(s)' = TokenStatus(s)
        BY <1>1, <1>2, <2>1 DEF TokenStatus, IsValidToken, TokenAge
    <2>7. [d \in Codes |-> CodeStatus(d)']
            = [[d \in Codes |-> CodeStatus(d)] EXCEPT ![c] = r]
        BY <2>3, <2>4
    <2>8. OneTime!Give(c, r)
        BY <1>1, <1>2, <2>2, <2>5, <2>6, <2>7 DEF OneTime!Give
    <2> QED
        BY <1>2, <2>8
<1>4. CASE ~Good(r)
    <2>1. Becomes(r, "refused")
        BY <1>4 DEF ExchangeCode
    <2>2. \A s \in Requests : /\ request'[s].code = request[s].code
                              /\ request'[s].got = request[s].got
                              /\ request'[s].at = request[s].at
        BY <2>1, ToPhase DEF IInv, RequestPhases
    <2>3. \A d \in Codes : /\ Winners(d)' = Winners(d)
                           /\ IsOpen(d)' => IsOpen(d)
                           /\ IsFresh(d)' => IsFresh(d)
        BY <1>1, <2>2 DEF Winners, IsOpen, IsFresh, CodeAge
    <2>4. \A s \in Requests : IsValidToken(s)' <=> IsValidToken(s)
        BY <1>1, <2>2 DEF IsValidToken, TokenAge
    <2> QED
        BY <1>1, <2>2, <2>3, <2>4, NothingGiven
<1> QED
    BY <1>3, <1>4

\* Only a request that has a code gets a token, once, and the tokens swept out
\* were void before.
LEMMA IssueTokenIssues ==
    ASSUME IInv, NEW r \in Requests, IssueToken(r)
    PROVE  OneTime!Issue(r)
<1>1. /\ request[r].phase = "issuing"
      /\ tokens' = {s \in tokens : TokenAge(s) < TokenTTL} \union {r}
      /\ UNCHANGED <<now, starts, codes, code, served>>
    BY DEF IssueToken
<1>2. /\ request[r].got = "code" /\ request[r].code \in Codes /\ r \notin tokens
    BY <1>1 DEF IInv, GainsFit, CodesAreSpent, Won
<1>3. /\ request'[r].got = "token" /\ request'[r].at = now
      /\ request'[r].code = request[r].code
      /\ \A s \in Requests : s # r => request'[s] = request[s]
    <2>1. PICK n : n = now
        OBVIOUS
    <2>2. request' = [request EXCEPT ![r].phase = "issued", ![r].got = "token", ![r].at = n]
        BY <2>1 DEF IssueToken
    <2> QED
        BY <2>1, <2>2 DEF IInv, OAuthTypeOK
<1>4. \A d \in Codes : CodeStatus(d)' = CodeStatus(d)
    <2>1. \A d \in Codes : /\ Winners(d)' = Winners(d)
                           /\ IsOpen(d)' <=> IsOpen(d)
                           /\ IsFresh(d)' <=> IsFresh(d)
        BY <1>1, <1>2, <1>3 DEF Winners, IsOpen, IsFresh, CodeAge
    <2> QED
        BY <2>1, CodeStays
<1>5. CodeStatus(request[r].code) = r
    <2>1. r \in Winners(request[r].code)
        BY <1>2 DEF Winners
    <2> QED
        BY <1>2, <2>1, WinnerIsStatus
<1>6. TokenStatus(r) = "none"
    BY <1>2 DEF TokenStatus, IsValidToken
<1>7. TokenStatus(r)' = "valid"
    <2>1. TokenAge(r)' = 0
        BY <1>1, <1>3 DEF TokenAge, IInv, OAuthTypeOK
    <2> QED
        BY <1>1, <2>1, OAuthAssumption DEF TokenStatus, IsValidToken
<1>8. \A s \in Requests : s # r => TokenStatus(s)' = TokenStatus(s)
    <2>1. \A s \in Requests : s # r => TokenAge(s)' = TokenAge(s)
        BY <1>1, <1>3 DEF TokenAge
    <2>2. \A s \in Requests : s # r => (IsValidToken(s)' <=> IsValidToken(s))
        BY <1>1, <2>1 DEF IsValidToken
    <2> QED
        BY <1>3, <2>2 DEF TokenStatus
<1>9. [s \in Requests |-> TokenStatus(s)']
        = [[s \in Requests |-> TokenStatus(s)] EXCEPT ![r] = "valid"]
    BY <1>7, <1>8
<1>10. [d \in Codes |-> CodeStatus(d)'] = [d \in Codes |-> CodeStatus(d)]
    BY <1>4
<1> QED
    BY <1>1, <1>2, <1>5, <1>6, <1>9, <1>10 DEF OneTime!Issue

LEMMA PresentServes ==
    ASSUME IInv, NEW r \in Requests, Present(r)
    PROVE  OneTime!Serve(r)
<1>1. /\ IsValidToken(r) /\ served' = served \union {r}
      /\ UNCHANGED <<now, codes, code, tokens, request>>
    BY DEF Present
<1>2. TokenStatus(r) = "valid"
    BY <1>1 DEF TokenStatus
<1>3. /\ \A d \in Codes : CodeStatus(d)' = CodeStatus(d)
      /\ \A s \in Requests : TokenStatus(s)' = TokenStatus(s)
    BY <1>1 DEF CodeStatus, CodeAge, Winners, TokenStatus, IsValidToken, TokenAge
<1> QED
    BY <1>1, <1>2, <1>3 DEF OneTime!Serve

LEMMA InitOneTime == OAuthInit => OneTime!Init
<1> SUFFICES ASSUME OAuthInit PROVE OneTime!Init
    OBVIOUS
<1>1. \A c \in Codes : CodeStatus(c) = "fresh"
    BY DEF OAuthInit, CodeStatus, Winners
<1>2. \A r \in Requests : TokenStatus(r) = "none"
    BY DEF OAuthInit, TokenStatus, IsValidToken
<1>3. served = {}
    BY DEF OAuthInit
<1> QED
    BY <1>1, <1>2, <1>3 DEF OneTime!Init

\* Every step of the store is a step of the one-time codes.
LEMMA NextRefines ==
    ASSUME IInv, [OAuthNext]_oauthVars
    PROVE  [OneTime!Next]_(OneTime!vars)
<1>1. ASSUME NEW c \in Codes, Consent(c) \/ LeaveConsent(c) PROVE OneTime!Next
    BY <1>1, ConsentLapses DEF OneTime!Next
<1>2. ASSUME NEW c \in Codes, StoreCode(c) PROVE OneTime!Next
    BY <1>2, StoreCodeOpens DEF OneTime!Next
<1>3. ASSUME NEW r \in Requests, Ask(r) PROVE OneTime!Next
    BY <1>3, AskLapses DEF OneTime!Next
<1>4. ASSUME NEW r \in Requests, WrongGrantType(r) \/ Tell(r) \/ Leave(r)
      PROVE  OneTime!Next
    <2>1. PICK p \in RequestPhases : Becomes(r, p)
        BY <1>4 DEF WrongGrantType, Tell, Leave, RequestPhases
    <2>2. UNCHANGED <<now, starts, codes, code, tokens, served>>
        BY <1>4 DEF WrongGrantType, Tell, Leave
    <2> QED
        BY <2>1, <2>2, GoesOnLapses DEF OneTime!Next
<1>5. ASSUME NEW r \in Requests, ExchangeCode(r) PROVE OneTime!Next
    BY <1>5, ExchangeCodeGives DEF OneTime!Next
<1>6. ASSUME NEW r \in Requests, IssueToken(r) PROVE OneTime!Next
    BY <1>6, IssueTokenIssues DEF OneTime!Next
<1>7. ASSUME NEW r \in Requests, Present(r) PROVE OneTime!Next
    BY <1>7, PresentServes DEF OneTime!Next
<1>8. CASE Tick \/ Restart
    BY <1>8, TickLapses, RestartLapses DEF OneTime!Next
<1>9. CASE UNCHANGED oauthVars
    <2>1. /\ \A d \in Codes : CodeStatus(d)' = CodeStatus(d)
          /\ \A s \in Requests : TokenStatus(s)' = TokenStatus(s)
          /\ served' = served
        BY <1>9 DEF oauthVars, CodeStatus, CodeAge, Winners, TokenStatus, IsValidToken, TokenAge
    <2> QED
        BY <2>1 DEF OneTime!vars
<1> QED
    BY <1>1, <1>2, <1>3, <1>4, <1>5, <1>6, <1>7, <1>8, <1>9 DEF OAuthNext

\* The store implements the one-time codes: no code yields two tokens, no token
\* appears without a code and none comes back, for any number of requests that
\* race, clients that leave and processes that end.
THEOREM Refinement == OAuthSpec => ImplementsOneTimeCodes
<1>1. IInv /\ [OAuthNext]_oauthVars => IInv'
    BY NextIInv
<1>2. IInv /\ [OAuthNext]_oauthVars => [OneTime!Next]_(OneTime!vars)
    BY NextRefines
<1> QED
    BY InitIInv, InitOneTime, <1>1, <1>2, PTL
    DEF OAuthSpec, ImplementsOneTimeCodes, OneTime!Spec
=============================================================================
