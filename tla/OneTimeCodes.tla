---------------------------- MODULE OneTimeCodes ----------------------------
(***************************************************************************)
(* What the OAuth store promises: a code is given to at most one request,  *)
(* only such a request gets a token, and a token is good for one stretch   *)
(* of time.  Clocks, tables and restarts are in OAuthStore.                *)
(***************************************************************************)

CONSTANTS Codes, Requests

VARIABLES
    code,     \* code[c]: "fresh", "open", "void" or the request that got it
    token,    \* token[r]: "none", "valid" or "void"
    served    \* the tokens that have opened the gateway

vars == <<code, token, served>>

Init ==
    /\ code = [c \in Codes |-> "fresh"]
    /\ token = [r \in Requests |-> "none"]
    /\ served = {}

Open(c) ==
    /\ code[c] = "fresh"
    /\ code' = [code EXCEPT ![c] = "open"]
    /\ UNCHANGED <<token, served>>

Give(c, r) ==
    /\ code[c] = "open"
    /\ \A d \in Codes : code[d] # r
    /\ code' = [code EXCEPT ![c] = r]
    /\ UNCHANGED <<token, served>>

Issue(r) ==
    /\ token[r] = "none"
    /\ \E c \in Codes : code[c] = r
    /\ token' = [token EXCEPT ![r] = "valid"]
    /\ UNCHANGED <<code, served>>

Serve(r) ==
    /\ token[r] = "valid"
    /\ served' = served \union {r}
    /\ UNCHANGED <<code, token>>

\* Time, misuse or a restart takes codes and tokens away, never gives any.
Lapse ==
    /\ \E C \in SUBSET {c \in Codes : code[c] \in {"fresh", "open"}} :
        code' = [c \in Codes |-> IF c \in C THEN "void" ELSE code[c]]
    /\ \E T \in SUBSET {r \in Requests : token[r] = "valid"} :
        token' = [r \in Requests |-> IF r \in T THEN "void" ELSE token[r]]
    /\ UNCHANGED served

Next ==
    \/ \E c \in Codes : Open(c)
    \/ \E c \in Codes, r \in Requests : Give(c, r)
    \/ \E r \in Requests : Issue(r) \/ Serve(r)
    \/ Lapse

Spec == Init /\ [][Next]_vars
=============================================================================
