---------------------------- MODULE RateLimiter ----------------------------
(***************************************************************************)
(* The limiter of the API server: a bucket of tokens for each configured   *)
(* provider name, and the middleware that takes a token from the bucket    *)
(* the X-Provider header names, whatever provider the request is for.      *)
(***************************************************************************)
EXTENDS Naturals

CONSTANTS
    Headers,        \* values of X-Provider, NoHeader among them
    NoHeader,
    DefaultBucket,  \* the bucket of a request without the header
    Limited,        \* the names configure_provider was called with
    Burst           \* burst_size of each

ASSUME LimiterAssumption ==
    /\ DefaultBucket \in Limited
    /\ Burst \in [Limited -> Nat \ {0}]

VARIABLES cells   \* cells[p]: requests p's bucket lets through now

LimiterTypeOK == \A p \in Limited : cells[p] \in 0 .. Burst[p]

LimiterInit == cells = Burst

ExtractProvider(header) == IF header = NoHeader THEN DefaultBucket ELSE header

\* check_limit; a name without a bucket is an error, not a pass.
Check(p) ==
    IF p \notin Limited THEN "not_configured"
    ELSE IF cells[p] = 0 THEN "exceeded" ELSE "ok"

Take(header) ==
    LET p == ExtractProvider(header) IN
    /\ Check(p) = "ok"
    /\ cells' = [cells EXCEPT ![p] = @ - 1]

Refused(header) ==
    /\ Check(ExtractProvider(header)) # "ok"
    /\ UNCHANGED cells

Replenish(p) ==
    /\ cells[p] < Burst[p]
    /\ cells' = [cells EXCEPT ![p] = @ + 1]
=============================================================================
