CONSTANTS
    c1 = c1
    c2 = c2
    None = None
    Boot = Boot
    Calls <- MCCalls
    Line <- MCLine
    Quota = 1
    MaxRuns = 2
    Codes = {k1, k2}
    k1 = k1
    k2 = k2
    Requests = {r1, r2}
    r1 = r1
    r2 = r2
    CodeTTL = 1
    TokenTTL = 2
    MaxTime = 3
    MaxStarts = 2

SPECIFICATION MCSpec

INVARIANT OneLinePerCall

CHECK_DEADLOCK FALSE
