CONSTANTS
    Executions = {e1, e2}
    e1 = e1
    e2 = e2
    Sandboxes = {"s1", "s2"}
    Config <- MCConfig
    Requests = {r1, r2, r3}
    r1 = r1
    r2 = r2
    r3 = r3
    Ids = {i1}
    i1 = i1
    Processes = {p1, p2}
    p1 = p1
    p2 = p2
    Profiles = {"build-agent", "llm-executor"}
    MaxStarts = 2
    NoOne = NoOne

SPECIFICATION MCSpec

CHECK_DEADLOCK FALSE

INVARIANTS
    SandboxAccounts
    GrantsHold

PROPERTIES
    CallsReturn
