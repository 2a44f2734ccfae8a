CONSTANTS
    t1 = t1
    t2 = t2
    None = None
    Ids <- MCIds
    Calls <- MCCalls
    Shard <- MCShard
    Workers = 2
    Persistent = TRUE
    Submitted <- MCSubmitted
    Full = 1
    Asked <- MCAsked

SPECIFICATION Spec

INVARIANTS
    TypeOK
    StoreKeepsUp
    QueueIsKnown
    AcknowledgedMeansAll

PROPERTIES
    OverIsOver
    EveryCallReturns
