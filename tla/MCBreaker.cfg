CONSTANTS
    deepseek = deepseek
    llamacpp = llamacpp
    unknown = unknown
    None = None
    Names <- MCNames
    Registered <- MCRegistered
    Config <- MCConfig
    MaxInFlight = 2

SPECIFICATION HSpec

INVARIANTS
    TypeOK
    BreakerInv
    CountersTellHistory

PROPERTIES
    ImplementsContract
    RecoversUnderTraffic
