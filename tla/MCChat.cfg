CONSTANTS
    r1 = r1
    r2 = r2
    deepseek = deepseek
    llamacpp = llamacpp
    openai = openai
    chat = chat
    coder = coder
    local = local
    gpt = gpt
    None = None
    AutoName = AutoName
    Requests <- MCRequests
    Names <- MCNames
    Registered <- MCRegistered
    Config <- MCConfig
    Keys <- MCKeys
    Tiers <- MCTiers
    AutoChain <- MCAutoChain
    NoHeader = NoHeader
    Headers <- MCHeaders
    DefaultBucket = deepseek
    Limited <- MCLimited
    Burst <- MCBurst

SPECIFICATION ApiSpec

INVARIANTS
    TypeOK
    BooksAgree

PROPERTIES
    ImplementsProviderManager
    NoWorkAfterAnswer
    BanIsForever
    EveryRequestSettles
