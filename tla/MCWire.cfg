CONSTANTS
    r1 = r1
    None = None
    AutoName = AutoName
    Requests = {r1}
    Names <- MCProviders
    Registered <- MCProviders
    Config <- MCConfig
    Keys <- MCKeys
    Tiers <- MCTiers
    AutoChain <- MCAutoChain
    Chats <- MCChats
    Replies <- MCReplies
    Bodies <- MCBodies

SPECIFICATION WireSpec

INVARIANTS
    ChunksAreTheModels
    NothingLostQuietly
    ConversationArrives
    CutIsTold

PROPERTIES
    StreamsEnd
