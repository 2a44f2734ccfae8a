CONSTANTS
    TuiLetters <- MCLetters
    TuiReplies <- MCTuiReplies
    MaxBuffer = 2
    MaxPanel = 5
    ReplNames <- MCReplNames
    ReplSystems <- MCSystems
    ReplLines <- MCLines
    ReplReplies <- MCReplReplies
    MaxLines = 3
    CliNames <- MCCliNames
    CliSystems <- MCSystems
    CliReplies <- MCCliReplies
    MaxTabs = 3
    MaxPanes = 4
    Symbols <- MCSymbols
    Direct <- MCDirect
    Generated <- MCGenerated
    MaxInput = 2
    MaxTyped = 2
    Turns = {t1, t2}
    t1 = t1
    t2 = t2
    Tools = {"echo"}
    Answers <- MCAnswers
    Results <- MCResults
    MaxIterations = 2
    Capacity = 1
    Conversations <- MCConversations
    Texts <- MCTexts
    Budgets = {0, 1, 2, 3, 5, 7}
    NoticeTokens = 2
    LookBack = 6

SPECIFICATION TerminalSpec

CHECK_DEADLOCK FALSE

INVARIANTS
    SystemPromptArrives
