SPECIFICATION LoopSpec
CONSTANTS
    c1 = c1
    c2 = c2
    bad = bad
    Configs = {c1, c2, bad}
    Valid = {c1, c2}
    Default = c1
    NoConfig = NoConfig
    LateFrames = FALSE
    Second = 1
    SymbolMax = 3
    Rates <- MCRates
    Lengths = {1, 4}
    FrameMax = 4
    SlotSymbols = 12
    SlotMin = 13
    SlotMax = 40
    Airtimes = 2
    BudgetMin = 50
    BudgetMax = 100
    Difs = 2
    CwMax = 3
    MaxHeard = 4
    Endless = FALSE
    Hold = 3
    LateReads = FALSE
    None = None
    Wishes <- MCWishes
    Boots <- MCBoots
    Impossible <- MCImpossible
    Packets <- MCPackets
    Hash <- MCHash
    Room = 15
    MaxSessions = 2
    Peer = {p, q}
    Strip <- MCStrip
    Rows = 2
    Height = 2
    Plain <- MCPlain
    KeyGrid <- MCKeyGrid
    Limit = 1
    Queue = 2
    MaxLog = 2
INVARIANTS
    LoopTypeOK
    ReceivingIsTrue
    OnlyValidProgrammed
    SettledIsStored
    
    SentRightly
    AnswersCorrect
PROPERTIES
    LockedOnlyGoesBack
    EndedRightly
    ImplementsHostRule
    
    
