SPECIFICATION Spec
CONSTANTS
    Debounce = 2
    Period = 5
    Delay = 6
    PadQueue = 2
    Bounce = 1
    Late = 1
    Never = Never
    Width = 4
    Height = 6
    PageHeight = 2
    AtOnce = 1
    Interval = 3
    Torn = Torn
    NoPicture = NoPicture
    MaxFaults = 1
    MaxGestures = 1
    MaxLines = 2
    Screens <- MCScreens
    Attempts = 3
    Window = 1
    Silent = 2
    Stale = 2
    Unheard = Unheard
    MaxMoves = 2
    MaxToggles = 2
    DayLength = 2
    MaxTime = 3
    MaxSentence = 4
    Slots = 2
    Talkers = {"GP","GL"}
    Unsaid = Unsaid
    MaxSent = 2
    MaxLost = 2
    CalendarDays = 800
    FirstDays <- MCFirstDays
    DeadBand = 10
    Scale = 16
    NoCell = NoCell
    MaxChanges = 3
    Counts <- MCCounts
    Pattern = 3
    MaxSounds = 3
    Capacity = 3
    Packet = 2
    OpenSettle = 2
    NotRaised = NotRaised
    MaxWritten = 6
    MaxBus = 3
    MaxReaders = 3
    MaxRuns = 3
    MaxPlugs = 2
    FlashPages = 2
    Seeds = {"s1","s2"}
    MaxBoots = 3
    MaxKeys = 4
    Burst = 2
    TopStep = 3
    MaxRefused = 1
    MaxPressed = 4
INVARIANTS
    BytesCorrect
    HandsCorrect
PROPERTIES
    GpsCorrect
    
    BringUpCorrect
    TasksGoOn
CHECK_DEADLOCK FALSE
