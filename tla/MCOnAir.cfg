SPECIFICATION OnAirSpec
CONSTANTS
    p1 = p1
    p2 = p2
    h1 = h1
    h2 = h2
    h3 = h3
    Peers = {p1, p2}
    Hashes = {h1, h2, h3}
    Dest <- MCDest
    BadKeys = {p2}
    MaxAlike = 1
    Capacity = 2
    MaxAttempts = 2
    RetryTicks = 1
    AskTicks = 1
    PathTicks = 2
    AgainTicks = 1
    MaxSends = 3
    MaxStops = 1
    MaxRetries = 1
    None = None
    Boards = {b1, b2}
    Stock = stock
    NSeq = 2
    Seed <- MCSeed
    FramePayload = 2
    Lengths = {2, 3, 5}
    MaxAge = 1
    Gap = 1
    MaxPackets = 3
    MaxBoots = 1
INVARIANTS
    
    NoLimbo
    HeldExactlyWhenStopped
    ConsecutiveNeverJoined
    HalvesMatch
PROPERTIES
    NothingUnderwayIsDropped
CHECK_DEADLOCK FALSE
