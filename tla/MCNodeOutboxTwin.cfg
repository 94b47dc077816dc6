SPECIFICATION FairSpec
CONSTANTS
    p1 = p1
    p2 = p2
    h1 = h1
    h2 = h2
    h3 = h3
    Peers = {p1}
    Hashes = {h1}
    Dest <- MCDest
    BadKeys = {}
    MaxAlike = 2
    Capacity = 2
    MaxAttempts = 2
    RetryTicks = 1
    AskTicks = 1
    PathTicks = 2
    AgainTicks = 1
    MaxSends = 3
    MaxStops = 0
    MaxRetries = 0
    None = None
PROPERTIES
    NeverHeldForever
CHECK_DEADLOCK FALSE
