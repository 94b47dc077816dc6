SPECIFICATION KeptSpec
CONSTANTS
    p1 = p1
    p2 = p2
    h1 = h1
    h2 = h2
    h3 = h3
    Peers = {p1, p2}
    Hashes = {h1, h3}
    Dest <- MCDest
    BadKeys = {p2}
    MaxAlike = 1
    Capacity = 2
    MaxAttempts = 2
    RetryTicks = 1
    AskTicks = 1
    PathTicks = 2
    AgainTicks = 1
    MaxSends = 3
    MaxStops = 1
    MaxRetries = 1
    None = None
    Phones = {p1, p2}
    Configs = {c1}
    MaxBonds = 1
    Attempts = 2
    Idle = 0
    MaxChanges = 1
    MaxPairings = 2
    MaxFaults = 2
    MaxBoots = 1
    Blank = Blank
    Nil = Nil
PROPERTIES
    RecordKept
    ChangesAreWritten
    NeverHeldForever
CHECK_DEADLOCK FALSE
