SPECIFICATION NetworkSpec
CONSTANTS
    Capacity = 2
    InboxCapacity = 2
    Interval = 3
    Gaps = {1, 2}
    MaxOwn = 3
    None = None
    Boards = {"a", "b"}
    Hashes = {"h1", "h2"}
    From <- MCFrom
    To <- MCTo
    Stranger = "stranger"
    Relay = "relay"
    NoRadio = "none"
    MaxAttempts = 1
    MaxHops = 2
    MaxSends = 2
    MaxBoots = 1
INVARIANTS
    
    NothingWaitsUnderAHost
    StartingAnnounces
    
PROPERTIES
    HeardInTheEnd
    ImplementsLetter
