SPECIFICATION LettersSpec
CONSTANTS
    Usize = 4096
    MAX_DEPTH = 2
    ENCRYPTED_MDU = 16
    Short = 3
    MaxBytes = 10
    one = one
    two = two
    three = three
    Hashes = {one, two, three}
    From <- MCFrom
    Stamp <- MCStamp
    Peers = {"a", "b"}
    Inbox = 1
    Capacity = 2
    Seen = 2
    Table = 1
    Queue = 2
    Merge = 2
    None = None
    MaxHeard = 4
    MaxTime = 2
    Widths = {1, 3, 4, 5}
    MaxText = 7
    Titles <- MCTitles
    Bodies <- MCBodies
    MaxThread = 2
INVARIANTS
    LxmfCorrect
    ReadingCorrect
PROPERTIES
    MailboxCorrect
SYMMETRY MCAlike
CHECK_DEADLOCK FALSE
