SPECIFICATION FairSpec
CONSTANTS
    Bodies <- MCBodies
    Buffer = 1
    PipeIn = 4
    PipeOut = 4
    Room = 7
    Piece = 3
    MaxIn = 2
    MaxOut = 2
    MaxSessions = 2
INVARIANTS
    HostLinkCorrect
PROPERTIES
    CommandsAreRead
