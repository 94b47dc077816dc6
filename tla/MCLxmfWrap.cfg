SPECIFICATION LxmfSpec
CONSTANTS
    Usize = 1024
    MAX_DEPTH = 2
    ENCRYPTED_MDU = 16
    Short = 3
    MaxBytes = 10
INVARIANTS
    CutShortIsRefused
CHECK_DEADLOCK FALSE
