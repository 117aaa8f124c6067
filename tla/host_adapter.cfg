CONSTANTS
    StatusPoll = 1
    Stale = 1
    JogAck = 1
    JogDone = 1
    MaxStarts = 2
    MaxCommands = 1
    MaxFaults = 2
    MaxWire = 1
SPECIFICATION FairSpec
INVARIANTS
    TypeOK
    JogNeedsAuthority
    JogHasCancel
PROPERTIES
    RevocationCancels
    CancelIsSent

