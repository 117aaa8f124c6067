CONSTANTS
    StatusPoll = 1
    Stale = 1
    JogAck = 1
    JogDone = 1
    MaxStarts = 2
    MaxCommands = 0
    MaxFaults = 0
    MaxWire = 1
SPECIFICATION FairSpec
INVARIANTS
    OneUnacknowledged
