CONSTANTS
    SeqMod = 4
    AckTimeout = 1
    Heartbeat = 1
    LinkLost = 1
    Lease = 1
    MaxRetries = 1
    Prompt = FALSE
    NoPkt = NoPkt
    MaxChan = 2
    MaxNonce = 1
    MaxSends = 5
    MaxFaults = 2
SPECIFICATION Spec
INVARIANTS
    TypeOK
    DuplicatesExact
