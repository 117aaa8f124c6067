CONSTANTS
    SeqMod = 4
    AckTimeout = 1
    Heartbeat = 1
    LinkLost = 1
    Lease = 1
    MaxRetries = 1
    Prompt = FALSE
    NoPkt = NoPkt
    MaxChan = 2
    MaxNonce = 2
    MaxSends = 3
    MaxFaults = 1
SPECIFICATION Spec
INVARIANTS
    PairAgreement
    OnceInOrder
    AckedWasAccepted
