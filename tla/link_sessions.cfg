CONSTANTS
    SeqMod = 4
    AckTimeout = 1
    Heartbeat = 1
    LinkLost = 1
    Lease = 1
    MaxRetries = 1
    Prompt = FALSE
    NoPkt = NoPkt
    MaxChan = 2
    MaxNonce = 3
    MaxSends = 2
    MaxFaults = 0
SPECIFICATION Spec
INVARIANTS
    MotionNeedsSession
    IntentAgreement
PROPERTIES
    FreshPair
    MotionIsAuthorised
