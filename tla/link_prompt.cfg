CONSTANTS
    SeqMod = 4
    AckTimeout = 1
    Heartbeat = 2
    LinkLost = 5
    Lease = 2
    MaxRetries = 2
    Prompt = TRUE
    NoPkt = NoPkt
    MaxChan = 4
    MaxNonce = 8
    MaxSends = 2
    MaxFaults = 2
SPECIFICATION FairSpec
INVARIANTS
    BoundedStop
    LossHasCause
PROPERTIES
    LinkRecovers
    SendResolves
    AuthorityExpires
