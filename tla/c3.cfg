CONSTANTS
    Peers = {"A"}
    EventLimit = 1
    MaxAttempts = 2
    MaxSeq = 3
    MaxDown = 2
    MaxUp = 1
    Reports = {"idle"}
SPECIFICATION Spec
INVARIANTS
    TypeOK
    CancelledJogIsOver
PROPERTIES
    AcceptedWasAdmitted
