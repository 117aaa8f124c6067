CONSTANTS
    Intents = {"X+", "X-"}
    QueueLimit = 2
    Lease = 2
SPECIFICATION Spec
INVARIANTS
    TypeOK
    MotionHasOwner
PROPERTIES
    CommandsFindNoMotion
    ReleaseStopsMotion
