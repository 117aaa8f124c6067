CONSTANTS
    Networks = {"home", "shop"}
    Configured = "home"
    Attempts = 3
SPECIFICATION Spec
CHECK_DEADLOCK FALSE
INVARIANTS
    TypeOK
    ApIsolated
    CredentialsSurvive
PROPERTIES
    ReconnectionEnds
