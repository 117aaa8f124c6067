CONSTANTS
    Axes = {"X"}
    QueueLimit = 2
    MacroLines = 2
    JobLines = 2
    Reports = {"idle", "run"}
    MaxOwed = 2
SPECIFICATION Spec
CHECK_DEADLOCK FALSE
INVARIANTS
    TypeOK
    QueuedJogAuthorised
    AnswersMatch
    JobLineByLine
PROPERTIES
    EstopSilences
