CONSTANTS
    MaxStack = 8
    Debounce = 2
    LongPress = 3
SPECIFICATION Spec
INVARIANTS
    TypeOK
    NavigationAlive
    MotionOwner
    OnePressOneEvent
PROPERTIES
    ConfirmedCommand
