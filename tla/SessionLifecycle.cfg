SPECIFICATION LifecycleSpec
CONSTANTS
    MaxSessions = 2
    MaxAttempts = 2
INVARIANTS
    SlotTracksHost
    CancelWins
    WorkersGoneInTime
PROPERTIES
    CloseLeadsToExit
    SessionEnds
    LaunchAnswers
CHECK_DEADLOCK FALSE
