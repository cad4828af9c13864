SPECIFICATION Spec
CONSTANTS
    FrameLimit = 1
    Sizes = {1, 2, 3}
    FirstSize = 1
    AreaLimits = {2, 3}
    MaxUser = 2
    MaxServer = 3
INVARIANTS
    InputOnItsDesktop
    NothingStuck
    AnswersFit
    SoundAnnounced
PROPERTIES
    NewestTextPublished
    QuarantineEnds
\* The loop ends when a reactivation does not match what was asked for.
CHECK_DEADLOCK FALSE
