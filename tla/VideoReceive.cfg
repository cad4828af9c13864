SPECIFICATION Spec
CONSTANTS
    SequenceSpace = 16
    ReorderWindow = 3
    FirstNumber = 13
    ReplayWindow = 7
    MaxRetired = 1
    MaxPackets = 7
    MaxStreams = 2
INVARIANTS
    WholePictures
    NoSilentGap
    Authenticates
PROPERTIES ReferencesKept
\* The server stops sending, and reordering at the start ends the session.
CHECK_DEADLOCK FALSE
