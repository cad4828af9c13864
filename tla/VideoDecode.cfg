SPECIFICATION Spec
CONSTANTS
    MaxEpochs = 2
    MaxUnits = 2
    EntryLimit = 1
    DecoderDelay = 1
INVARIANTS
    FramesOfTheirEpoch
    NoBrokenReference
PROPERTIES
    NothingAfterTheEnd
    ConfigAnswered
    CloseStops
