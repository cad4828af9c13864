SPECIFICATION AppleSpec
CONSTANTS
    EntryLimit = 5
    PixelByteLimit = 3
    Session = 1
    Sessions = {1}
    Generations <- MCGenerations
    Revisions = {}
    PatchBytes = {}
    NoPayload = NoPayload
    NoPatches <- MCNoPatches
    ForeignFormat = {}
    OverBudget = {}
    TooLarge = {}
    FullBaseline = FullBaseline
    Payloads <- MCPayloads
    FullPayloads = {FullBaseline}
    Cells <- MCCells
    Bands <- MCBands
    MaxDraws = 4
    MaxGeneration = 2
    WindowEvents = {}
INVARIANT
    OverflowRecovers
CHECK_DEADLOCK FALSE
