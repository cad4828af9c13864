SPECIFICATION RdpSpec
CONSTANTS
    EntryLimit = 5
    PixelByteLimit = 3
    Session = 1
    Sessions = {1}
    Generations <- MCGenerations
    Revisions = {}
    PatchBytes = {}
    NoPayload = NoPayload
    NoPatches <- MCNoPatches
    ForeignFormat = {}
    OverBudget = {}
    TooLarge = {}
    FullBaseline = FullBaseline
    Payloads <- MCPayloads
    FullPayloads = {FullBaseline}
    Cells <- MCCells
    Bands <- MCBands
    PduRegions <- MCPduRegions
    MaxDraws = 3
    MaxGeneration = 2
    WindowEvents = {"Resized", "ScaleFactorChanged"}
INVARIANTS
    PortAccepts
    ShowsImage
PROPERTY
    EventuallyOnScreen
CHECK_DEADLOCK FALSE
