SPECIFICATION DeliverySpec
CONSTANTS
    EntryLimit = 3
    PixelByteLimit = 3
    Session = 1
    Sessions = {1}
    Generations = {0, 1, 2, 3, 4, 5}
    Revisions = {1, 2}
    PatchBytes = {0, 1, 2}
    NoPayload = NoPayload
    NoPatches = NoPatches
    Payloads = {NoPayload, NoPatches, FullBaseline}
    FullPayloads = {FullBaseline}
    ForeignFormat = {3}
    OverBudget = {4}
    TooLarge = {5}
INVARIANTS
    WithinBudget
    OnlyOrderOrContentFails
    LayersAgree
    ReceiptsHonest
PROPERTIES
    DeliveredInOrder
    StreamKept
