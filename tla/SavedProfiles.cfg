SPECIFICATION Spec
CONSTANTS
    Keys = {here, there}
    Passwords = {right, wrong}
    Nothing = Nothing
    MaxSessions = 3
INVARIANTS
    SavedProven
    StagedEnds
    NoOrphans
PROPERTY
    WarningsHonest
