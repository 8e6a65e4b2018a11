CONSTANTS
    Names = {n1, n2}
    Values = {0, 1}
    Default = 0
    NoName = NoName
    NoFile = NoFile
    Overdrive = TRUE
    MaxFails = FALSE
    PatchMax = 2
    MaxCalls = 3
SPECIFICATION FairSpec
INVARIANT EveryUniverseAttached
PROPERTY SavedInTheEnd
