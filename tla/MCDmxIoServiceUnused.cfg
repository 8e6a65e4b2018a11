CONSTANTS
    Names = {n1, n2}
    Configs <- MCConfigs
    Loaded <- MCLoaded
    Values = {0, 1}
    Unspecified = Unspecified
    Driven = FALSE
    MaxSets = 2
    MaxCalls = 1
SPECIFICATION FairSpec
PROPERTY FramesArePublished
