CONSTANTS
    Threads = {t1, t2, t3}
    Addresses = {1, 4}
    UniverseLength = 1
    Values = {0}
    Spans <- MCWideSpans
    StrayOffsets = {0, 1}
    NoThread = NoThread
    Unspecified = Unspecified
    MaxCalls = 3
SPECIFICATION FairSpec
INVARIANT ReadEndsAtHome
PROPERTIES CrashNeedsCause CallsReturn
