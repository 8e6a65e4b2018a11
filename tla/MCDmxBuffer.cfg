CONSTANTS
    Threads = {t1, t2, t3}
    Addresses = {1, 4}
    UniverseLength = 2
    Values = {0, 1}
    Spans <- MCSpans
    StrayOffsets = {1, 3}
    NoThread = NoThread
    Unspecified = Unspecified
    MaxCalls = 4
SYMMETRY Symmetry
SPECIFICATION Spec
INVARIANTS TypeOK NoConflictingAccess FreshAccessAtHome
PROPERTY RefinesFrames
