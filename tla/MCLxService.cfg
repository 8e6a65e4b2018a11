CONSTANTS
    Names = {n1, n2, n3}
    Values = {0, 1}
    Default = 0
    NoName = NoName
    NoFile = NoFile
    Overdrive = FALSE
    MaxFails = TRUE
    PatchMax = 2
    MaxCalls = 3
SYMMETRY Symmetry
SPECIFICATION Spec
INVARIANTS SavedAtRest NoUseAfterFree RowsMatchTable
PROPERTY WholeTableSaved
