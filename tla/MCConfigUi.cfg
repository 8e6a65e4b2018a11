CONSTANTS
    LongMax = 11
    NoKey = NoKey
    Names = {n1, n2, n3, n4}
    InternalMax = 3
    TypedLabels <- MCTypedLabels
    TypedNumbers = {0, 2}
    MaxEdits = 2
SYMMETRY Symmetry
SPECIFICATION Spec
INVARIANTS NumbersDistinct CrashNeedsHugeLabel NeighboursAgree
PROPERTY RemoveGoesDown
