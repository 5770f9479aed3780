SPECIFICATION Spec
CONSTANTS
    Reader = {r1, r2}
    Writer = {w1, w2}
    Tag = {ga, gb}
    high = high
    low = low
    Level = {high}
    MaxNodes = 2
    FirstLevel = high
    Freed = Freed
    Unset = Unset
    NoTask = NoTask
SYMMETRY MCSymmetry
INVARIANTS FilterInv NoUseAfterFree ListIsConfiguration
