SPECIFICATION LiveSpec
CONSTANTS
    Reader = {r1}
    Writer = {w1}
    Tag = {ga, gb}
    high = high
    low = low
    Level = {high, low}
    MaxNodes = 2
    FirstLevel = high
    Freed = Freed
    Unset = Unset
    NoTask = NoTask
INVARIANTS LookupRegular
PROPERTIES PortLockIsReleased LookupReturns
