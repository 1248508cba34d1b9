SPECIFICATION Spec
CONSTANTS
    p1 = p1
    p2 = p2
    p3 = p3
    Proc <- MCProc
    NoOne = NoOne
    Kinds <- AllKinds
    MaxCalls = 4
    MaxKills = 2
    MaxLosses = 1
INVARIANTS WholeOrAbsent ReturnedKept OneKey NeverRefused
PROPERTIES CallsEnd
CHECK_DEADLOCK FALSE
