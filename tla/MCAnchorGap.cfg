SPECIFICATION Spec
CONSTANTS
    c1 = c1
    c2 = c2
    Cutter <- MCOneCutter
    Date <- MCDate
    NoFile = NoFile
    Torn = Torn
    MaxRows = 2
    MaxAtt = 0
    MaxFaults = 1
INVARIANTS PublishedJoins
CHECK_DEADLOCK FALSE
