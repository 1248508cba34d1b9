SPECIFICATION Spec
CONSTANTS
    c1 = c1
    c2 = c2
    Cutter <- MCCutter
    Date <- MCDate
    NoFile = NoFile
    Torn = Torn
    MaxRows = 2
    MaxAtt = 2
    MaxFaults = 1
SYMMETRY MCSymmetry
CONSTRAINT OverlapBound
INVARIANTS CutsJoin CloneJoins PendingNeverPublished
PROPERTIES PublishedOnce
CHECK_DEADLOCK FALSE
