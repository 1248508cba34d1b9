SPECIFICATION SpecDiskFull
CONSTANTS
    Proc <- MCProc
    Scanner <- MCScanner
    NoProc <- MCNoProc
    Key <- MCKey
    NoKey <- MCNoKey
    MaxOps = 2
    MaxCrashes = 0
INVARIANTS AckedKept
CHECK_DEADLOCK FALSE
