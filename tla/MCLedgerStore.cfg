SPECIFICATION FairSpec
CONSTANTS
    Proc <- MCProc
    Scanner <- MCScanner
    NoProc <- MCNoProc
    Key <- MCKey
    NoKey <- MCNoKey
    MaxOps = 3
    MaxCrashes = 2
INVARIANTS TypeOK ChainIntact AckedKept EventOnce FragmentsKept
PROPERTIES ImplementsLedger TornRepaired CallsEnd
CHECK_DEADLOCK FALSE
