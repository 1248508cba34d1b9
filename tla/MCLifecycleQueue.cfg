SPECIFICATION FairSpec
CONSTANTS
    Hook <- MCHook
    NoProc <- MCNoProc
    Scan <- MCScan
    Event <- MCEvent
    KindOf <- MCKindOf
    Bad <- MCBad
    Refused <- MCRefused
    MaxCalls = 3
    MaxCrashes = 2
INVARIANTS AcceptedKept RecordedOnce GenerationsCount
PROPERTIES EventsFlushed HooksEnd
