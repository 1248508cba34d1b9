SPECIFICATION FairSpec
CONSTANTS
    Proc <- MCProc
    NoProc <- MCNoProc
    Session <- MCSession
    Item <- MCItem
    Fresh <- MCFresh
    NoItem <- MCNoItem
    NoRow = NoRow
    MaxItems = 3
    MaxRewrites = 1
    MaxCrashes = 2
INVARIANTS RowsBackedOnDisk HistoryOnlyGrows ArchiveIsCommitted
PROPERTIES LinesCaptured
