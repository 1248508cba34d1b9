SPECIFICATION FairSpec
CONSTANTS
    Proc <- MCOneProc
    NoProc <- MCNoProc
    Session <- MCSession
    Item <- MCItem
    Fresh <- MCFresh
    NoItem <- MCNoItem
    NoRow = NoRow
    MaxItems = 1
    MaxRewrites = 0
    MaxCrashes = 1
PROPERTIES CrashNeverSilencesCapture
