SPECIFICATION Spec
CONSTANTS
    c1 = c1
    c2 = c2
    r1 = r1
    r2 = r2
    Cmd <- MCCmd
    Run <- MCRun
    Location <- MCLocation
    MaxLocations = 1
    MaxTime = 2
    MaxCalls = 2
    MaxFaults = 1
SYMMETRY MCSymmetry
INVARIANTS EnableDecides SuccessHasReceipt
PROPERTIES RunsForgottenOnlyByRace HealthForward
CHECK_DEADLOCK FALSE
