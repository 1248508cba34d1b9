SPECIFICATION FairSpec
CONSTANTS
    h1 = h1
    s1 = s1
    e1 = e1
    Hook <- MCHook
    Sweep <- MCSweep
    Enroller <- MCEnroller
    NoRecord = NoRecord
    MaxCommits = 2
    MaxFaults = 1
INVARIANTS RebindOnlyUnseen ImportedIsBeforeEnrollment
PROPERTIES EnrollmentPointFixed CommitsBound
CHECK_DEADLOCK FALSE
