SPECIFICATION Spec
CONSTANTS
    None = None
    p1 = p1
    p2 = p2
    b1 = b1
    b2 = b2
    ClaudeLine <- MCClaudeLine
    CodexLine <- MCCodexLine
    SessionShape <- MCSessionShape
    LedgerRow <- MCLedgerRow
    DatedRecord <- MCDatedRecord
    SessionId <- MCSessionId
    ClassOf <- MCClassOf
    Entry <- MCEntry
    IdleGap = 1
    AdjacencySeconds = 1
    MaxRecords = 4
    MaxRows = 4
    MaxDated = 3
    MaxLeaves = 7
    MaxCommits = 3
SYMMETRY Symmetric
INVARIANTS CorpusAccepted PointersResolve EpisodesStitched TimesHonest CommitmentBinds RepoEvidenceHolds
CHECK_DEADLOCK FALSE
