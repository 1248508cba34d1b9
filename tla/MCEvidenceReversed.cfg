SPECIFICATION Spec
CONSTANTS
    None = None
    p1 = p1
    p2 = p2
    b1 = b1
    b2 = b2
    ClaudeLine <- MCClaudeLine
    CodexLine <- MCCodexLine
    SessionShape <- MCSessionShape
    LedgerRow <- MCLedgerRow
    DatedRecord <- MCDatedRecord
    SessionId <- MCSessionId
    ClassOf <- MCClassOf
    Entry <- MCEntry
    IdleGap = 1
    AdjacencySeconds = 1
    MaxRecords = 2
    MaxRows = 3
    MaxDated = 1
    MaxLeaves = 2
    MaxCommits = 2
SYMMETRY Symmetric
INVARIANTS ReversedIsUnknown
CHECK_DEADLOCK FALSE
