SPECIFICATION Spec
CONSTANTS
    p1 = p1 p2 = p2
    Posts = {p1, p2}
    HonoursDraft = FALSE
    Variants = {"v1", "v2"}
    PillarOf <- MCPillarOf
    Lookback = 1
    MaxNow = 2
    MaxSeen = 1
    MaxTests = 1
SYMMETRY Symmetry
INVARIANTS
    AccountTypeOK
    RecordedIsReal
    MeasuredWasSent
    CountedOnce
    CleanupIsSafe
    FixtureIsEvidence
PROPERTY
    DeletedStaysUnsent
CHECK_DEADLOCK FALSE
