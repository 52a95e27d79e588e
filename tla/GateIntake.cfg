CONSTANTS
    Paths <- MCPaths
    Inodes <- MCInodes
    Contents <- MCContents
    Blocks <- MCBlocks
    MaxFile = 3
    MaxTotal = 6
    MaxFiles = 4
    Chunk = 2
    NoCopy = NoCopy
    PolicyPath = "policy"
    ReportPaths <- MCReportPaths
    AttestationPaths <- MCAttestationPaths
    Scenarios <- MCScenarios
SPECIFICATION Spec
INVARIANTS WithinBudgets OneSetOfBytes NothingReportedIsLost LicensesHonoured
CHECK_DEADLOCK FALSE
