CONSTANTS
    p = p
    q = q
    Runs = {p}
    NoRun = NoRun
    Outside = Outside
    Images <- MCImages
    Unpinned = "latest"
    Rests = {"t0"}
    Audits <- MCAudits
    Extras = {"e0"}
    Base <- MCBase
    BaseExtra = "e0"
    ImageOf <- MCImageOf
    AuditOf <- MCAuditOf
    Attempts = 2
    MaxEdits = 0
    MaxMeddles = 0
    MaxFaults = 0
    MaxLates = 0
    MaxTroubles = 9
    MaxCrashes = 0
    ForceResult = FALSE
    CleanupFails = FALSE
    SmokeEscapes = TRUE
SPECIFICATION Spec
INVARIANTS NoSilentMutation
CHECK_DEADLOCK FALSE
