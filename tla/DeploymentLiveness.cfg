CONSTANTS
    p = p
    q = q
    Runs = {p, q}
    NoRun = NoRun
    Outside = Outside
    Images <- MCImages
    Unpinned = "latest"
    Rests = {"t0"}
    Audits <- MCAudits
    Extras = {"e0"}
    Base <- MCBase
    BaseExtra = "e0"
    ImageOf <- MCImageOf
    AuditOf <- MCAuditOf
    Attempts = 2
    MaxEdits = 0
    MaxMeddles = 1
    MaxFaults = 1
    MaxLates = 1
    MaxTroubles = 1
    MaxCrashes = 1
    ForceResult = TRUE
    CleanupFails = TRUE
    SmokeEscapes = TRUE
SPECIFICATION FairSpec
INVARIANTS LockHeld ReturnMeansUnlocked
PROPERTIES Termination LockFreed
CHECK_DEADLOCK FALSE
