CONSTANTS
    p = p
    q = q
    Runs = {p, q}
    NoRun = NoRun
    Outside = Outside
    Images <- MCImages
    Unpinned = "latest"
    Rests = {"t0"}
    Audits <- MCAudits
    Extras = {"e0", "e1"}
    Base <- MCBase
    BaseExtra = "e0"
    ImageOf <- MCImageOf
    AuditOf <- MCAuditOf
    Attempts = 2
    MaxEdits = 1
    MaxMeddles = 0
    MaxFaults = 1
    MaxLates = 0
    MaxTroubles = 2
    MaxCrashes = 1
    ForceResult = FALSE
    CleanupFails = FALSE
    SmokeEscapes = FALSE
SPECIFICATION Spec
INVARIANTS RollbackTruthful NoSilentMutation SuccessHolds JournalNotBehind
PROPERTIES ForeignStateKept SuccessStands Promise
CHECK_DEADLOCK FALSE
