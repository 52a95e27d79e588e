SPECIFICATION Spec
CONSTANTS
    Names <- MCNames
    Casefold <- MCCasefold
    Roles <- MCRoles
    Signers <- MCSigners
    Commits <- MCCommits
    Repositories <- MCRepositories
    ImageDigests <- MCImageDigests
    Sboms <- MCSboms
    Places <- MCPlaces
    Hosts <- MCHosts
    Scanners <- MCScanners
    ScanCategories <- MCScanCategories
    Targets <- MCTargets
    Commands <- MCCommands
    Rulesets <- MCRulesets
    NoTime = NoTime
    Policies <- MCPolicies
    Reports <- MCReports
    Changes <- MCChanges
    Subjects <- MCSubjects
    Attestations <- MCAttestations
    Requests <- MCRequests
    OwnHosts <- MCOwnHosts
    Start <- MCStart
    MaxTime <- MCMaxTime
    Lags <- MCLags
    Pipelines <- MCPipelines
    MaxReports <- MCMaxReports
INVARIANTS
    ApprovedByOthers
    EventsInOrder
    ScansStillFresh
    OneRelease
    PassIsDeployable
\* a malformed document ends the command
CHECK_DEADLOCK FALSE
