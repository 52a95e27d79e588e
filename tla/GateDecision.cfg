CONSTANTS
    Identifiers <- MCIdentifiers
    CVEs <- MCCVEs
    Categories <- MCCategories
    Places <- MCPlaces
    LicensePlaces <- MCLicensePlaces
    Persons <- MCPersons
    Signers <- MCSigners
    PolicyIds <- MCPolicyIds
    Targets <- MCTargets
    Digests <- MCDigests
    NoSubject = NoSubject
    NoVex = NoVex
    Policies <- MCPolicies
    Reports <- MCReports
    Subjects <- MCSubjects
    ExceptionFiles <- MCExceptionFiles
    VexFiles <- MCVexFiles
    Now <- MCNow
    MaxReports = 3
SPECIFICATION Spec
INVARIANT PassIsJustified
INVARIANT BlockIsDeserved
INVARIANT WaiversFitTheWorst
INVARIANT Accounted
INVARIANT PassWithinLimits
INVARIANT OrderIrrelevant
INVARIANT TestsReallyRan
CHECK_DEADLOCK FALSE
