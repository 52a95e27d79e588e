-------------------------------- MODULE Quality --------------------------------
(***************************************************************************)
(* Thresholds of the gate: required reports, severities, inventory and     *)
(* test metrics (finguard/checks/quality.py).  Each operator gives the     *)
(* codes of the violations its check adds for policy p.                    *)
(***************************************************************************)
EXTENDS Suppression, Functions

Usable(scan) == scan.status \notin {"error", "skipped"}

RequiredScanViolations(p, scans) ==
    Raised("REQUIRED_SCAN_MISSING",
           \E c \in p.categories : \A i \in DOMAIN scans :
               scans[i].category = c => ~Usable(scans[i]))
    \cup
    Raised("REQUIRED_SCANNER_MISSING",
           \E s \in p.scanners : \A i \in DOMAIN scans :
               scans[i].scanner = s => ~Usable(scans[i]))
    \cup
    Raised("SCANNER_ERROR",
           p.failOnError /\ \E i \in DOMAIN scans : scans[i].status = "error" \/ scans[i].errors)

SbomViolations(p, scans) ==
    Raised("SBOM_INCOMPLETE",
           \E i \in DOMAIN scans :
               scans[i].scanner = "cyclonedx" /\ scans[i].components < p.minComponents)

-----------------------------------------------------------------------------

Blocking(p, active) == {f \in active : f.severity \in p.block}

Counted(active, severity) == {f \in active : f.severity = severity}

(* Mutant: the limit is off by one. *)
OverLimitByTwo(p, active) ==
    {s \in DOMAIN p.limits : Cardinality(Counted(active, s)) > p.limits[s] + 1}

OverLimit(p, active) ==
    {s \in DOMAIN p.limits : Cardinality(Counted(active, s)) > p.limits[s]}

SeverityViolations(p, active) ==
    Raised("BLOCKING_FINDINGS", Blocking(p, active) # {})
    \cup
    Raised("UNKNOWN_SEVERITY", p.failOnUnknown /\ Counted(active, UNKNOWN) # {})
    \cup
    Raised("FINDING_LIMIT_EXCEEDED", OverLimit(p, active) # {})
    \cup
    Raised("VULNERABILITY_WITHOUT_FIX",
           p.requireFixes /\ \E f \in Blocking(p, active) : f.category = "sca" /\ ~f.fixed)

(* p.licensed: components whose licence expression evaluates to ALLOWED. *)
LicenseViolations(p, inventory) ==
    Raised("LICENSE_NOT_ALLOWED", \E f \in inventory : f.place \notin p.licensed)

-----------------------------------------------------------------------------

CoverageReports(scans) == {i \in DOMAIN scans : scans[i].scanner = "coverage.py"}

(* Coverage counts only if exactly one report has it, and is 0 otherwise. *)
Coverage(scans) ==
    IF \E i \in CoverageReports(scans) :
          CoverageReports(scans) = {i} /\ scans[i].coverage # Invalid
    THEN scans[CHOOSE i \in CoverageReports(scans) : TRUE].coverage
    ELSE 0

CoverageViolations(p, scans) ==
    Raised("COVERAGE_REPORT_AMBIGUOUS", Cardinality(CoverageReports(scans)) > 1)
    \cup
    Raised("COVERAGE_METRIC_INVALID",
           \E i \in CoverageReports(scans) :
               CoverageReports(scans) = {i} /\ scans[i].coverage = Invalid)
    \cup
    Raised("COVERAGE_BELOW_THRESHOLD", Coverage(scans) < p.minCoverage)

TestReports(scans) == {i \in DOMAIN scans : scans[i].category = "test"}

(* Reports whose failures are added up, and those whose tests are. *)
FailureReports(scans) == {i \in TestReports(scans) : scans[i].failures # Invalid}

JUnitReports(scans) == {i \in FailureReports(scans) : scans[i].scanner = "junit"}

Consistent(scan) ==
    /\ scan.tests # Invalid
    /\ scan.skipped # Invalid
    /\ scan.failures + scan.skipped <= scan.tests

Failures(scans) ==
    SumFunctionOnSet([i \in DOMAIN scans |-> scans[i].failures], FailureReports(scans))

Summed(scans) == {i \in JUnitReports(scans) : Consistent(scans[i])}

(* Mutant: tests that were skipped count as run. *)
Listed(scans) == SumFunctionOnSet([i \in DOMAIN scans |-> scans[i].tests], Summed(scans))

Executed(scans) ==
    SumFunctionOnSet([i \in DOMAIN scans |-> scans[i].tests - scans[i].skipped], Summed(scans))

TestsRequired(p) == "test" \in p.categories \/ "junit" \in p.scanners

TestViolations(p, scans) ==
    Raised("TEST_METRIC_INVALID",
           \/ FailureReports(scans) # TestReports(scans)
           \/ \E i \in JUnitReports(scans) : ~Consistent(scans[i]))
    \cup
    Raised("TEST_FAILURE_LIMIT_EXCEEDED", Failures(scans) > p.maxFailures)
    \cup
    Raised("TEST_COUNT_BELOW_MINIMUM", TestsRequired(p) /\ Executed(scans) < p.minTests)
=============================================================================
