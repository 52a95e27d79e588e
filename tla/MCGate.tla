-------------------------------- MODULE MCGate --------------------------------
(* Small instances of Gate: two policies, eleven reports, and documents that *)
(* are good, stale, out of scope, contradictory or malformed.                 *)
EXTENDS GateInvariant

MCIdentifiers == 1 .. 3
MCCVEs == {2, 3}
MCCategories == {"sca", "sast", "license"}
MCPlaces == {"lib", "tool", "dep"}
MCLicensePlaces == {"dep"}
MCPersons == {"ann", "bob"}
MCSigners == {"sec", "dev"}
MCPolicyIds == {"v1", "v2"}
MCTargets == {"pay", "kyc"}
MCDigests == {"sha1", "sha2"}
MCNow == 10

MCSubjects == {[target |-> "pay", digest |-> "sha1"]}

Strict ==
    [id |-> "v2", categories |-> {"sca"}, scanners |-> {}, failOnError |-> TRUE,
     minComponents |-> 2, block |-> {3, 4}, limits |-> [s \in {2} |-> 1],
     failOnUnknown |-> TRUE, requireFixes |-> FALSE, licensed |-> {"lib", "dep"},
     minCoverage |-> 0, maxFailures |-> 0, minTests |-> 0,
     exceptable |-> {"sca"}, nonExceptionable |-> {4}, needControls |-> TRUE,
     maxRenewals |-> 1, needScope |-> TRUE, skew |-> 1, maxValidity |-> 10,
     needSignedVex |-> TRUE, vexSigners |-> {"sec"}, maxVexValidity |-> 5,
     vexStates |-> {"not_affected"}, nonSuppressible |-> {4}, needJustification |-> TRUE]

Tested ==
    [Strict EXCEPT !.categories = {"sca", "test"}, !.scanners = {"junit"},
                   !.failOnError = FALSE, !.minComponents = 3,
                   !.failOnUnknown = FALSE, !.requireFixes = TRUE,
                   !.minCoverage = 50, !.minTests = 2, !.needScope = FALSE,
                   !.needControls = FALSE, !.needSignedVex = FALSE, !.vexSigners = {}]

MCPolicies == {Strict, Tested}

-----------------------------------------------------------------------------

Vulnerability(names, severity, fixed, claim) ==
    [names |-> names, category |-> "sca", place |-> "lib",
     severity |-> severity, fixed |-> fixed, claim |-> claim]

Dependency == [Vulnerability({1}, 4, FALSE, "") EXCEPT !.place = "dep"]
License(place) == [Vulnerability({1}, 0, FALSE, "") EXCEPT !.category = "license", !.place = place]

Clean == [scanner |-> "trivy", category |-> "sca", status |-> "passed", errors |-> FALSE,
          findings |-> <<>>, components |-> Invalid, coverage |-> 0,
          failures |-> 0, tests |-> Invalid, skipped |-> Invalid]

Found(scanner, findings) ==
    [Clean EXCEPT !.scanner = scanner, !.status = "findings", !.findings = findings]

JUnit(failures, skipped, tests) ==
    [Clean EXCEPT !.scanner = "junit", !.category = "test", !.failures = failures,
                  !.skipped = skipped, !.tests = tests]

MCReports ==
    {[Clean EXCEPT !.findings = <<License("lib"), Dependency>>],
     [Clean EXCEPT !.status = "error", !.errors = TRUE],
     Found("trivy", <<Vulnerability({1, 2}, 3, TRUE, ""), Vulnerability({3}, 2, FALSE, "")>>),
     Found("pip-audit", <<Vulnerability({2}, UNKNOWN, FALSE, ""),
                          Vulnerability({1}, 2, FALSE, "not_affected")>>),
     Found("grype", <<Vulnerability({2, 3}, 1, FALSE, ""), Vulnerability({2}, 4, FALSE, "")>>),
     [Found("semgrep", <<[Vulnerability({1}, 1, FALSE, "bogus") EXCEPT !.category = "sast"]>>)
         EXCEPT !.category = "sast"],
     [Found("cyclonedx", <<License("tool")>>) EXCEPT !.category = "sbom", !.components = 2],
     JUnit(0, 1, 3),
     JUnit(0, 2, 2),
     [JUnit(0, 0, 3) EXCEPT !.category = "sast"],
     [Clean EXCEPT !.scanner = "coverage.py", !.category = "test", !.coverage = 50]}

-----------------------------------------------------------------------------

Granted == [id |-> 1, fp |-> <<"sca", 2, "lib">>, revoked |-> FALSE, created |-> 5,
            expires |-> 15, owner |-> "ann", approver |-> "bob", reasoned |-> TRUE,
            controlled |-> TRUE, renewals |-> 0, category |-> "sca", severity |-> 3,
            policy |-> "v2", target |-> "pay"]

Other(e) == [e EXCEPT !.id = 2]

MCExceptionFiles ==
    {<<>>,
     <<Granted>>,
     <<[Other(Granted) EXCEPT !.revoked = TRUE], Granted>>,
     <<Granted, [Other(Granted) EXCEPT !.revoked = TRUE]>>,
     <<[Granted EXCEPT !.expires = MCNow]>>,
     <<[Granted EXCEPT !.owner = "bob"], [Other(Granted) EXCEPT !.severity = 4],
       [Granted EXCEPT !.id = 3, !.created = NoTime]>>,
     <<Granted, Granted>>}

Review == [subject |-> "sha1", signer |-> "sec", verified |-> TRUE, issued |-> 8,
             expires |-> 12, statements |->
                {[fp |-> <<"sca", 2, "lib">>, state |-> "not_affected", detailed |-> TRUE],
                 [fp |-> <<"sca", 1, "lib">>, state |-> "not_affected", detailed |-> FALSE]}]

Statements(numbers) ==
    {[fp |-> <<"sca", n, "lib">>, state |-> "not_affected", detailed |-> TRUE] : n \in numbers}

MCVexFiles ==
    {Review,
     [Review EXCEPT !.statements = Statements({2})],
     [Review EXCEPT !.statements = Statements({2}), !.expires = MCNow],
     [Review EXCEPT !.statements = Statements({2}), !.subject = "sha2", !.verified = FALSE],
     [Review EXCEPT !.statements = {}]}
=============================================================================
