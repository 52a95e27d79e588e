------------------------------- MODULE MCRelease -------------------------------
(* A release built at 1, scanned and approved at 2, signed for at 3, to be   *)
(* deployed between 4 and 6; and the documents that almost say so.           *)
EXTENDS Release

MCNames == {"ann", "Ann", "bob", "req", "dep", "Dep"}
MCCasefold == [n \in MCNames |-> CASE n = "Ann" -> "ann" [] n = "Dep" -> "dep" [] OTHER -> n]
MCRoles == {"security", "operations", "owner"}
MCSigners == {"board", "runner", "laptop"}
MCCommits == {"c1", "c2"}
MCRepositories == {"registry", "mirror"}
MCImageDigests == {"sha1", "sha2"}
MCSboms == {"bom1", "bom2"}
MCPlaces == {"pay-prod", "pay-test"}
MCHosts == {"pay.svc", "status", "elsewhere"}
MCScanners == {"trivy", "cyclonedx", "zap"}
MCScanCategories == {"sca", "dast", "sast"}
MCTargets == {"prod", "test"}
MCCommands == {"scan", "scan --quiet"}
MCRulesets == {"rules1", "rules2"}
MCOwnHosts == [x \in MCPlaces \X MCTargets |-> {"pay.svc"}]
MCStart == 3
MCMaxTime == 7
MCLags == {0, 2}
MCPipelines == {"", "c1"}
MCMaxReports == 1

-----------------------------------------------------------------------------

Strict ==
    [id |-> "v2", required |-> TRUE, types |-> {"CB"}, needPlan |-> TRUE, needWindow |-> TRUE,
     maxWindow |-> 3, minApprovals |-> 2, roles |-> {"security", "operations"}, approveAfterBuild |-> TRUE,
     separate |-> TRUE, needAttestation |-> TRUE, approvalSigners |-> {"board"},
     skew |-> 1, evidenceAge |-> 2, needSubject |-> TRUE, needScanAttestations |-> TRUE,
     needSignedScans |-> TRUE, scanSigners |-> {"runner"}, bound |-> {"sca"},
     exits |-> [s \in {"trivy"} |-> {0, 1}], commands |-> [s \in {"trivy"} |-> {"scan"}],
     rulesets |-> [s \in {"trivy"} |-> "rules1"], databaseFor |-> {"trivy"},
     maxReportAge |-> 2, maxDatabaseAge |-> 4]

Lenient ==
    [Strict EXCEPT !.id = "v1", !.required = FALSE, !.types = {"CB", "SR"}, !.needPlan = FALSE,
                   !.needWindow = FALSE, !.minApprovals = 1, !.roles = {"security"},
                   !.approveAfterBuild = FALSE, !.separate = FALSE, !.needAttestation = FALSE,
                   !.approvalSigners = {}, !.needScanAttestations = FALSE,
                   !.needSignedScans = FALSE, !.scanSigners = {}, !.databaseFor = {}]

MCPolicies == {Strict, Lenient}

-----------------------------------------------------------------------------

Built == [commit |-> "c1", image |-> [repository |-> "registry", digest |-> "sha1"],
          sbom |-> "bom1", place |-> "pay-prod", target |-> "prod", host |-> "pay.svc",
          built |-> 1]

Rebuilt == [Built EXCEPT !.image.digest = "sha2", !.host = "status", !.built = 3]

MCSubjects == {Built, Rebuilt}

By(name, role, at) == [approver |-> name, role |-> role, at |-> at]

Agreed == <<By("Ann", "security", 2), By("bob", "operations", 2)>>

Good == [id |-> 7, type |-> "CB", place |-> "pay-prod", commit |-> "c1",
         requester |-> "req", deployer |-> "dep", actionable |-> TRUE,
         window |-> [start |-> 4, end |-> 6], approvals |-> Agreed, subject |-> Built]

ApprovedBy(approvals) == [Good EXCEPT !.approvals = approvals]

MCChanges ==
    {Good,
     ApprovedBy(<<By("Ann", "security", 2), By("ann", "operations", 2)>>),
     ApprovedBy(<<By("ann", "security", 2), By("ann", "operations", 2), By("bob", "security", 2)>>),
     ApprovedBy(<<By("ann", "security", 2), By("Ann", "operations", 2), By("bob", "owner", 2)>>),
     ApprovedBy(<<By("Ann", "security", 0), By("bob", "operations", 2)>>),
     ApprovedBy(<<By("Ann", "security", 2), By("bob", "operations", 4)>>),
     ApprovedBy(<<By("Dep", "security", 2), By("bob", "operations", 2)>>),
     [Good EXCEPT !.requester = "Dep"],
     [Good EXCEPT !.window = NoWindow],
     [Good EXCEPT !.window = [start |-> 2, end |-> 6]],
     [Good EXCEPT !.window = [start |-> 6, end |-> 4]],
     [Good EXCEPT !.subject = Rebuilt],
     [Good EXCEPT !.subject = NoSubject, !.commit = "c2"],
     [Good EXCEPT !.type = "SR", !.actionable = FALSE]}

Signed(c, s) == Attested(c, s, "board", 3, TRUE)

MCAttestations ==
    {Signed(c, c.subject) : c \in {c \in MCChanges : Attestable(c, c.subject)}}
    \cup {Attested(Good, Built, "board", 1, TRUE),
          Attested(Good, Built, "board", 6, TRUE),
          Attested(Good, Built, "laptop", 3, FALSE),
          [Signed(Good, Built) EXCEPT !.approvals = <<Good.approvals[2], Good.approvals[1]>>],
          [Signed(Good, Built) EXCEPT !.approvals = <<Good.approvals[1]>>],
          [Signed(Good, Built) EXCEPT !.approvals = <<>>],
          [Signed(Good, Built) EXCEPT !.id = 8]}

-----------------------------------------------------------------------------

Scanned == [report |-> "bom1", scanner |-> "trivy", category |-> "sca", commit |-> "c1",
            image |-> "sha1", target |-> "", complete |-> TRUE, exit |-> 0, command |-> "scan",
            verified |-> TRUE, signer |-> "runner", ruleset |-> "rules1", database |-> TRUE,
            updated |-> 1, started |-> 1, finished |-> 2]

Attested1(v) == [scanner |-> "trivy", category |-> "sca", digest |-> "bom1", targets |-> <<>>,
                 provenance |-> v]

MCReports ==
    {Attested1(Scanned),
     Attested1(NoProvenance),
     Attested1([Scanned EXCEPT !.image = "sha2", !.finished = 5]),
     Attested1([Scanned EXCEPT !.commit = "c2"]),
     Attested1([Scanned EXCEPT !.updated = 0, !.finished = 1]),
     Attested1([Scanned EXCEPT !.updated = NoTime, !.database = FALSE]),
     Attested1([Scanned EXCEPT !.started = 3]),
     Attested1([Scanned EXCEPT !.exit = 2, !.verified = FALSE]),
     [Attested1([Scanned EXCEPT !.scanner = "cyclonedx"]) EXCEPT !.scanner = "cyclonedx"],
     [Attested1([Scanned EXCEPT !.scanner = "cyclonedx", !.report = "bom2"])
         EXCEPT !.scanner = "cyclonedx", !.digest = "bom2"],
     [Attested1([Scanned EXCEPT !.scanner = "zap", !.category = "dast", !.target = "pay.svc"])
         EXCEPT !.scanner = "zap", !.category = "dast", !.targets = <<"pay.svc">>]}

Asked == [policy |-> Strict, target |-> "prod", image |-> Built.image, hosts |-> {},
          requireSignature |-> TRUE, resultKey |-> TRUE, dry |-> FALSE]

MCRequests ==
    {Asked,
     [Asked EXCEPT !.policy = Lenient],
     [Asked EXCEPT !.policy = Lenient, !.image = Rebuilt.image, !.hosts = {"status"}],
     [Asked EXCEPT !.image.repository = "mirror"],
     [Asked EXCEPT !.target = "test"],
     [Asked EXCEPT !.dry = TRUE, !.requireSignature = FALSE, !.resultKey = FALSE],
     [Asked EXCEPT !.requireSignature = FALSE]}
=============================================================================
