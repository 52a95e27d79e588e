--------------------------------- MODULE Gate ---------------------------------
(***************************************************************************)
(* One evaluation of the release gate: execute_gate() reads reports and    *)
(* documents (finguard/gate_service.py), PolicyEngine.evaluate() runs the  *)
(* checks over them in a fixed order and decides (finguard/gate.py).       *)
(*                                                                         *)
(* The checks of the release itself (provenance, change, approvals) object *)
(* or not; what they look at is not in this module.                        *)
(***************************************************************************)
EXTENDS Quality, SequencesExt

CONSTANTS
    Policies,        \* what a policy file may say
    Reports,         \* what one report may contain
    ExceptionFiles,  \* what the exceptions document may contain
    Subjects,        \* what the release subject file may contain
    VexFiles,        \* what the VEX attestation may contain
    Now,             \* the time of the evaluation
    MaxReports       \* bound on the number of reports

(* What the parsers of reports and documents return, and what a policy file *)
(* cannot contain: a negative clock skew, limit or minimum (config.py:179,  *)
(* policy_validation.py:20).                                                *)
ASSUME GateAssumption ==
    /\ Now \in Nat
    /\ MaxReports \in Nat
    /\ Reports \subseteq Scan
    /\ ExceptionFiles \subseteq Seq(Exception)
    /\ VexFiles \subseteq Attestation
    /\ Subjects \subseteq Subject
    /\ \A p \in Policies : /\ p.skew \in Nat /\ p.minTests \in Nat /\ p.minCoverage \in Nat
                           /\ DOMAIN p.limits \subseteq Severities
                           /\ \A s \in DOMAIN p.limits : p.limits[s] \in Nat

VARIABLES
    stage,           \* the check that is next
    policy,          \* the policy in force
    scans,           \* the reports, in the order they were given
    documents,       \* exceptions, VEX attestation and release subject
    lists,           \* where each finding is
    violations,      \* codes of what the checks object to
    decision         \* "pass" or "fail", "" as long as there is none

vars == <<stage, policy, scans, documents, lists, violations, decision>>

Reading == {"reports", "exceptions", "vex"}
Checking == {"scans", "deduplicate", "apply_vex", "apply_exceptions", "severities",
             "licenses", "tests", "release", "decide"}

NoLists == [issues |-> {}, inventory |-> {}, vexed |-> {}, excepted |-> {}, active |-> {}]

NoDocuments == [exceptions |-> <<>>, vex |-> NoVex, subject |-> NoSubject]

Init == /\ stage = "reports"
        /\ policy \in Policies
        /\ scans = <<>>
        /\ documents = NoDocuments
        /\ lists = NoLists
        /\ violations = {}
        /\ decision = ""

-----------------------------------------------------------------------------

(* Reports and documents are loaded first; any that is not what it should *)
(* be ends the command with an error and without a decision.              *)
ReadReport ==
    /\ stage = "reports"
    /\ Len(scans) < MaxReports
    /\ \E report \in Reports : scans' = Append(scans, report)
    /\ UNCHANGED <<stage, policy, documents, lists, violations, decision>>

LoadSubject ==
    /\ stage = "reports"
    /\ scans # <<>>
    /\ \E subject \in Subjects \cup {NoSubject} : documents' = [documents EXCEPT !.subject = subject]
    /\ stage' = "exceptions"
    /\ UNCHANGED <<policy, scans, lists, violations, decision>>

LoadExceptions ==
    /\ stage = "exceptions"
    /\ \E exceptions \in ExceptionFiles :
          /\ documents' = [documents EXCEPT !.exceptions = exceptions]
          /\ stage' = IF ExceptionsMalformed(exceptions) THEN "refused" ELSE "vex"
    /\ UNCHANGED <<policy, scans, lists, violations, decision>>

LoadVex ==
    /\ stage = "vex"
    /\ \/ stage' = "scans" /\ UNCHANGED documents
       \/ \E vex \in VexFiles :
             /\ documents' = [documents EXCEPT !.vex = vex]
             /\ stage' = IF VexMalformed(vex) THEN "refused" ELSE "scans"
    /\ UNCHANGED <<policy, scans, lists, violations, decision>>

Refuse ==
    /\ stage \in Reading
    /\ stage' = "refused"
    /\ UNCHANGED <<policy, scans, documents, lists, violations, decision>>

-----------------------------------------------------------------------------

Objects(codes, next) ==
    /\ violations' = violations \cup codes
    /\ stage' = next
    /\ UNCHANGED <<policy, scans, documents, decision>>

CheckScans ==
    /\ stage = "scans"
    /\ Objects(RequiredScanViolations(policy, scans) \cup SbomViolations(policy, scans),
               "deduplicate")
    /\ UNCHANGED lists

Separate ==
    /\ stage = "deduplicate"
    /\ LET findings == Deduplicate(scans)
           inventory == {f \in findings : IsInventory(f)}
       IN  lists' = [lists EXCEPT !.inventory = inventory, !.issues = findings \ inventory]
    /\ stage' = "apply_vex"
    /\ UNCHANGED <<policy, scans, documents, violations, decision>>

(* Mutant: reviewed findings are listed, and stay among the issues. *)
ApplyVexAndKeep ==
    /\ stage = "apply_vex"
    /\ lists' = [lists EXCEPT !.vexed = Vexed(policy, documents.vex, lists.issues,
                                             documents.subject, Now)]
    /\ Objects(VexViolations(policy, documents.vex, lists.issues, documents.subject, Now),
               "apply_exceptions")

ApplyVex ==
    /\ stage = "apply_vex"
    /\ LET vexed == Vexed(policy, documents.vex, lists.issues, documents.subject, Now)
       IN  lists' = [lists EXCEPT !.vexed = vexed, !.issues = @ \ vexed]
    /\ Objects(VexViolations(policy, documents.vex, lists.issues, documents.subject, Now),
               "apply_exceptions")

ApplyExceptions ==
    /\ stage = "apply_exceptions"
    /\ LET excepted == Excepted(policy, documents.exceptions, lists.issues,
                                documents.subject, Now)
       IN  lists' = [lists EXCEPT !.excepted = excepted, !.active = lists.issues \ excepted]
    /\ Objects(ExceptionViolations(policy, documents.exceptions, lists.issues,
                                   documents.subject, Now), "severities")

CheckSeverities ==
    /\ stage = "severities"
    /\ Objects(SeverityViolations(policy, lists.active), "licenses")
    /\ UNCHANGED lists

CheckLicenses ==
    /\ stage = "licenses"
    /\ Objects(LicenseViolations(policy, lists.inventory), "tests")
    /\ UNCHANGED lists

CheckTests ==
    /\ stage = "tests"
    /\ Objects(CoverageViolations(policy, scans) \cup TestViolations(policy, scans), "release")
    /\ UNCHANGED lists

(* Provenance, change and approval checks: see the head of this module.   *)
(* Those of provenance come first in the code; as no check looks at what  *)
(* others object to, their place in the order makes no difference.        *)
CheckRelease ==
    /\ stage = "release"
    /\ \E objects \in BOOLEAN : Objects(Raised("RELEASE", objects), "decide")
    /\ UNCHANGED lists

(* Every violation the checks add has the severity "error". *)
Decide ==
    /\ stage = "decide"
    /\ decision' = IF violations = {} THEN "pass" ELSE "fail"
    /\ stage' = "done"
    /\ UNCHANGED <<policy, scans, documents, lists, violations>>

Next == \/ ReadReport \/ LoadSubject \/ LoadExceptions \/ LoadVex \/ Refuse
        \/ CheckScans \/ Separate \/ ApplyVex \/ ApplyExceptions
        \/ CheckSeverities \/ CheckLicenses \/ CheckTests \/ CheckRelease \/ Decide

Spec == Init /\ [][Next]_vars

-----------------------------------------------------------------------------
(* What is reported, independently of the checks. *)

Issues == {o \in Positions(scans) : ~IsInventory(At(scans, o))}

Severity(o) == At(scans, o).severity

FingerprintAt(o) == Fingerprint(At(scans, o))

(* What any scanner says with certainty about an issue. *)
Certain(fp) == {Severity(o) : o \in {o \in Issues : FingerprintAt(o) = fp}} \ {UNKNOWN}

(* Documents that speak for an issue at severity s, read on their own: an     *)
(* exception granted to somebody else, in force now, for a severity no lower  *)
(* than s that may be excepted; a review that is in force and about this      *)
(* release, for an issue that may be reviewed at a severity no lower than s.  *)
ExceptionFor(fp, s) ==
    \E i \in DOMAIN documents.exceptions, t \in (s .. 4) \ policy.nonExceptionable :
        LET e == documents.exceptions[i]
        IN  /\ e.fp = fp
            /\ ~e.revoked
            /\ Now < e.expires
            /\ e.created <= Now + policy.skew
            /\ e.owner # e.approver
            /\ policy.needScope => e.policy = policy.id /\ e.severity = t

ReviewFor(fp, s) ==
    /\ documents.vex # NoVex
    /\ policy.needSignedVex => documents.vex.verified
    /\ documents.subject # NoSubject
    /\ documents.vex.subject = documents.subject.digest
    /\ documents.vex.issued <= Now + policy.skew
    /\ Now < documents.vex.expires
    /\ \E t \in documents.vex.statements : t.fp = fp /\ t.state \in policy.vexStates
    /\ (s .. 4) \ policy.nonSuppressible # {}

Waivable(fp, s) == ExceptionFor(fp, s) \/ ReviewFor(fp, s)

(* A policy that blocks a severity blocks all that is worse. *)
Monotone(p) == \A s \in p.block \ {UNKNOWN} : s .. 4 \subseteq p.block

(* Under such a policy the gate passes only if every issue that any scanner   *)
(* reported with a blocking severity is waived, at that severity, by a        *)
(* document in force: no merging of reports, no order of VEX and exceptions   *)
(* loses it.                                                                  *)
PassIsJustified ==
    decision = "pass" /\ Monotone(policy) =>
        \A o \in Issues :
            Severity(o) \in policy.block \ {UNKNOWN} => Waivable(FingerprintAt(o), Severity(o))

(* Nothing blocks without cause: behind an objection to a severity there is   *)
(* an issue nobody waived, some scanner reported it so, no scanner reported   *)
(* it as worse, and "unknown" only counts if no scanner knew better.          *)
BlockIsDeserved ==
    LET open == {o \in Issues : FingerprintAt(o) \notin
                    {Fingerprint(f) : f \in lists.vexed \cup lists.excepted}}
        unknown == {o \in open : Certain(FingerprintAt(o)) = {}}
    IN  /\ "BLOCKING_FINDINGS" \in violations =>
              \/ unknown # {} /\ UNKNOWN \in policy.block
              \/ \E o \in open :
                    /\ Severity(o) \in policy.block \ {UNKNOWN}
                    /\ \A s \in Certain(FingerprintAt(o)) : s <= Severity(o)
        /\ "UNKNOWN_SEVERITY" \in violations => unknown # {}

(* A waiver granted for what one scanner said does not cover what another     *)
(* scanner says is worse.                                                     *)
WaiversFitTheWorst ==
    \A f \in lists.vexed \cup lists.excepted : \A s \in Certain(Fingerprint(f)) :
        s <= f.severity /\ Waivable(Fingerprint(f), s)

Outcomes == {"active", "excepted", "vexed"}

(* When the gate has decided, every reported issue is in exactly one of the   *)
(* lists of active, excepted and reviewed findings, and only once.            *)
Accounted ==
    stage = "done" =>
        \A o \in Issues : \E l \in Outcomes : \E f \in lists[l] :
            /\ Fingerprint(f) = FingerprintAt(o)
            /\ \A k \in Outcomes : \A g \in lists[k] :
                   Fingerprint(g) = FingerprintAt(o) => k = l /\ g = f

(* The gate passes only with no more issues of a severity than the policy     *)
(* allows, counting each issue once, however many reports and names it has,   *)
(* and leaving out only those some document mentions.                         *)
PassWithinLimits ==
    decision = "pass" =>
        \A s \in DOMAIN policy.limits \ {UNKNOWN} :
            LET mentioned == {documents.exceptions[i].fp : i \in DOMAIN documents.exceptions}
                             \cup (IF documents.vex = NoVex THEN {}
                                  ELSE {t.fp : t \in documents.vex.statements})
                unwaived == {fp \in {FingerprintAt(o) : o \in Issues} \ mentioned :
                                 s \in Certain(fp) /\ \A t \in Certain(fp) : t <= s}
            IN  Cardinality(unwaived) <= policy.limits[s]

(* Which issues remain, and at what severity, does not depend on the order in *)
(* which reports are given and exceptions are listed.                         *)
Remaining(reports, exceptions) ==
    LET issues == {f \in Deduplicate(reports) : ~IsInventory(f)}
        left == issues \ Vexed(policy, documents.vex, issues, documents.subject, Now)
    IN  {<<Fingerprint(f), f.severity>> :
            f \in left \ Excepted(policy, exceptions, left, documents.subject, Now)}

OrderIrrelevant ==
    stage = "severities" =>
        {<<Fingerprint(f), f.severity>> : f \in lists.active}
            = Remaining(Reverse(scans), Reverse(documents.exceptions))

(* With tests required, the gate passes only if at least as many tests as the *)
(* policy asks for were really run, none of them counted as skipped and none  *)
(* of them from a report that only bears the name of a test report, and the   *)
(* coverage it relies on comes from one report.                               *)
TestsReallyRan ==
    decision = "pass" /\ TestsRequired(policy) =>
        LET junit == {i \in DOMAIN scans : scans[i].category = "test" /\ scans[i].scanner = "junit"}
            covered == {i \in DOMAIN scans : scans[i].scanner = "coverage.py"}
            run == [i \in junit |-> scans[i].tests - scans[i].skipped]
        IN  /\ \A i \in junit : scans[i].failures + scans[i].skipped <= scans[i].tests
            /\ policy.minTests <= SumFunctionOnSet(run, junit)
            /\ policy.minCoverage > 0 => \E i \in covered :
                   covered = {i} /\ scans[i].coverage >= policy.minCoverage
=============================================================================
