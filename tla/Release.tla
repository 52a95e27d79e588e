-------------------------------- MODULE Release --------------------------------
(***************************************************************************)
(* From the documents of a release to the admission of its deployment:     *)
(* execute_gate() reads documents and decides at one time (gate_service.py *)
(* and gate.py), deploy() judges the evidence of that decision at another  *)
(* (finguard/deployment.py, before it takes the deployment lock).          *)
(*                                                                         *)
(* The checks of what scanners found are in Gate; here they object or not. *)
(* Evidence is what the gate wrote: EvidenceExchange has its verification. *)
(* What follows an admission is in Deployment.                             *)
(***************************************************************************)
EXTENDS ReleaseChecks

CONSTANTS
    Policies,        \* what a policy file may say
    Reports,         \* reports with their attestations, if any
    Changes,         \* change requests
    Subjects,        \* release subjects
    Attestations,    \* signed approvals
    Requests,        \* deployment requests
    OwnHosts,        \* hosts of a service in a namespace
    Start, MaxTime,  \* bounds of the clock
    Lags,            \* how far the deployer's clock may be behind
    Pipelines,       \* commits a pipeline may expect, "" for none
    MaxReports       \* bound on the number of reports

(* What loading a policy (validate_policy), a report or a document returns. *)
ASSUME ReleaseAssumption ==
    /\ Start \in Nat /\ MaxTime \in Nat /\ MaxReports \in Nat
    /\ NoTime \notin Nat
    /\ Lags \subseteq Nat
    /\ "" \notin Commits /\ Pipelines \subseteq Commits \cup {""}
    /\ Reports \subseteq Report
    /\ Changes \subseteq ChangeRequest
    /\ Subjects \subseteq Subject
    /\ Attestations \subseteq ApprovalAttestation
    /\ \A p \in Policies :
          /\ {p.skew, p.minApprovals, p.maxWindow, p.evidenceAge,
              p.maxReportAge, p.maxDatabaseAge} \subseteq Nat
          /\ p.roles \subseteq Roles
          /\ p.needAttestation => p.required /\ p.approvalSigners # {}

VARIABLES
    clock,           \* the time
    stage,           \* what is read or done next
    policy,          \* the policy in force
    expected,        \* the commit of the pipeline, "" if it was not given
    reports, change, subject, attestation,   \* the documents, as copied and captured
    evidence,        \* what the gate decided, when, and whether it signed this
    outcome          \* of the last attempt to deploy

documents == <<reports, change, subject, attestation>>

vars == <<clock, stage, policy, expected, documents, evidence, outcome>>

Pending == [decision |-> "", at |-> 0, signed |-> FALSE]

NotAsked == [result |-> ""]

Init == /\ clock = Start
        /\ stage = "reports"
        /\ policy \in Policies
        /\ expected \in Pipelines
        /\ reports = <<>>
        /\ change = NoChange
        /\ subject = NoSubject
        /\ attestation = NoAttestation
        /\ evidence = Pending
        /\ outcome = NotAsked

(* Time makes no difference to evidence of a failure. *)
Tick == /\ stage = "evaluate" \/ evidence.decision = "pass"
        /\ clock < MaxTime
        /\ clock' = clock + 1
        /\ UNCHANGED <<stage, policy, expected, documents, evidence, outcome>>

-----------------------------------------------------------------------------
(* _evaluate_snapshot reads one input after the other. A malformed one is an *)
(* error: no decision, no evidence.                                          *)

ReadReport ==
    /\ stage = "reports"
    /\ Len(reports) < MaxReports
    /\ \E r \in Reports :
          IF r.provenance # NoProvenance /\ ProvenanceMalformed(r.provenance)
          THEN stage' = "refused" /\ UNCHANGED reports
          ELSE reports' = Append(reports, r) /\ UNCHANGED stage
    /\ UNCHANGED <<clock, policy, expected, change, subject, attestation, evidence, outcome>>

LoadChange ==
    /\ stage = "reports"
    /\ reports # <<>>
    /\ \E c \in Changes \cup {NoChange} :
          IF c # NoChange /\ ChangeMalformed(c)
          THEN stage' = "refused" /\ UNCHANGED change
          ELSE stage' = "subject" /\ change' = c
    /\ UNCHANGED <<clock, policy, expected, reports, subject, attestation, evidence, outcome>>

LoadSubject ==
    /\ stage = "subject"
    /\ subject' \in Subjects \cup {NoSubject}
    /\ stage' = "approval"
    /\ UNCHANGED <<clock, policy, expected, reports, change, attestation, evidence, outcome>>

LoadApproval ==
    /\ stage = "approval"
    /\ \E a \in Attestations \cup {NoAttestation} :
          IF a # NoAttestation /\ AttestationMalformed(a)
          THEN stage' = "refused" /\ UNCHANGED attestation
          ELSE stage' = "evaluate" /\ attestation' = a
    /\ UNCHANGED <<clock, policy, expected, reports, change, subject, evidence, outcome>>

-----------------------------------------------------------------------------

Violations(now) ==
    SubjectViolations(policy, change, subject, expected)
    \cup (UNION {ProvenanceViolations(policy, subject, expected, reports[i], now) :
                     i \in DOMAIN reports})
    \cup ChangeViolations(policy, change, expected, now)
    \cup AttestationViolations(policy, change, subject, attestation, now)

(* One evaluation, at one time; it is recorded with the decision. The bundle *)
(* is signed if there is a key, and written whatever the decision.           *)
Evaluate ==
    /\ stage = "evaluate"
    /\ \E others \in BOOLEAN, signed \in BOOLEAN :
          evidence' = [decision |-> IF Violations(clock) = {} /\ ~others THEN "pass" ELSE "fail",
                       at |-> clock, signed |-> signed]
    /\ stage' = "deploy"
    /\ UNCHANGED <<clock, policy, expected, documents, outcome>>

(* An actual deployment needs signed evidence and signs its result. *)
Authentic(request) ==
    /\ request.requireSignature \/ request.dry
    /\ request.resultKey \/ request.dry
    /\ request.requireSignature => evidence.signed

(* Mutant: evidence that has just reached its age is too old. *)
InTimeStrictly(request, now) ==
    /\ evidence.at <= now + policy.skew
    /\ now < evidence.at + policy.evidenceAge
    /\ ~request.dry =>
          /\ change.window # NoWindow
          /\ change.window.start <= now /\ now <= change.window.end

(* Evidence from the future or too old, and the window of the change. *)
InTime(request, now) ==
    /\ evidence.at <= now + policy.skew
    /\ now <= evidence.at + policy.evidenceAge
    /\ ~request.dry =>
          /\ change.window # NoWindow
          /\ change.window.start <= now /\ now <= change.window.end

(* The evidence is about what is to be deployed, and where. *)
ForRequest(request) ==
    /\ change # NoChange
    /\ subject # NoSubject
    /\ subject.target = request.target /\ subject.image = request.image
    /\ change.subject # NoSubject
    /\ change.subject = subject
    /\ change.commit = subject.commit
    /\ subject.host \in OwnHosts[<<subject.place, subject.target>>] \cup request.hosts

Admissible(request, now) ==
    /\ Authentic(request)
    /\ evidence.decision = "pass"
    /\ request.policy = policy
    /\ ForRequest(request)
    /\ InTime(request, now)

(* deploy() up to the lock, on a machine whose clock may be behind. A dry *)
(* run ends here with a plan.                                             *)
Deploy ==
    /\ stage = "deploy"
    /\ \E request \in Requests, lag \in Lags :
          /\ lag <= clock
          /\ outcome' =
                IF Admissible(request, clock - lag)
                THEN [result |-> IF request.dry THEN "planned" ELSE "admitted",
                      request |-> request, at |-> clock - lag]
                ELSE [result |-> "refused"]
    /\ UNCHANGED <<clock, stage, policy, expected, documents, evidence>>

Next == \/ Tick \/ ReadReport \/ LoadChange \/ LoadSubject \/ LoadApproval
        \/ Evaluate \/ Deploy

Spec == Init /\ [][Next]_vars

-----------------------------------------------------------------------------

Admitted == outcome.result = "admitted"

(* Types of the variables. *)
TypeOK ==
    /\ clock \in Nat
    /\ stage \in {"reports", "subject", "approval", "evaluate", "deploy", "refused"}
    /\ policy \in Policies
    /\ expected \in Commits \cup {""}
    /\ reports \in Seq(Report)
    /\ change \in ChangeRequest \cup {NoChange}
    /\ subject \in Subject \cup {NoSubject}
    /\ attestation \in ApprovalAttestation \cup {NoAttestation}
    /\ evidence \in [decision : {"", "pass", "fail"}, at : Nat, signed : BOOLEAN]
    /\ outcome.result \in {"", "refused", "planned", "admitted"}
    /\ outcome.result \in {"planned", "admitted"} =>
          outcome.request \in Requests /\ outcome.at \in Nat

(* Evidence of a pass is evidence that no check objected at the time it       *)
(* records, to the documents it captures; what was admitted was admissible.   *)
ReleaseInv ==
    /\ change # NoChange => ~ChangeMalformed(change)
    /\ stage # "deploy" => evidence = Pending /\ outcome = NotAsked
    /\ evidence.decision = "pass" => Violations(evidence.at) = {}
    /\ outcome.result \in {"planned", "admitted"} =>
          /\ Admissible(outcome.request, outcome.at)
          /\ outcome.result = "admitted" => ~outcome.request.dry
    /\ evidence.at <= clock

(* What is deployed was approved in every required role by somebody else,     *)
(* each of them having approved the very thing and after it was built, none   *)
(* of them its requester or deployer under another spelling. If the policy    *)
(* wants that signed, it is the signed approvals that say so.                 *)
ApprovedByOthers ==
    Admitted =>
        LET approvals == IF policy.needAttestation THEN Approvals(attestation) ELSE Approvals(change)
            people == {Identity(a) : a \in approvals}
            executing == {Casefold[change.requester], Casefold[change.deployer]}
            Timely(a) == /\ a.at <= evidence.at
                         /\ policy.approveAfterBuild => subject.built <= a.at
        IN  /\ policy.minApprovals <= Cardinality(people)
            /\ policy.separate => people \cap executing = {} /\ Cardinality(executing) = 2
            /\ \E holder \in [policy.roles -> people] :
                  /\ \A r, s \in policy.roles : holder[r] = holder[s] => r = s
                  /\ \A r \in policy.roles : \E a \in approvals :
                        a.role = r /\ Identity(a) = holder[r] /\ Timely(a)

(* No clock, as far as the policy tolerates them, lets a release out before   *)
(* it was built, approved and the approval signed.                            *)
EventsInOrder ==
    Admitted =>
        /\ attestation # NoAttestation =>
              /\ \A a \in Approvals(change) : a.at <= attestation.issued
              /\ subject.built <= attestation.issued
              /\ attestation.issued <= outcome.at + 2 * policy.skew
        /\ \A a \in Approvals(change) : a.at <= outcome.at + policy.skew

(* What is deployed is what was scanned, not longer ago than the ages of      *)
(* reports, databases and evidence add up to.                                 *)
ScansStillFresh ==
    Admitted => \A i \in DOMAIN reports :
        LET v == reports[i].provenance
        IN  /\ policy.needScanAttestations => v # NoProvenance
            /\ v # NoProvenance =>
                  /\ v.commit = subject.commit
                  /\ reports[i].category \in policy.bound =>
                         v.image = outcome.request.image.digest
                  /\ outcome.at <= v.finished + policy.maxReportAge + policy.evidenceAge
                  /\ reports[i].scanner \in policy.databaseFor =>
                         outcome.at <= v.updated + policy.maxDatabaseAge + policy.evidenceAge

(* All documents speak of one release: of what is deployed, where it is       *)
(* deployed, and built from the commit of the pipeline.                       *)
OneRelease ==
    Admitted =>
        LET release == [image |-> outcome.request.image, target |-> outcome.request.target]
            Of(s) == [image |-> s.image, target |-> s.target]
        IN  /\ Of(change.subject) = release /\ Of(subject) = release
            /\ attestation # NoAttestation =>
                  Of(attestation.subject) = release /\ attestation.change = change
            /\ \A i \in DOMAIN reports :
                  reports[i].scanner = "cyclonedx" => reports[i].digest = change.subject.sbom
            /\ expected # "" => change.commit = expected

(* Gate and deployment agree: what passes under a policy that requires a      *)
(* change, its window and a subject can be deployed where it was approved     *)
(* for, as long as the evidence is fresh and the window is open.              *)
PassIsDeployable ==
    evidence.decision = "pass" /\ evidence.signed
        /\ policy.required /\ policy.needSubject /\ policy.needWindow =>
        LET request == [policy |-> policy, target |-> change.subject.target,
                        image |-> change.subject.image, hosts |-> {change.subject.host},
                        requireSignature |-> TRUE, resultKey |-> TRUE, dry |-> FALSE]
        IN  \A now \in evidence.at .. evidence.at + policy.evidenceAge :
               now \in change.window.start .. change.window.end => Admissible(request, now)
=============================================================================
