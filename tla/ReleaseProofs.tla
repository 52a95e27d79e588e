----------------------------- MODULE ReleaseProofs -----------------------------
(***************************************************************************)
(* Theorems about Release: for any policy, documents, requests and clocks, *)
(* what is admitted is what was approved, scanned and decided upon.        *)
(***************************************************************************)
EXTENDS Release, FiniteSetTheorems, TLAPS

(* What it means that a check does not object. *)
LEMMA RaisedNothing ==
    ASSUME NEW code, NEW holds, Raised(code, holds) = {}
    PROVE  ~holds
  BY DEF Raised

LEMMA NoViolations ==
    ASSUME NEW now, Violations(now) = {}
    PROVE  /\ SubjectViolations(policy, change, subject, expected) = {}
           /\ \A i \in DOMAIN reports :
                 ProvenanceViolations(policy, subject, expected, reports[i], now) = {}
           /\ ChangeViolations(policy, change, expected, now) = {}
           /\ AttestationViolations(policy, change, subject, attestation, now) = {}
<1>1. UNION {ProvenanceViolations(policy, subject, expected, reports[i], now) :
                i \in DOMAIN reports} = {}
  BY DEF Violations
<1>2. ASSUME NEW i \in DOMAIN reports
      PROVE  ProvenanceViolations(policy, subject, expected, reports[i], now) = {}
  BY <1>1
<1> QED
  BY <1>2 DEF Violations

LEMMA ChangeAccepted ==
    ASSUME NEW p, NEW c, NEW e, NEW now, ChangeViolations(p, c, e, now) = {}
    PROVE  /\ c = NoChange => ~p.required
           /\ c # NoChange =>
                 /\ ~(e # "" /\ c.commit # e)
                 /\ WindowViolations(p, c, now) = {}
                 /\ ~(Cardinality(Approvers(c)) < p.minApprovals)
                 /\ RoleViolations(p, c) = {}
                 /\ TimeViolations(p, c, now) = {}
                 /\ ~(p.separate /\ Conflict(c))
<1>1. CASE c = NoChange
  <2>1. Raised("CHANGE_REQUEST_MISSING", p.required) = {}
    BY <1>1 DEF ChangeViolations
  <2> QED
    BY <1>1, <2>1, RaisedNothing
<1>2. CASE c # NoChange
  <2>1. /\ Raised("COMMIT_MISMATCH", e # "" /\ c.commit # e) = {}
        /\ WindowViolations(p, c, now) = {}
        /\ Raised("APPROVALS_INSUFFICIENT", Cardinality(Approvers(c)) < p.minApprovals) = {}
        /\ RoleViolations(p, c) = {}
        /\ TimeViolations(p, c, now) = {}
        /\ Raised("SEPARATION_OF_DUTIES_VIOLATION", p.separate /\ Conflict(c)) = {}
    BY <1>2 DEF ChangeViolations
  <2>2. ~(e # "" /\ c.commit # e)
    BY <2>1, RaisedNothing
  <2>3. ~(Cardinality(Approvers(c)) < p.minApprovals)
    BY <2>1, RaisedNothing
  <2>4. ~(p.separate /\ Conflict(c))
    BY <2>1, RaisedNothing
  <2> QED
    BY <1>2, <2>1, <2>2, <2>3, <2>4
<1> QED
  BY <1>1, <1>2

LEMMA RolesAccepted ==
    ASSUME NEW p, NEW c, RoleViolations(p, c) = {}
    PROVE  HaveDistinctApprovers(c, p.roles)
<1>1. p.roles \ {a.role : a \in Approvals(c)} = {}
  BY DEF RoleViolations
<1>2. Raised("APPROVAL_ROLE_SEPARATION_VIOLATION", ~HaveDistinctApprovers(c, p.roles)) = {}
  BY <1>1 DEF RoleViolations
<1> QED
  BY <1>2, RaisedNothing

LEMMA TimesAccepted ==
    ASSUME NEW p, NEW c, NEW now, TimeViolations(p, c, now) = {}
    PROVE  /\ ~\E a \in Approvals(c) : a.at > now
           /\ ~(/\ p.approveAfterBuild /\ c.subject # NoSubject
                /\ \E a \in Approvals(c) : a.at < c.subject.built)
<1>1. Raised("APPROVAL_TIME_INVALID", \E a \in Approvals(c) : a.at > now) = {}
  BY DEF TimeViolations
<1>2. Raised("APPROVAL_PRECEDES_BUILD",
                /\ p.approveAfterBuild /\ c.subject # NoSubject
                /\ \E a \in Approvals(c) : a.at < c.subject.built) = {}
  BY DEF TimeViolations
<1>3. ~\E a \in Approvals(c) : a.at > now
  BY <1>1, RaisedNothing
<1>4. ~(/\ p.approveAfterBuild /\ c.subject # NoSubject
        /\ \E a \in Approvals(c) : a.at < c.subject.built)
  BY <1>2, RaisedNothing
<1> QED
  BY <1>3, <1>4

LEMMA WindowAccepted ==
    ASSUME NEW p, NEW c, NEW now, WindowViolations(p, c, now) = {}
    PROVE  c.window = NoWindow => ~p.needWindow
<1>1. ASSUME c.window = NoWindow PROVE Raised("DEPLOYMENT_WINDOW_MISSING", p.needWindow) = {}
  BY <1>1 DEF WindowViolations
<1> QED
  BY <1>1, RaisedNothing

LEMMA AttestationAccepted ==
    ASSUME NEW p, NEW c, NEW s, NEW a, NEW now, AttestationViolations(p, c, s, a, now) = {}
    PROVE  /\ a = NoAttestation => ~p.needAttestation
           /\ a # NoAttestation => ~Mismatch(c, s, a) /\ ~Mistimed(p, c, s, a, now)
<1>1. CASE a = NoAttestation
  <2>1. Raised("APPROVAL_ATTESTATION_MISSING", p.needAttestation) = {}
    BY <1>1 DEF AttestationViolations
  <2> QED
    BY <1>1, <2>1, RaisedNothing
<1>2. CASE a # NoAttestation
  <2>1. /\ Raised("APPROVAL_ATTESTATION_SUBJECT_MISMATCH", Mismatch(c, s, a)) = {}
        /\ Raised("APPROVAL_ATTESTATION_TIME_INVALID", Mistimed(p, c, s, a, now)) = {}
    BY <1>2 DEF AttestationViolations
  <2>2. ~Mismatch(c, s, a)
    BY <2>1, RaisedNothing
  <2>3. ~Mistimed(p, c, s, a, now)
    BY <2>1, RaisedNothing
  <2> QED
    BY <1>2, <2>2, <2>3
<1> QED
  BY <1>1, <1>2

LEMMA SubjectAccepted ==
    ASSUME NEW p, NEW c, NEW s, NEW e, SubjectViolations(p, c, s, e) = {}
    PROVE  s = NoSubject => ~p.needSubject
<1>1. ASSUME s = NoSubject PROVE Raised("RELEASE_SUBJECT_MISSING", p.needSubject) = {}
  BY <1>1 DEF SubjectViolations
<1> QED
  BY <1>1, RaisedNothing

LEMMA ProvenanceAccepted ==
    ASSUME NEW p, NEW s, NEW e, NEW r, NEW now, ProvenanceViolations(p, s, e, r, now) = {}
    PROVE  /\ ~(s # NoSubject /\ r.scanner = "cyclonedx" /\ r.digest # s.sbom)
           /\ r.provenance = NoProvenance => ~p.needScanAttestations
           /\ r.provenance # NoProvenance =>
                 /\ ~Misattributed(p, s, e, r)
                 /\ DatabaseViolations(p, r, now) = {}
                 /\ FreshnessViolations(p, r.provenance, now) = {}
<1>1. ~(s # NoSubject /\ r.scanner = "cyclonedx" /\ r.digest # s.sbom)
  <2>1. Raised("SBOM_SUBJECT_MISMATCH",
               s # NoSubject /\ r.scanner = "cyclonedx" /\ r.digest # s.sbom) = {}
    BY DEF ProvenanceViolations
  <2> QED
    BY <2>1, RaisedNothing
<1>2. ASSUME r.provenance = NoProvenance PROVE ~p.needScanAttestations
  <2>1. Raised("SCAN_ATTESTATION_MISSING", p.needScanAttestations) = {}
    BY <1>2 DEF ProvenanceViolations
  <2> QED
    BY <2>1, RaisedNothing
<1>3. ASSUME r.provenance # NoProvenance
      PROVE  /\ ~Misattributed(p, s, e, r)
             /\ DatabaseViolations(p, r, now) = {}
             /\ FreshnessViolations(p, r.provenance, now) = {}
  <2>1. /\ Raised("SCAN_ATTESTATION_SUBJECT_MISMATCH", Misattributed(p, s, e, r)) = {}
        /\ DatabaseViolations(p, r, now) = {}
        /\ FreshnessViolations(p, r.provenance, now) = {}
    BY <1>3 DEF ProvenanceViolations
  <2> QED
    BY <2>1, RaisedNothing
<1> QED
  BY <1>1, <1>2, <1>3

(* Fresh reports: no older than the policy allows when they are judged. *)
LEMMA FreshAccepted ==
    ASSUME NEW p, NEW r, NEW now \in Nat, p.maxReportAge \in Nat, p.maxDatabaseAge \in Nat,
           r.provenance \in Provenance, NoTime \notin Nat,
           DatabaseViolations(p, r, now) = {}, FreshnessViolations(p, r.provenance, now) = {}
    PROVE  /\ now <= r.provenance.finished + p.maxReportAge
           /\ r.scanner \in p.databaseFor =>
                 /\ r.provenance.updated \in Nat
                 /\ now <= r.provenance.updated + p.maxDatabaseAge
<1> DEFINE v == r.provenance
<1>1. v.finished \in Nat /\ v.updated \in Nat \cup {NoTime}
  BY DEF Provenance
<1>2. now <= v.finished + p.maxReportAge
  <2>1. Raised("SCAN_ATTESTATION_STALE", v.finished + p.maxReportAge < now) = {}
    BY DEF FreshnessViolations
  <2>2. ~(v.finished + p.maxReportAge < now)
    BY <2>1, RaisedNothing
  <2> QED
    BY <1>1, <2>2
<1>3. ASSUME r.scanner \in p.databaseFor
      PROVE  v.updated \in Nat /\ now <= v.updated + p.maxDatabaseAge
  <2>1. v.updated # NoTime
    BY <1>3 DEF DatabaseViolations
  <2>2. Raised("SCAN_DATABASE_STALE", v.updated + p.maxDatabaseAge < now) = {}
    BY <1>3 DEF DatabaseViolations
  <2>3. ~(v.updated + p.maxDatabaseAge < now)
    BY <2>2, RaisedNothing
  <2> QED
    BY <1>1, <2>1, <2>3
<1> QED
  BY <1>2, <1>3

-----------------------------------------------------------------------------

Inv == TypeOK /\ ReleaseInv

LEMMA NotAskedFacts == NotAsked.result = ""
  BY DEF NotAsked

LEMMA PendingFacts == Pending.decision = "" /\ Pending.at = 0
  BY DEF Pending

LEMMA InitInv == Init => Inv
<1> SUFFICES ASSUME Init PROVE Inv
  OBVIOUS
<1>1. reports \in Seq(Report)
  <2>1. reports = <<>>
    BY DEF Init
  <2> QED
    BY <2>1
<1>2. TypeOK
  BY <1>1, ReleaseAssumption, NotAskedFacts DEF Init, TypeOK, Pending
<1>3. change = NoChange /\ evidence = Pending /\ outcome = NotAsked
  BY DEF Init
<1>4. evidence.decision = "" /\ outcome.result = ""
  BY <1>3, NotAskedFacts DEF Pending
<1>5. evidence.at <= clock
  <2>1. evidence.at = 0
    BY <1>3 DEF Pending
  <2>2. clock \in Nat
    BY <1>2 DEF TypeOK
  <2> QED
    BY <2>1, <2>2
<1>6. ReleaseInv
  BY <1>3, <1>4, <1>5 DEF ReleaseInv
<1> QED
  BY <1>2, <1>6 DEF Inv

(* Until the evaluation there is no evidence and no outcome. *)
LEMMA NothingYet ==
    ASSUME Inv, stage # "deploy"
    PROVE  evidence = Pending /\ outcome = NotAsked
  BY DEF Inv, ReleaseInv

LEMMA TickKeeps == Inv /\ Tick => Inv'
<1> SUFFICES ASSUME Inv, Tick PROVE Inv'
  OBVIOUS
<1> USE DEF Inv
<1>1. /\ clock' = clock + 1
      /\ UNCHANGED <<stage, policy, expected, evidence, outcome>>
      /\ UNCHANGED <<reports, change, subject, attestation>>
  BY DEF Tick, documents
<1>2. TypeOK'
  <2>1. clock' \in Nat
    <3>1. clock \in Nat
      BY DEF TypeOK
    <3> QED
      BY <1>1, <3>1
  <2> QED
    BY ZenonT(60), <1>1, <2>1 DEF TypeOK
<1>3. Violations(evidence.at)' = Violations(evidence.at)
  BY <1>1 DEF Violations
<1>4. Admissible(outcome.request, outcome.at)' = Admissible(outcome.request, outcome.at)
  BY <1>1 DEF Admissible, Authentic, ForRequest, InTime
<1>5. evidence.at \in Nat /\ clock \in Nat
  BY DEF TypeOK
<1>6. ReleaseInv'
  BY <1>1, <1>3, <1>4, <1>5 DEF ReleaseInv
<1> QED
  BY <1>2, <1>6

(* The steps that read a document before there is evidence. *)
LEMMA ReadingKeeps ==
    ASSUME Inv, stage # "deploy", stage' # "deploy", TypeOK',
           UNCHANGED <<clock, policy, expected, evidence, outcome>>,
           (change # NoChange => ~ChangeMalformed(change))'
    PROVE  Inv'
<1>1. evidence = Pending /\ outcome = NotAsked
  BY NothingYet
<1>2. evidence' = Pending /\ outcome' = NotAsked
  BY <1>1
<1>3. evidence'.decision = "" /\ outcome'.result = ""
  BY <1>2, PendingFacts, NotAskedFacts
<1>4. evidence'.at <= clock'
  <2>1. evidence'.at = 0
    BY <1>2, PendingFacts
  <2>2. clock' \in Nat
    BY DEF TypeOK
  <2> QED
    BY <2>1, <2>2
<1>5. ReleaseInv'
  BY <1>2, <1>3, <1>4 DEF ReleaseInv
<1> QED
  BY <1>5 DEF Inv

LEMMA LoadingKeeps == Inv /\ (ReadReport \/ LoadChange \/ LoadSubject \/ LoadApproval) => Inv'
<1> SUFFICES ASSUME Inv, ReadReport \/ LoadChange \/ LoadSubject \/ LoadApproval PROVE Inv'
  OBVIOUS
<1> USE DEF Inv
<1>1. change # NoChange => ~ChangeMalformed(change)
  BY DEF ReleaseInv
<1>2. CASE ReadReport
  <2>1. /\ stage = "reports" /\ stage' \in {"reports", "refused"}
        /\ UNCHANGED <<clock, policy, expected, change, subject, attestation, evidence, outcome>>
    BY <1>2 DEF ReadReport
  <2>2. reports' = reports \/ \E r \in Report : reports' = Append(reports, r)
    BY <1>2, ReleaseAssumption DEF ReadReport
  <2>3. reports \in Seq(Report)
    BY DEF TypeOK
  <2>4. ASSUME NEW r \in Report PROVE Append(reports, r) \in Seq(Report)
    BY <2>3
  <2>5. reports' \in Seq(Report)
    BY <2>2, <2>3, <2>4
  <2>6. TypeOK'
    BY <2>1, <2>5 DEF TypeOK
  <2>7. (change # NoChange => ~ChangeMalformed(change))'
    BY <2>1, <1>1 DEF ChangeMalformed
  <2> QED
    BY <2>1, <2>6, <2>7, ReadingKeeps
<1>3. CASE LoadChange
  <2>1. /\ stage = "reports" /\ stage' \in {"subject", "refused"}
        /\ UNCHANGED <<clock, policy, expected, reports, subject, attestation, evidence, outcome>>
    BY <1>3 DEF LoadChange
  <2>2. \/ change' = change
        \/ change' \in Changes \cup {NoChange} /\ (change' # NoChange => ~ChangeMalformed(change'))
    BY <1>3 DEF LoadChange
  <2>3. TypeOK'
    BY ZenonT(60), <2>1, <2>2, ReleaseAssumption DEF TypeOK
  <2>4. (change # NoChange => ~ChangeMalformed(change))'
    BY <2>2, <1>1 DEF ChangeMalformed
  <2> QED
    BY <2>1, <2>3, <2>4, ReadingKeeps
<1>4. CASE LoadSubject
  <2>1. /\ stage = "subject" /\ stage' = "approval" /\ subject' \in Subject \cup {NoSubject}
        /\ UNCHANGED <<clock, policy, expected, reports, change, attestation, evidence, outcome>>
    BY <1>4, ReleaseAssumption DEF LoadSubject
  <2>2. TypeOK'
    BY <2>1 DEF TypeOK
  <2>3. (change # NoChange => ~ChangeMalformed(change))'
    BY <2>1, <1>1 DEF ChangeMalformed
  <2> QED
    BY <2>1, <2>2, <2>3, ReadingKeeps
<1>5. CASE LoadApproval
  <2>1. /\ stage = "approval" /\ stage' \in {"evaluate", "refused"}
        /\ UNCHANGED <<clock, policy, expected, reports, change, subject, evidence, outcome>>
    BY <1>5 DEF LoadApproval
  <2>2. attestation' = attestation \/ attestation' \in ApprovalAttestation \cup {NoAttestation}
    BY <1>5, ReleaseAssumption DEF LoadApproval
  <2>3. TypeOK'
    BY <2>1, <2>2 DEF TypeOK
  <2>4. (change # NoChange => ~ChangeMalformed(change))'
    BY <2>1, <1>1 DEF ChangeMalformed
  <2> QED
    BY <2>1, <2>3, <2>4, ReadingKeeps
<1> QED
  BY <1>2, <1>3, <1>4, <1>5

LEMMA EvaluateKeeps == Inv /\ Evaluate => Inv'
<1> SUFFICES ASSUME Inv, Evaluate PROVE Inv'
  OBVIOUS
<1> USE DEF Inv
<1>1. /\ stage = "evaluate" /\ stage' = "deploy"
      /\ UNCHANGED <<clock, policy, expected, outcome>>
      /\ UNCHANGED <<reports, change, subject, attestation>>
  BY DEF Evaluate, documents
<1>2. PICK others \in BOOLEAN, signed \in BOOLEAN :
         evidence' = [decision |-> IF Violations(clock) = {} /\ ~others THEN "pass" ELSE "fail",
                      at |-> clock, signed |-> signed]
  BY DEF Evaluate
<1>3. /\ evidence'.at = clock
      /\ evidence'.decision = "pass" => Violations(clock) = {}
      /\ evidence' \in [decision : {"", "pass", "fail"}, at : Nat, signed : BOOLEAN]
  BY <1>2 DEF TypeOK
<1>4. Violations(evidence.at)' = Violations(clock)
  <2>1. evidence'.at = clock
    BY <1>3
  <2> QED
    BY <1>1, <2>1 DEF Violations
<1>5. outcome'.result = ""
  BY <1>1, NothingYet, NotAskedFacts
<1>6. TypeOK'
  BY <1>1, <1>3, <1>5 DEF TypeOK
<1>7. (change # NoChange => ~ChangeMalformed(change))'
  BY <1>1 DEF ReleaseInv, ChangeMalformed
<1>8. evidence'.at <= clock'
  <2>1. clock \in Nat
    BY DEF TypeOK
  <2>2. evidence'.at = clock /\ clock' = clock
    BY <1>1, <1>3
  <2> QED
    BY <2>1, <2>2
<1>9. evidence'.decision = "pass" => Violations(evidence.at)' = {}
  BY <1>3, <1>4
<1>10. ReleaseInv'
  BY <1>1, <1>5, <1>7, <1>8, <1>9 DEF ReleaseInv
<1> QED
  BY <1>6, <1>10

LEMMA DeployKeeps == Inv /\ Deploy => Inv'
<1> SUFFICES ASSUME Inv, Deploy PROVE Inv'
  OBVIOUS
<1> USE DEF Inv
<1>1. /\ stage = "deploy"
      /\ UNCHANGED <<clock, stage, policy, expected, evidence>>
      /\ UNCHANGED <<reports, change, subject, attestation>>
  BY DEF Deploy, documents
<1>2. PICK request \in Requests, lag \in Lags :
         /\ lag <= clock
         /\ outcome' =
               IF Admissible(request, clock - lag)
               THEN [result |-> IF request.dry THEN "planned" ELSE "admitted",
                     request |-> request, at |-> clock - lag]
               ELSE [result |-> "refused"]
  BY DEF Deploy
<1>3. clock - lag \in Nat
  <2>1. clock \in Nat
    BY DEF TypeOK
  <2>2. lag \in Nat /\ lag <= clock
    BY <1>2, ReleaseAssumption
  <2> QED
    BY <2>1, <2>2
<1>4. /\ outcome'.result \in {"planned", "admitted"} =>
            /\ Admissible(request, clock - lag)
            /\ outcome'.request = request /\ outcome'.at = clock - lag
            /\ outcome'.result = "admitted" => ~request.dry
      /\ outcome'.result \in {"refused", "planned", "admitted"}
  BY <1>2
<1>5. TypeOK'
  BY <1>1, <1>3, <1>4 DEF TypeOK
<1>6. Violations(evidence.at)' = Violations(evidence.at)
  BY <1>1 DEF Violations
<1>7. ASSUME outcome'.result \in {"planned", "admitted"}
      PROVE  Admissible(outcome.request, outcome.at)'
  <2>1. outcome'.request = request /\ outcome'.at = clock - lag /\ Admissible(request, clock - lag)
    BY <1>4, <1>7
  <2> QED
    BY <2>1, <1>1 DEF Admissible, Authentic, ForRequest, InTime
<1>8. (change # NoChange => ~ChangeMalformed(change))'
  BY <1>1 DEF ReleaseInv, ChangeMalformed
<1>9. ReleaseInv'
  BY <1>1, <1>4, <1>6, <1>7, <1>8 DEF ReleaseInv
<1> QED
  BY <1>5, <1>9

LEMMA InvHolds == Spec => []Inv
<1>1. ASSUME Inv, [Next]_vars PROVE Inv'
  <2>1. CASE Tick
    BY <1>1, <2>1, TickKeeps
  <2>2. CASE ReadReport \/ LoadChange \/ LoadSubject \/ LoadApproval
    BY <1>1, <2>2, LoadingKeeps
  <2>3. CASE Evaluate
    BY <1>1, <2>3, EvaluateKeeps
  <2>4. CASE Deploy
    BY <1>1, <2>4, DeployKeeps
  <2>5. CASE UNCHANGED vars
    <3>1. /\ UNCHANGED <<clock, stage, policy, expected, evidence, outcome>>
          /\ UNCHANGED <<reports, change, subject, attestation>>
      BY <2>5 DEF vars, documents
    <3>2. TypeOK'
      BY ZenonT(60), <1>1, <3>1 DEF Inv, TypeOK
    <3>3. Violations(evidence.at)' = Violations(evidence.at)
      BY <3>1 DEF Violations
    <3>4. Admissible(outcome.request, outcome.at)' = Admissible(outcome.request, outcome.at)
      BY <3>1 DEF Admissible, Authentic, ForRequest, InTime
    <3>5. ReleaseInv'
      BY <1>1, <3>1, <3>3, <3>4 DEF Inv, ReleaseInv, ChangeMalformed
    <3> QED
      BY <3>2, <3>5 DEF Inv
  <2> QED
    BY <1>1, <2>1, <2>2, <2>3, <2>4, <2>5 DEF Next
<1> QED
  BY InitInv, <1>1, PTL DEF Spec

(* Types of the variables.                                                    *)
THEOREM TypeCorrect == Spec => []TypeOK
<1>1. Inv => TypeOK
  BY DEF Inv
<1> QED
  BY InvHolds, <1>1, PTL

(* Whatever is read, and whoever asks for what at which time: evidence of a   *)
(* pass says that no check objects, and what is admitted fits it.             *)
THEOREM ReleaseInvHolds == Spec => []ReleaseInv
<1>1. Inv => ReleaseInv
  BY DEF Inv
<1> QED
  BY InvHolds, <1>1, PTL

-----------------------------------------------------------------------------

(* What is known of an admission: the documents exist, agree, and no check    *)
(* objected to them when the gate decided.                                    *)
LEMMA AdmittedFacts ==
    ASSUME Inv, Admitted
    PROVE  /\ Violations(evidence.at) = {}
           /\ change \in ChangeRequest /\ subject \in Subject /\ change # NoChange
           /\ change.subject # NoSubject /\ change.subject = subject /\ subject # NoSubject
           /\ change.commit = subject.commit
           /\ subject.target = outcome.request.target /\ subject.image = outcome.request.image
           /\ outcome.at <= evidence.at + policy.evidenceAge
           /\ evidence.at <= outcome.at + policy.skew
           /\ evidence.at \in Nat /\ outcome.at \in Nat
<1>1. outcome.result = "admitted"
  BY DEF Admitted
<1>2. Admissible(outcome.request, outcome.at)
  BY <1>1 DEF Inv, ReleaseInv
<1>3. ForRequest(outcome.request) /\ InTime(outcome.request, outcome.at)
      /\ evidence.decision = "pass"
  BY <1>2 DEF Admissible
<1>4. Violations(evidence.at) = {}
  BY <1>3 DEF Inv, ReleaseInv
<1>5. /\ change # NoChange /\ subject # NoSubject
      /\ change.subject # NoSubject /\ change.subject = subject
      /\ change.commit = subject.commit
      /\ subject.target = outcome.request.target /\ subject.image = outcome.request.image
  BY <1>3 DEF ForRequest
<1>6. /\ outcome.at <= evidence.at + policy.evidenceAge
      /\ evidence.at <= outcome.at + policy.skew
  BY <1>3 DEF InTime
<1>7. change \in ChangeRequest /\ subject \in Subject
  BY <1>5 DEF Inv, TypeOK
<1>8. evidence.at \in Nat
  BY DEF Inv, TypeOK
<1>9. outcome.at \in Nat
  BY <1>1 DEF Inv, TypeOK
<1> QED
  BY <1>4, <1>5, <1>6, <1>7, <1>8, <1>9

(* Durations of a policy. *)
LEMMA Durations ==
    ASSUME Inv
    PROVE  /\ policy.skew \in Nat /\ policy.evidenceAge \in Nat /\ policy.minApprovals \in Nat
           /\ policy.maxReportAge \in Nat /\ policy.maxDatabaseAge \in Nat
<1>1. policy \in Policies
  BY DEF Inv, TypeOK
<1> QED
  BY <1>1, ReleaseAssumption

(* What is signed for, admitted and scanned is one release.                   *)
LEMMA OneReleaseStep == Inv => OneRelease
<1> SUFFICES ASSUME Inv, Admitted PROVE OneRelease
  BY DEF OneRelease
<1>1. /\ Violations(evidence.at) = {} /\ change # NoChange /\ subject # NoSubject
      /\ change.subject = subject
      /\ subject.target = outcome.request.target /\ subject.image = outcome.request.image
  BY AdmittedFacts
<1>2. /\ \A i \in DOMAIN reports :
            ProvenanceViolations(policy, subject, expected, reports[i], evidence.at) = {}
      /\ ChangeViolations(policy, change, expected, evidence.at) = {}
      /\ AttestationViolations(policy, change, subject, attestation, evidence.at) = {}
  BY <1>1, NoViolations
<1>3. ASSUME NEW i \in DOMAIN reports, reports[i].scanner = "cyclonedx"
      PROVE  reports[i].digest = change.subject.sbom
  BY <1>1, <1>2, <1>3, ProvenanceAccepted
<1>4. expected # "" => change.commit = expected
  BY ZenonT(60), <1>1, <1>2, ChangeAccepted
<1>5. ASSUME attestation # NoAttestation
      PROVE  attestation.subject = subject /\ attestation.change = change
  <2>1. ~Mismatch(change, subject, attestation)
    BY <1>2, <1>5, AttestationAccepted
  <2> QED
    BY <2>1 DEF Mismatch
<1>6. [image |-> subject.image, target |-> subject.target] =
      [image |-> outcome.request.image, target |-> outcome.request.target]
  BY <1>1
<1> QED
  BY <1>1, <1>3, <1>4, <1>5, <1>6 DEF OneRelease

(* All documents of what is admitted speak of what is deployed.               *)
THEOREM AllOfOneRelease == Spec => []OneRelease
  BY InvHolds, OneReleaseStep, PTL

(* Approvals of a change have times. *)
LEMMA ApprovalTimes ==
    ASSUME NEW c \in ChangeRequest
    PROVE  \A a \in Approvals(c) : a \in Approval /\ a.at \in Nat
<1>1. c.approvals \in Seq(Approval)
  BY DEF ChangeRequest
<1>2. \A i \in DOMAIN c.approvals : c.approvals[i] \in Approval
  BY <1>1
<1>3. \A a \in Approval : a.at \in Nat
  BY DEF Approval
<1> QED
  BY <1>2, <1>3 DEF Approvals

LEMMA EventsStep == Inv => EventsInOrder
<1> SUFFICES ASSUME Inv, Admitted PROVE EventsInOrder
  BY DEF EventsInOrder
<1>1. /\ Violations(evidence.at) = {} /\ change # NoChange /\ subject # NoSubject
      /\ change \in ChangeRequest /\ subject \in Subject
      /\ evidence.at \in Nat /\ outcome.at \in Nat
      /\ evidence.at <= outcome.at + policy.skew
  BY AdmittedFacts
<1>2. /\ ChangeViolations(policy, change, expected, evidence.at) = {}
      /\ AttestationViolations(policy, change, subject, attestation, evidence.at) = {}
  BY <1>1, NoViolations
<1>3. policy.skew \in Nat
  BY Durations
<1>4. ASSUME NEW a \in Approvals(change) PROVE a.at <= outcome.at + policy.skew
  <2>1. TimeViolations(policy, change, evidence.at) = {}
    BY <1>1, <1>2, ChangeAccepted
  <2>2. ~(a.at > evidence.at)
    BY <2>1, TimesAccepted
  <2>3. a.at \in Nat
    BY <1>1, ApprovalTimes
  <2> QED
    BY <1>1, <1>3, <2>2, <2>3
<1>5. ASSUME attestation # NoAttestation
      PROVE  /\ \A a \in Approvals(change) : a.at <= attestation.issued
             /\ subject.built <= attestation.issued
             /\ attestation.issued <= outcome.at + 2 * policy.skew
  <2>1. ~Mistimed(policy, change, subject, attestation, evidence.at)
    BY <1>2, <1>5, AttestationAccepted
  <2>2. /\ ~\E b \in Approvals(change) : attestation.issued < b.at
        /\ ~(attestation.issued < subject.built)
        /\ ~(attestation.issued > evidence.at + policy.skew)
    BY <1>1, <2>1 DEF Mistimed
  <2>3. attestation.issued \in Nat
    <3>1. attestation \in ApprovalAttestation
      BY <1>5 DEF Inv, TypeOK
    <3> QED
      BY <3>1 DEF ApprovalAttestation
  <2>4. subject.built \in Nat
    BY <1>1 DEF Subject
  <2>5. \A a \in Approvals(change) : a.at \in Nat
    BY <1>1, ApprovalTimes
  <2>6. \A a \in Approvals(change) : a.at <= attestation.issued
    BY <2>2, <2>3, <2>5
  <2>7. subject.built <= attestation.issued
    BY <2>2, <2>3, <2>4
  <2>8. attestation.issued <= outcome.at + 2 * policy.skew
    BY <1>1, <1>3, <2>2, <2>3
  <2> QED
    BY <2>6, <2>7, <2>8
<1> QED
  BY <1>4, <1>5 DEF EventsInOrder

(* Built, approved, signed for, decided and admitted, in this order, whatever *)
(* the clocks say as long as they are within the skew.                        *)
THEOREM OrderOfEvents == Spec => []EventsInOrder
  BY InvHolds, EventsStep, PTL

LEMMA ScansStep == Inv => ScansStillFresh
<1> SUFFICES ASSUME Inv, Admitted, NEW i \in DOMAIN reports
             PROVE  /\ policy.needScanAttestations => reports[i].provenance # NoProvenance
                    /\ reports[i].provenance # NoProvenance =>
                          LET v == reports[i].provenance
                          IN  /\ v.commit = subject.commit
                              /\ reports[i].category \in policy.bound =>
                                     v.image = outcome.request.image.digest
                              /\ outcome.at <= v.finished + policy.maxReportAge + policy.evidenceAge
                              /\ reports[i].scanner \in policy.databaseFor =>
                                     outcome.at <= v.updated + policy.maxDatabaseAge
                                                   + policy.evidenceAge
  BY DEF ScansStillFresh
<1> DEFINE v == reports[i].provenance
<1>1. /\ Violations(evidence.at) = {} /\ subject # NoSubject /\ subject \in Subject
      /\ subject.image = outcome.request.image
      /\ evidence.at \in Nat /\ outcome.at \in Nat
      /\ outcome.at <= evidence.at + policy.evidenceAge
  BY AdmittedFacts
<1>2. ProvenanceViolations(policy, subject, expected, reports[i], evidence.at) = {}
  BY <1>1, NoViolations
<1>3. /\ v = NoProvenance => ~policy.needScanAttestations
      /\ v # NoProvenance =>
            /\ ~Misattributed(policy, subject, expected, reports[i])
            /\ DatabaseViolations(policy, reports[i], evidence.at) = {}
            /\ FreshnessViolations(policy, v, evidence.at) = {}
  BY <1>2, ProvenanceAccepted
<1>4. ASSUME v # NoProvenance
      PROVE  /\ v.commit = subject.commit
             /\ reports[i].category \in policy.bound => v.image = outcome.request.image.digest
             /\ outcome.at <= v.finished + policy.maxReportAge + policy.evidenceAge
             /\ reports[i].scanner \in policy.databaseFor =>
                    outcome.at <= v.updated + policy.maxDatabaseAge + policy.evidenceAge
  <2>1. reports[i] \in Report
    <3>1. reports \in Seq(Report)
      BY DEF Inv, TypeOK
    <3> QED
      BY <3>1
  <2>2. v \in Provenance
    BY <1>4, <2>1 DEF Report
  <2>3. subject.commit \in Commits
    BY <1>1 DEF Subject
  <2>4. ~Misattributed(policy, subject, expected, reports[i])
    BY <1>3, <1>4
  <2>5. /\ ~(Source(subject, expected) # "" /\ v.commit # Source(subject, expected))
        /\ ~(subject # NoSubject /\ reports[i].category \in policy.bound
                /\ v.image # subject.image.digest)
    BY <2>4 DEF Misattributed
  <2>6. v.commit = subject.commit
    <3>1. Source(subject, expected) = subject.commit
      BY <1>1 DEF Source
    <3>2. subject.commit # ""
      BY <2>3, ReleaseAssumption
    <3> QED
      BY <2>5, <3>1, <3>2
  <2>7. reports[i].category \in policy.bound => v.image = outcome.request.image.digest
    BY <1>1, <2>5
  <2>8. policy.maxReportAge \in Nat /\ policy.maxDatabaseAge \in Nat /\ policy.evidenceAge \in Nat
    BY Durations
  <2>9. NoTime \notin Nat
    BY ReleaseAssumption
  <2>10. /\ evidence.at <= v.finished + policy.maxReportAge
         /\ reports[i].scanner \in policy.databaseFor =>
               v.updated \in Nat /\ evidence.at <= v.updated + policy.maxDatabaseAge
    BY <1>1, <1>3, <1>4, <2>2, <2>8, <2>9, FreshAccepted
  <2>11. v.finished \in Nat
    BY <2>2 DEF Provenance
  <2>12. outcome.at <= v.finished + policy.maxReportAge + policy.evidenceAge
    BY <1>1, <2>8, <2>10, <2>11
  <2>13. ASSUME reports[i].scanner \in policy.databaseFor
         PROVE  outcome.at <= v.updated + policy.maxDatabaseAge + policy.evidenceAge
    BY <1>1, <2>8, <2>10, <2>13
  <2> QED
    BY <2>6, <2>7, <2>12, <2>13
<1> QED
  BY <1>3, <1>4

(* What is admitted was scanned, not too long ago.                            *)
THEOREM FreshWhenAdmitted == Spec => []ScansStillFresh
  BY InvHolds, ScansStep, PTL

-----------------------------------------------------------------------------

LEMMA DomainFacts ==
    ASSUME NEW S, NEW s \in Seq(S)
    PROVE  DOMAIN s = 1 .. Len(s) /\ Len(s) \in Int
<1>1. DOMAIN s = 1 .. Len(s)
  OBVIOUS
<1>2. Len(s) \in Int
  OBVIOUS
<1> QED
  BY <1>1, <1>2

(* Equal multisets of approvals have the same people in the same roles, at    *)
(* the same times.                                                            *)
LEMMA SameFolded ==
    ASSUME NEW as \in Seq(Approval), NEW bs \in Seq(Approval), SameApprovals(as, bs),
           NEW i \in DOMAIN as
    PROVE  \E j \in DOMAIN bs : Folded(bs[j]) = Folded(as[i])
<1> DEFINE x == Folded(as[i])
           A == {k \in DOMAIN as : Folded(as[k]) = x}
           B == {k \in DOMAIN bs : Folded(bs[k]) = x}
<1>1. Copies(as, x) = Copies(bs, x)
  BY DEF SameApprovals
<1>2. Cardinality(A) = Cardinality(B)
  BY <1>1 DEF Copies
<1>3. IsFiniteSet(DOMAIN as) /\ IsFiniteSet(DOMAIN bs)
  <2>1. DOMAIN as = 1 .. Len(as) /\ Len(as) \in Int /\ DOMAIN bs = 1 .. Len(bs) /\ Len(bs) \in Int
    BY DomainFacts
  <2>2. 1 \in Int
    OBVIOUS
  <2> HIDE DEF x, A, B
  <2>3. IsFiniteSet(1 .. Len(as)) /\ IsFiniteSet(1 .. Len(bs))
    BY <2>1, <2>2, FS_Interval
  <2> QED
    BY <2>1, <2>3
<1>4. IsFiniteSet(A) /\ IsFiniteSet(B)
  <2>1. A \in SUBSET DOMAIN as /\ B \in SUBSET DOMAIN bs
    OBVIOUS
  <2> HIDE DEF x, A, B
  <2> QED
    BY <1>3, <2>1, FS_Subset
<1>5. A # {}
  <2>1. i \in A
    OBVIOUS
  <2> QED
    BY <2>1
<1>6. B # {}
  <2> HIDE DEF A, B
  <2> QED
    BY <1>2, <1>4, <1>5, FS_EmptySet
<1> QED
  BY <1>6

LEMMA SameSets ==
    ASSUME NEW as \in Seq(Approval), NEW bs \in Seq(Approval), SameApprovals(as, bs)
    PROVE  {Folded(as[i]) : i \in DOMAIN as} = {Folded(bs[j]) : j \in DOMAIN bs}
<1>1. SameApprovals(bs, as)
  BY DEF SameApprovals
<1>2. \A i \in DOMAIN as : \E j \in DOMAIN bs : Folded(bs[j]) = Folded(as[i])
  BY SameFolded
<1>3. \A i \in DOMAIN bs : \E j \in DOMAIN as : Folded(as[j]) = Folded(bs[i])
  BY <1>1, SameFolded
<1> DEFINE A == {Folded(as[i]) : i \in DOMAIN as}
           B == {Folded(bs[j]) : j \in DOMAIN bs}
<1>4. ASSUME NEW x \in A PROVE x \in B
  <2>1. PICK i \in DOMAIN as : x = Folded(as[i])
    BY <1>4
  <2>2. PICK j \in DOMAIN bs : Folded(bs[j]) = Folded(as[i])
    BY <1>2
  <2> QED
    BY <2>1, <2>2
<1>5. ASSUME NEW x \in B PROVE x \in A
  <2>1. PICK j \in DOMAIN bs : x = Folded(bs[j])
    BY <1>5
  <2>2. PICK i \in DOMAIN as : Folded(as[i]) = Folded(bs[j])
    BY <1>3
  <2> QED
    BY <2>1, <2>2
<1>6. A = B
  <2> HIDE DEF A, B
  <2> QED
    BY <1>4, <1>5
<1> QED
  BY <1>6

(* So an attestation that matches its change has, for each approval of the    *)
(* change, one that differs in the spelling of the name at most.              *)
LEMMA SameApproved ==
    ASSUME NEW c \in ChangeRequest, NEW d \in ApprovalAttestation,
           SameApprovals(d.approvals, c.approvals)
    PROVE  /\ Approvers(d) = Approvers(c)
           /\ \A a \in Approvals(c) : \E b \in Approvals(d) :
                 Identity(b) = Identity(a) /\ b.role = a.role /\ b.at = a.at
<1>1. c.approvals \in Seq(Approval) /\ d.approvals \in Seq(Approval)
  BY DEF ChangeRequest, ApprovalAttestation
<1>2. {Folded(d.approvals[i]) : i \in DOMAIN d.approvals}
         = {Folded(c.approvals[j]) : j \in DOMAIN c.approvals}
  BY <1>1, SameSets
<1>3. \A a : /\ Folded(a).approver = Identity(a)
             /\ Folded(a).role = a.role
             /\ Folded(a).at = a.at
  BY DEF Folded
<1>4. ASSUME NEW a \in Approvals(c)
      PROVE  \E b \in Approvals(d) : Folded(b) = Folded(a)
  BY <1>2 DEF Approvals
<1>5. ASSUME NEW b \in Approvals(d)
      PROVE  \E a \in Approvals(c) : Folded(a) = Folded(b)
  BY <1>2 DEF Approvals
<1>6. \A a \in Approvals(c) : \E b \in Approvals(d) :
         Identity(b) = Identity(a) /\ b.role = a.role /\ b.at = a.at
  <2> TAKE a \in Approvals(c)
  <2>1. PICK b \in Approvals(d) : Folded(b) = Folded(a)
    BY <1>4
  <2>2. Identity(b) = Identity(a) /\ b.role = a.role /\ b.at = a.at
    BY <2>1, <1>3
  <2> QED
    BY <2>2
<1>7. \A b \in Approvals(d) : \E a \in Approvals(c) : Identity(a) = Identity(b)
  <2> TAKE b \in Approvals(d)
  <2>1. PICK a \in Approvals(c) : Folded(a) = Folded(b)
    BY <1>5
  <2>2. Identity(a) = Identity(b)
    BY <2>1, <1>3
  <2> QED
    BY <2>2
<1>8. Approvers(d) = Approvers(c)
  BY <1>6, <1>7 DEF Approvers
<1> QED
  BY <1>6, <1>8

(* There are finitely many approvers. *)
LEMMA FiniteApprovers ==
    ASSUME NEW c \in ChangeRequest
    PROVE  Cardinality(Approvers(c)) \in Nat
<1> DEFINE f == [i \in DOMAIN c.approvals |-> Identity(c.approvals[i])]
<1>1. c.approvals \in Seq(Approval)
  BY DEF ChangeRequest
<1>2. DOMAIN c.approvals = 1 .. Len(c.approvals) /\ Len(c.approvals) \in Int /\ 1 \in Int
  BY <1>1
<1>3. IsFiniteSet(DOMAIN c.approvals)
  <2>1. IsFiniteSet(1 .. Len(c.approvals))
    BY <1>2, FS_Interval
  <2> QED
    BY <1>2, <2>1
<1>4. f \in Surjection(DOMAIN c.approvals, Approvers(c))
  BY DEF Surjection, Approvers, Approvals
<1> HIDE DEF f
<1>5. IsFiniteSet(Approvers(c))
  BY <1>3, <1>4, FS_Surjection
<1> QED
  BY <1>5, FS_CardinalityType

(* Two different people are two. *)
LEMMA TwoPeople ==
    ASSUME NEW x, NEW y, x # y
    PROVE  Cardinality({x, y}) = 2
<1>1. IsFiniteSet({x}) /\ Cardinality({x}) = 1
  BY FS_Singleton
<1>2. Cardinality({x} \cup {y}) = 2
  BY <1>1, FS_AddElement
<1>3. {x} \cup {y} = {x, y}
  OBVIOUS
<1> QED
  BY <1>2, <1>3

LEMMA ApprovedStep == Inv => ApprovedByOthers
<1> SUFFICES ASSUME Inv, Admitted PROVE ApprovedByOthers
  BY DEF ApprovedByOthers
<1> DEFINE approvals == IF policy.needAttestation THEN Approvals(attestation) ELSE Approvals(change)
           people == {Identity(a) : a \in approvals}
           executing == {Casefold[change.requester], Casefold[change.deployer]}
           Timely(a) == /\ a.at <= evidence.at
                        /\ policy.approveAfterBuild => subject.built <= a.at
<1>1. /\ Violations(evidence.at) = {} /\ change \in ChangeRequest /\ change # NoChange
      /\ change.subject # NoSubject /\ change.subject = subject /\ subject \in Subject
      /\ evidence.at \in Nat
  BY AdmittedFacts
<1>2. /\ ChangeViolations(policy, change, expected, evidence.at) = {}
      /\ AttestationViolations(policy, change, subject, attestation, evidence.at) = {}
  BY <1>1, NoViolations
<1>3. /\ ~(Cardinality(Approvers(change)) < policy.minApprovals)
      /\ RoleViolations(policy, change) = {}
      /\ TimeViolations(policy, change, evidence.at) = {}
      /\ ~(policy.separate /\ Conflict(change))
  BY <1>1, <1>2, ChangeAccepted
<1>4. /\ people = Approvers(change)
      /\ \A a \in Approvals(change) : \E b \in approvals :
            Identity(b) = Identity(a) /\ b.role = a.role /\ b.at = a.at
  <2>1. CASE ~policy.needAttestation
    BY <2>1 DEF Approvers
  <2>2. CASE policy.needAttestation
    <3>1. attestation # NoAttestation
      BY <1>2, <2>2, AttestationAccepted
    <3>2. attestation \in ApprovalAttestation
      BY <3>1 DEF Inv, TypeOK
    <3>3. SameApprovals(attestation.approvals, change.approvals)
      <4>1. ~Mismatch(change, subject, attestation)
        BY <1>2, <3>1, AttestationAccepted
      <4> QED
        BY <4>1 DEF Mismatch
    <3>4. /\ Approvers(attestation) = Approvers(change)
          /\ \A a \in Approvals(change) : \E b \in Approvals(attestation) :
                Identity(b) = Identity(a) /\ b.role = a.role /\ b.at = a.at
      BY <1>1, <3>2, <3>3, SameApproved
    <3> QED
      BY <2>2, <3>4 DEF Approvers
  <2> QED
    BY <2>1, <2>2
<1>5. policy.minApprovals <= Cardinality(people)
  <2>1. Cardinality(Approvers(change)) \in Nat /\ policy.minApprovals \in Nat
    BY <1>1, FiniteApprovers, Durations
  <2>2. Cardinality(people) = Cardinality(Approvers(change))
    BY <1>4
  <2> HIDE DEF people
  <2> QED
    BY <1>3, <2>1, <2>2
<1>6. policy.separate => people \cap executing = {} /\ Cardinality(executing) = 2
  <2> HAVE policy.separate
  <2>1. /\ Casefold[change.requester] # Casefold[change.deployer]
        /\ Approvers(change) \cap executing = {}
    BY <1>3 DEF Conflict
  <2> QED
    BY <1>4, <2>1, TwoPeople
<1>7. \A a \in Approvals(change) : Timely(a)
  <2> TAKE a \in Approvals(change)
  <2>1. /\ ~(a.at > evidence.at)
        /\ policy.approveAfterBuild => ~(a.at < change.subject.built)
    BY <1>1, <1>3, TimesAccepted
  <2>2. a.at \in Nat
    BY <1>1, ApprovalTimes
  <2>3. subject.built \in Nat
    BY <1>1 DEF Subject
  <2> QED
    BY <1>1, <2>1, <2>2, <2>3
<1>8. \E holder \in [policy.roles -> people] :
         /\ \A r, s \in policy.roles : holder[r] = holder[s] => r = s
         /\ \A r \in policy.roles : \E a \in approvals :
               a.role = r /\ Identity(a) = holder[r] /\ Timely(a)
  <2>1. HaveDistinctApprovers(change, policy.roles)
    BY <1>3, RolesAccepted
  <2>2. PICK holder \in [policy.roles -> Approvers(change)] :
           /\ \A r \in policy.roles : \E a \in Approvals(change) :
                 a.role = r /\ Identity(a) = holder[r]
           /\ \A r, s \in policy.roles : r # s => holder[r] # holder[s]
    BY <2>1 DEF HaveDistinctApprovers
  <2>3. ASSUME NEW r \in policy.roles
        PROVE  \E b \in approvals : b.role = r /\ Identity(b) = holder[r] /\ Timely(b)
    <3>1. PICK a \in Approvals(change) : a.role = r /\ Identity(a) = holder[r]
      BY <2>2
    <3>2. PICK b \in approvals : Identity(b) = Identity(a) /\ b.role = a.role /\ b.at = a.at
      BY <1>4
    <3>3. Timely(b)
      BY <1>7, <3>2
    <3> HIDE DEF approvals, Timely
    <3> QED
      BY <3>1, <3>2, <3>3
  <2>4. holder \in [policy.roles -> people]
    BY <1>4, <2>2
  <2> HIDE DEF approvals, people, Timely
  <2> QED
    BY <2>2, <2>3, <2>4
<1> QED
  BY <1>5, <1>6, <1>8 DEF ApprovedByOthers

(* Duties are separate in everything that is admitted, by identity and not    *)
(* by spelling, and in what was signed if the policy wants signatures.        *)
THEOREM SeparationOfDuties == Spec => []ApprovedByOthers
  BY InvHolds, ApprovedStep, PTL

-----------------------------------------------------------------------------

LEMMA DeployableStep == Inv => PassIsDeployable
<1> DEFINE request == [policy |-> policy, target |-> change.subject.target,
                       image |-> change.subject.image, hosts |-> {change.subject.host},
                       requireSignature |-> TRUE, resultKey |-> TRUE, dry |-> FALSE]
<1> SUFFICES ASSUME Inv, evidence.decision = "pass", evidence.signed,
                    policy.required, policy.needSubject, policy.needWindow,
                    NEW now \in evidence.at .. evidence.at + policy.evidenceAge,
                    now \in change.window.start .. change.window.end
             PROVE  Admissible(request, now)
  BY DEF PassIsDeployable
<1>1. Violations(evidence.at) = {}
  BY DEF Inv, ReleaseInv
<1>2. /\ SubjectViolations(policy, change, subject, expected) = {}
      /\ ChangeViolations(policy, change, expected, evidence.at) = {}
  BY <1>1, NoViolations
<1>3. change # NoChange
  BY <1>2, ChangeAccepted
<1>4. subject # NoSubject
  BY <1>2, SubjectAccepted
<1>5. change.subject # NoSubject /\ change.subject = subject
  <2>1. change.subject # NoSubject
    BY <1>2, <1>3, <1>4 DEF SubjectViolations
  <2>2. Raised("RELEASE_SUBJECT_MISMATCH", change.subject # subject) = {}
    BY <1>2, <1>3, <1>4, <2>1 DEF SubjectViolations
  <2> QED
    BY <2>1, <2>2, RaisedNothing
<1>6. change.commit = subject.commit
  BY <1>3, <1>5 DEF Inv, ReleaseInv, ChangeMalformed
<1>7. change.window # NoWindow
  <2>1. WindowViolations(policy, change, evidence.at) = {}
    BY <1>2, <1>3, ChangeAccepted
  <2> QED
    BY <2>1, WindowAccepted
<1>8. /\ request.requireSignature /\ request.resultKey /\ ~request.dry
      /\ request.policy = policy /\ request.hosts = {change.subject.host}
      /\ request.target = change.subject.target /\ request.image = change.subject.image
  OBVIOUS
<1> HIDE DEF request
<1>9. Authentic(request)
  BY <1>8 DEF Authentic
<1>10. ForRequest(request)
  BY <1>3, <1>4, <1>5, <1>6, <1>8 DEF ForRequest
<1>11. InTime(request, now)
  <2>1. evidence.at \in Nat
    BY DEF Inv, TypeOK
  <2>2. policy.skew \in Nat /\ policy.evidenceAge \in Nat
    BY Durations
  <2>3. evidence.at <= now + policy.skew /\ now <= evidence.at + policy.evidenceAge
    BY <2>1, <2>2
  <2>4. change.window.start <= now /\ now <= change.window.end
    <3>1. change \in ChangeRequest
      BY <1>3 DEF Inv, TypeOK
    <3>2. change.window \in [start : Nat, end : Nat]
      BY <1>7, <3>1 DEF ChangeRequest
    <3>3. change.window.start \in Nat /\ change.window.end \in Nat
      BY <3>2
    <3> QED
      BY <3>3
  <2> QED
    BY <1>7, <2>3, <2>4 DEF InTime
<1> QED
  BY <1>8, <1>9, <1>10, <1>11 DEF Admissible

(* A strict gate passes nothing that the deployment would refuse in the       *)
(* approved window.                                                           *)
THEOREM GateAndDeploymentAgree == Spec => []PassIsDeployable
  BY InvHolds, DeployableStep, PTL
=============================================================================
