----------------------------- MODULE ReleaseChecks -----------------------------
(***************************************************************************)
(* What the gate asks of a release itself: is it the one that was built,   *)
(* scanned and approved, by the right people, at the right times?          *)
(* (finguard/checks/change.py, finguard/checks/provenance.py, with the     *)
(* documents they read: finguard/change.py, release.py, approvals.py and   *)
(* ScanProvenance of models.py.)                                           *)
(*                                                                         *)
(* A digest stands for all that is hashed, so equal digests are equal      *)
(* documents.  Times are numbers; a policy's hours and minutes are         *)
(* durations in the same unit.                                             *)
(***************************************************************************)
EXTENDS Naturals, FiniteSets, Sequences

CONSTANTS
    Names,         \* people as they are written in documents
    Casefold,      \* the identity behind a name
    Roles,         \* approval roles, already case-folded
    Signers,       \* who signs approvals and scans: issuer or runner, with a key
    Commits, Repositories, ImageDigests, Sboms, Places, Hosts,
    Scanners, ScanCategories, Targets, Commands, Rulesets,
    NoTime         \* a time that was left out; not a number

(* Which image reference: a repository and the digest that identifies it. *)
Image == [repository : Repositories, digest : ImageDigests]

(* ReleaseSubject; place is the service with its environment, target the *)
(* cluster, namespace, deployment and container.                         *)
Subject == [commit : Commits, image : Image, sbom : Sboms, place : Places,
            target : Targets, host : Hosts, built : Nat]

Approval == [approver : Names, role : Roles, at : Nat]

(* No change request, no subject, no attestation: Python's None. *)
NoSubject == [none |-> "subject"]
NoChange == [none |-> "change"]
NoAttestation == [none |-> "attestation"]
NoProvenance == [none |-> "provenance"]
NoWindow == [none |-> "window"]

ChangeRequest == [id : Nat, type : {"CB", "SR"}, place : Places, commit : Commits,
                  requester : Names, deployer : Names, actionable : BOOLEAN,
                  window : [start : Nat, end : Nat] \cup {NoWindow},
                  approvals : Seq(Approval), subject : Subject \cup {NoSubject}]

ApprovalAttestation == [change : ChangeRequest, id : Nat, subject : Subject,
                        approvals : Seq(Approval), issued : Nat,
                        signer : Signers, verified : BOOLEAN]

Provenance == [report : Sboms, scanner : Scanners, category : ScanCategories,
               commit : Commits, image : ImageDigests \cup {""}, target : Hosts \cup {""},
               complete : BOOLEAN, exit : 0 .. 255, command : Commands, verified : BOOLEAN,
               signer : Signers, ruleset : Rulesets, database : BOOLEAN,
               updated : Nat \cup {NoTime}, started : Nat, finished : Nat]

Report == [scanner : Scanners, category : ScanCategories, digest : Sboms,
           targets : Seq(Hosts), provenance : Provenance \cup {NoProvenance}]

(* A check adds its code to the violations if it has something to object to. *)
Raised(code, holds) == IF holds THEN {code} ELSE {}

-----------------------------------------------------------------------------
(* Loading: what a document must look like. *)

(* ChangeRequest._validate_shape *)
ChangeMalformed(c) ==
    \/ c.window # NoWindow /\ c.window.start >= c.window.end
    \/ c.subject # NoSubject /\ (c.subject.place # c.place \/ c.subject.commit # c.commit)

(* load_approval_attestation: a payload without approvals. *)
AttestationMalformed(a) == a.approvals = <<>>

(* create_approval_attestation: what is signed for a change and a subject. *)
Attestable(c, s) == c.subject # NoSubject /\ c.subject = s

Attested(c, s, signer, issued, verified) ==
    [change |-> c, id |-> c.id, subject |-> s, approvals |-> c.approvals,
     issued |-> issued, signer |-> signer, verified |-> verified]

(* ScanProvenance.validate *)
ProvenanceMalformed(v) == v.started > v.finished

-----------------------------------------------------------------------------
(* Approvers and roles *)

Approvals(c) == {c.approvals[i] : i \in DOMAIN c.approvals}

Identity(a) == Casefold[a.approver]

Approvers(c) == {Identity(a) : a \in Approvals(c)}

(* Mutant: roles are only counted. *)
EnoughApprovers(c, roles) == Cardinality(roles) <= Cardinality(Approvers(c))

(* _roles_have_distinct_approvers: see RoleMatching for how it finds out. *)
HaveDistinctApprovers(c, roles) ==
    \E holder \in [roles -> Approvers(c)] :
        /\ \A r \in roles : \E a \in Approvals(c) : a.role = r /\ Identity(a) = holder[r]
        /\ \A r, s \in roles : r # s => holder[r] # holder[s]

RoleViolations(p, c) ==
    LET missing == p.roles \ {a.role : a \in Approvals(c)}
    IN  IF missing # {} THEN {"APPROVAL_ROLE_MISSING"}
        ELSE Raised("APPROVAL_ROLE_SEPARATION_VIOLATION", ~HaveDistinctApprovers(c, p.roles))

(* Requester, deployer and approvers, as identities. *)
Conflict(c) ==
    LET executing == {Casefold[c.requester], Casefold[c.deployer]}
    IN  Casefold[c.requester] = Casefold[c.deployer] \/ Approvers(c) \cap executing # {}

-----------------------------------------------------------------------------
(* check_change *)

WindowViolations(p, c, now) ==
    IF c.window = NoWindow
    THEN Raised("DEPLOYMENT_WINDOW_MISSING", p.needWindow)
    ELSE Raised("DEPLOYMENT_WINDOW_TOO_LONG", c.window.end - c.window.start > p.maxWindow)
         \cup Raised("DEPLOYMENT_WINDOW_EXPIRED", now > c.window.end)

(* Approvals may not be dated after the gate, nor before what they approve. *)
TimeViolations(p, c, now) ==
    Raised("APPROVAL_TIME_INVALID", \E a \in Approvals(c) : a.at > now)
    \cup Raised("APPROVAL_PRECEDES_BUILD",
                /\ p.approveAfterBuild /\ c.subject # NoSubject
                /\ \E a \in Approvals(c) : a.at < c.subject.built)

ChangeViolations(p, c, expected, now) ==
    IF c = NoChange
    THEN Raised("CHANGE_REQUEST_MISSING", p.required)
    ELSE UNION {Raised("CHANGE_TYPE_NOT_ALLOWED", c.type \notin p.types),
                Raised("COMMIT_MISMATCH", expected # "" /\ c.commit # expected),
                Raised("ROLLBACK_PLAN_INSUFFICIENT", p.needPlan /\ ~c.actionable),
                WindowViolations(p, c, now),
                Raised("APPROVALS_INSUFFICIENT", Cardinality(Approvers(c)) < p.minApprovals),
                RoleViolations(p, c),
                TimeViolations(p, c, now),
                Raised("SEPARATION_OF_DUTIES_VIOLATION", p.separate /\ Conflict(c))}

-----------------------------------------------------------------------------
(* check_approval_attestation *)

(* Approvals as a multiset of identity, role and time: sorted lists of these *)
(* are compared.                                                             *)
Folded(a) == [approver |-> Identity(a), role |-> a.role, at |-> a.at]

Copies(approvals, x) == Cardinality({i \in DOMAIN approvals : Folded(approvals[i]) = x})

SameApprovals(as, bs) ==
    LET folded == {Folded(as[i]) : i \in DOMAIN as} \cup {Folded(bs[i]) : i \in DOMAIN bs}
    IN  \A x \in folded : Copies(as, x) = Copies(bs, x)

(* Mutant: only the approved subject has to be the one that was signed. *)
MismatchOfSubject(c, s, a) == s = NoSubject \/ a.subject # s

Mismatch(c, s, a) ==
    \/ c = NoChange
    \/ a.id # c.id
    \/ a.change # c
    \/ ~SameApprovals(a.approvals, c.approvals)
    \/ c.subject = NoSubject
    \/ a.subject # c.subject
    \/ s = NoSubject
    \/ a.subject # s

(* Mutant: what is approved later than signed goes unnoticed. *)
IssuedLate(p, c, s, a, now) ==
    \/ s # NoSubject /\ a.issued < s.built
    \/ a.issued > now + p.skew

Mistimed(p, c, s, a, now) ==
    \/ c # NoChange /\ \E b \in Approvals(c) : a.issued < b.at
    \/ s # NoSubject /\ a.issued < s.built
    \/ a.issued > now + p.skew

AttestationViolations(p, c, s, a, now) ==
    IF a = NoAttestation
    THEN Raised("APPROVAL_ATTESTATION_MISSING", p.needAttestation)
    ELSE UNION {Raised("APPROVAL_ATTESTATION_UNTRUSTED", ~a.verified),
                Raised("APPROVAL_SIGNER_UNTRUSTED",
                       p.approvalSigners # {} /\ a.signer \notin p.approvalSigners),
                Raised("APPROVAL_ATTESTATION_SUBJECT_MISMATCH", Mismatch(c, s, a)),
                Raised("APPROVAL_ATTESTATION_TIME_INVALID", Mistimed(p, c, s, a, now))}

-----------------------------------------------------------------------------
(* check_release_subject *)

SubjectViolations(p, c, s, expected) ==
    IF s = NoSubject
    THEN Raised("RELEASE_SUBJECT_MISSING", p.needSubject)
    ELSE Raised("RELEASE_COMMIT_MISMATCH", expected # "" /\ s.commit # expected)
         \cup (IF c = NoChange
               THEN Raised("RELEASE_APPROVAL_SUBJECT_MISSING", p.required)
               ELSE IF c.subject = NoSubject
               THEN {"RELEASE_APPROVAL_SUBJECT_MISSING"}
               ELSE Raised("RELEASE_SUBJECT_MISMATCH", c.subject # s))

-----------------------------------------------------------------------------
(* check_scan_provenance *)

(* The commit scans have to be of; "" if neither subject nor pipeline tells. *)
Source(s, expected) == IF s = NoSubject THEN expected ELSE s.commit

Misattributed(p, s, expected, r) ==
    LET v == r.provenance
    IN  \/ v.report # r.digest
        \/ v.scanner # r.scanner
        \/ v.category # r.category
        \/ Source(s, expected) # "" /\ v.commit # Source(s, expected)
        \/ s # NoSubject /\ r.category \in p.bound /\ v.image # s.image.digest
        \/ r.category = "dast" /\ (v.target = "" \/ r.targets # <<v.target>>)

(* What the policy allows of each scanner; a scanner without an entry may do *)
(* anything, one with an empty entry nothing.                                *)
Unusual(p, r) ==
    LET v == r.provenance
    IN  \/ r.scanner \in DOMAIN p.exits /\ v.exit \notin p.exits[r.scanner]
        \/ r.scanner \in DOMAIN p.commands /\ v.command \notin p.commands[r.scanner]
        \/ r.scanner \in DOMAIN p.rulesets /\ v.ruleset # p.rulesets[r.scanner]

Untrusted(p, v) ==
    \/ p.needSignedScans /\ ~v.verified
    \/ p.scanSigners # {} /\ v.signer \notin p.scanSigners

DatabaseViolations(p, r, now) ==
    LET v == r.provenance
    IN  IF r.scanner \notin p.databaseFor THEN {}
        ELSE Raised("SCAN_DATABASE_PROVENANCE_MISSING", ~v.database)
             \cup (IF v.updated = NoTime \/ v.updated > now + p.skew
                   THEN {"SCAN_DATABASE_TIME_INVALID"}
                   ELSE Raised("SCAN_DATABASE_STALE", v.updated + p.maxDatabaseAge < now))

(* Mutant: the age of a report is forgiven the clock skew, twice. *)
FreshnessForgiven(p, v, now) ==
    IF v.started > v.finished \/ v.finished > now + p.skew
    THEN {"SCAN_ATTESTATION_TIME_INVALID"}
    ELSE Raised("SCAN_ATTESTATION_STALE", v.finished + p.maxReportAge + 2 * p.skew < now)

FreshnessViolations(p, v, now) ==
    IF v.started > v.finished \/ v.finished > now + p.skew
    THEN {"SCAN_ATTESTATION_TIME_INVALID"}
    ELSE Raised("SCAN_ATTESTATION_STALE", v.finished + p.maxReportAge < now)

ProvenanceViolations(p, s, expected, r, now) ==
    Raised("SBOM_SUBJECT_MISMATCH",
           s # NoSubject /\ r.scanner = "cyclonedx" /\ r.digest # s.sbom)
    \cup (IF r.provenance = NoProvenance
          THEN Raised("SCAN_ATTESTATION_MISSING", p.needScanAttestations)
          ELSE UNION {Raised("SCAN_ATTESTATION_SUBJECT_MISMATCH", Misattributed(p, s, expected, r)),
                      Raised("SCAN_ATTESTATION_INCOMPLETE", ~r.provenance.complete),
                      Raised("SCAN_EXECUTION_UNUSUAL", Unusual(p, r)),
                      Raised("SCAN_UNTRUSTED", Untrusted(p, r.provenance)),
                      DatabaseViolations(p, r, now),
                      FreshnessViolations(p, r.provenance, now)})
=============================================================================
