------------------------------ MODULE Suppression ------------------------------
(***************************************************************************)
(* What takes a finding off the list: signed VEX reviews and policy        *)
(* exceptions (finguard/checks/suppression.py), with the rules on what a   *)
(* document must look like to be loaded (finguard/vex.py,                  *)
(* finguard/policy_exceptions.py).                                         *)
(*                                                                         *)
(* Lengths of texts are TRUE or FALSE: long enough for the policy or not.  *)
(* The method, issuer and key of a signature are one signer, since each is *)
(* compared with an allowlist in the same way.                             *)
(***************************************************************************)
EXTENDS Findings

CONSTANTS
    Persons,      \* owners and approvers, already case-folded
    Signers,      \* who may have signed a VEX review
    PolicyIds,    \* policies, by id and version
    Targets,      \* services with their environments
    Digests,      \* digests of release subjects
    NoSubject,    \* the gate was called without a release subject
    NoVex         \* the gate was called without a VEX attestation

NoTime == -1

(* ReleaseSubject, as far as documents refer to it. *)
Subject == [target : Targets, digest : Digests]

(* An exception is granted for a fingerprint, at a severity and for a scope. *)
Exception == [id : Nat, fp : Categories \X Identifiers \X Places,
              revoked : BOOLEAN, created : Nat \cup {NoTime}, expires : Nat,
              owner : Persons, approver : Persons, reasoned : BOOLEAN,
              controlled : BOOLEAN, renewals : Nat, category : Categories,
              severity : Severities, policy : PolicyIds, target : Targets]

Statement == [fp : Categories \X Identifiers \X Places, state : Claims \ {"", "bogus"}, detailed : BOOLEAN]

Attestation == [subject : Digests, signer : Signers, verified : BOOLEAN,
                issued : Nat, expires : Nat, statements : SUBSET Statement]

(* A check adds its code to the violations if it has something to object to. *)
Raised(code, holds) == IF holds THEN {code} ELSE {}

-----------------------------------------------------------------------------

(* load_exceptions refuses the whole document. *)
ExceptionsMalformed(exceptions) ==
    \/ \E i, j \in DOMAIN exceptions : i # j /\ exceptions[i].id = exceptions[j].id
    \/ \E i \in DOMAIN exceptions :
          exceptions[i].created # NoTime /\ exceptions[i].created >= exceptions[i].expires

(* load_vex_attestation refuses a document without statements, or with two *)
(* on one fingerprint.                                                     *)
VexMalformed(vex) ==
    \/ vex.statements = {}
    \/ \E s, t \in vex.statements : s # t /\ s.fp = t.fp

-----------------------------------------------------------------------------

OutOfScope(p, e, f, subject) ==
    \/ e.category # f.category
    \/ e.severity # f.severity
    \/ e.policy # p.id
    \/ subject # NoSubject /\ e.target # subject.target

MistimedException(p, e, now) ==
    \/ e.created = NoTime /\ p.needScope
    \/ /\ e.created # NoTime
       /\ \/ e.created > now + p.skew
          \/ e.expires - e.created > p.maxValidity

(* Mutant: what may not be excepted at all is only looked up by category. *)
RejectedByCategory(p, e, f, subject, now) ==
    \/ e.revoked
    \/ e.expires <= now
    \/ e.owner = e.approver
    \/ f.category \notin p.exceptable
    \/ ~e.reasoned
    \/ p.needControls /\ ~e.controlled
    \/ e.renewals > p.maxRenewals
    \/ MistimedException(p, e, now)
    \/ p.needScope /\ OutOfScope(p, e, f, subject)

(* exception_rejection(): any ground will do. *)
Rejected(p, e, f, subject, now) ==
    \/ e.revoked
    \/ e.expires <= now
    \/ e.owner = e.approver
    \/ f.category \notin p.exceptable
    \/ f.severity \in p.nonExceptionable
    \/ ~e.reasoned
    \/ p.needControls /\ ~e.controlled
    \/ e.renewals > p.maxRenewals
    \/ MistimedException(p, e, now)
    \/ p.needScope /\ OutOfScope(p, e, f, subject)

Candidates(exceptions, f) == {i \in DOMAIN exceptions : exceptions[i].fp = Fingerprint(f)}

Rejections(p, exceptions, f, subject, now) ==
    {i \in Candidates(exceptions, f) : Rejected(p, exceptions[i], f, subject, now)}

(* Mutant: exceptions are kept in a dictionary, the last one for a *)
(* fingerprint replaces the others.                                *)
ExceptedByLast(p, exceptions, issues, subject, now) ==
    {f \in issues : \E i \in Candidates(exceptions, f) \ Rejections(p, exceptions, f, subject, now) :
        \A j \in Candidates(exceptions, f) : j <= i}

(* The candidates are tried in the order of the document; the first that is *)
(* not rejected ends the search.                                            *)
Excepted(p, exceptions, issues, subject, now) ==
    {f \in issues : Rejections(p, exceptions, f, subject, now) # Candidates(exceptions, f)}

(* Only rejections before the first accepted candidate are reported. *)
ExceptionViolations(p, exceptions, issues, subject, now) ==
    Raised("EXCEPTION_REJECTED",
           \E f \in issues : \E i \in Candidates(exceptions, f) :
               \A j \in Candidates(exceptions, f) :
                   j <= i => j \in Rejections(p, exceptions, f, subject, now))

-----------------------------------------------------------------------------

(* check_vex_attestation() finds something to object to. *)
VexRejected(p, vex, subject, now) ==
    \/ p.needSignedVex /\ ~vex.verified
    \/ p.vexSigners # {} /\ vex.signer \notin p.vexSigners
    \/ subject = NoSubject \/ vex.subject # subject.digest
    \/ vex.issued > now + p.skew
    \/ vex.expires <= now
    \/ vex.expires <= vex.issued
    \/ vex.expires - vex.issued > p.maxVexValidity

(* The statement is about this finding and asks for its suppression. *)
Asks(p, s, f) == s.fp = Fingerprint(f) /\ s.state \in p.vexStates

Grants(p, s, f) ==
    /\ Asks(p, s, f)
    /\ f.severity \notin p.nonSuppressible
    /\ p.needJustification => s.detailed

Vexed(p, vex, issues, subject, now) ==
    IF vex = NoVex \/ VexRejected(p, vex, subject, now) THEN {}
    ELSE {f \in issues : \E s \in vex.statements : Grants(p, s, f)}

(* What scanners say of themselves never suppresses, and must be covered by *)
(* a review.                                                                *)
ClaimViolations(p, vex, issues) ==
    Raised("VEX_STATE_INVALID", \E f \in issues : f.claim = "bogus")
    \cup
    Raised("VEX_ATTESTATION_MISSING",
           vex = NoVex /\ \E f \in issues : f.claim \in p.vexStates)

ReviewViolations(p, vex, issues, subject, now) ==
    IF VexRejected(p, vex, subject, now) THEN {"VEX_ATTESTATION_REJECTED"}
    ELSE Raised("VEX_FINDING_NOT_FOUND",
                \E s \in vex.statements : \A f \in issues : s.fp # Fingerprint(f))
         \cup
         Raised("VEX_NOT_SUPPRESSIBLE",
                \E s \in vex.statements, f \in issues : Asks(p, s, f) /\ ~Grants(p, s, f))

VexViolations(p, vex, issues, subject, now) ==
    ClaimViolations(p, vex, issues) \cup
    (IF vex = NoVex THEN {} ELSE ReviewViolations(p, vex, issues, subject, now))
=============================================================================
