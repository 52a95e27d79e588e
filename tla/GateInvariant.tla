---------------------------- MODULE GateInvariant ----------------------------
(***************************************************************************)
(* The inductive invariant of Gate: at every step, each list is what the   *)
(* reports and documents make it, and no objection is forgotten.           *)
(***************************************************************************)
EXTENDS Gate

Reported == {f \in Deduplicate(scans) : ~IsInventory(f)}

Reviewed == Vexed(policy, documents.vex, Reported, documents.subject, Now)

Waived == Excepted(policy, documents.exceptions, lists.issues, documents.subject, Now)

Unsorted == Reading \cup {"refused", "scans", "deduplicate"}

Sorted == {"severities", "licenses", "tests", "release", "decide", "done"}

InputsInv ==
    /\ stage \in Unsorted \cup {"apply_vex", "apply_exceptions"} \cup Sorted
    /\ policy \in Policies
    /\ scans \in Seq(Scan)
    /\ documents \in [exceptions : Seq(Exception), vex : Attestation \cup {NoVex},
                      subject : Subject \cup {NoSubject}]

ListsInv ==
    /\ lists = [l \in {"issues", "inventory", "vexed", "excepted", "active"} |-> lists[l]]
    /\ lists.vexed = IF stage \in Unsorted \cup {"apply_vex"} THEN {} ELSE Reviewed
    /\ lists.issues = IF stage \in Unsorted THEN {} ELSE Reported \ lists.vexed
    /\ lists.inventory = IF stage \in Unsorted THEN {}
                         ELSE {f \in Deduplicate(scans) : IsInventory(f)}
    /\ lists.excepted = IF stage \in Sorted THEN Waived ELSE {}
    /\ lists.active = IF stage \in Sorted THEN lists.issues \ lists.excepted ELSE {}

SeverityCodes == {"BLOCKING_FINDINGS", "UNKNOWN_SEVERITY", "FINDING_LIMIT_EXCEEDED",
                  "VULNERABILITY_WITHOUT_FIX"}

(* Of the severities, exactly what is active is objected to, from their check *)
(* on; what was objected to stays so, and the decision knows it.              *)
ObjectionInv ==
    /\ violations \cap SeverityCodes =
           IF stage \in Sorted \ {"severities"} THEN SeverityViolations(policy, lists.active) ELSE {}
    /\ decision = IF stage # "done" THEN "" ELSE IF violations = {} THEN "pass" ELSE "fail"

(* evaluate(): the local variables and what they stand for, between any two *)
(* of its statements.                                                       *)
GateInv == InputsInv /\ ListsInv /\ ObjectionInv

(* What was objected to in test reports is not forgotten either. *)
TestsInv ==
    stage \in {"release", "decide", "done"} =>
        CoverageViolations(policy, scans) \cup TestViolations(policy, scans) \subseteq violations
=============================================================================
