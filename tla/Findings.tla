------------------------------- MODULE Findings -------------------------------
(***************************************************************************)
(* Findings of scanners, and how the gate makes one list of what several   *)
(* reports say: finguard/models.py (Severity, Finding, ScanResult) and     *)
(* PolicyEngine._deduplicate of finguard/gate.py.                          *)
(*                                                                         *)
(* A finding is known by its identifiers (the rule and its aliases, as     *)
(* numbers in the order sorted() gives their names), its category and its  *)
(* place: component, version and licence, or location, method, parameter.  *)
(* Spelling (case folding, slashes) is left out.  A finding of that kind   *)
(* has a licence instead of a location in its fingerprint, so which kind   *)
(* it is can be told from its place.                                       *)
(***************************************************************************)
EXTENDS Integers, Sequences, FiniteSets

CONSTANTS
    Identifiers,  \* names of rules and vulnerabilities
    CVEs,         \* those that start with "cve-"
    Categories,   \* what a scanner looks for
    Places,       \* where it looks
    LicensePlaces \* those whose finding is of the kind "dependency_license"

(* Severity: INFO 0, LOW 1, MEDIUM 2, HIGH 3, CRITICAL 4. *)
UNKNOWN == 5
Severities == 0 .. UNKNOWN

(* What a report may say of itself: "" and the states of vex.KNOWN_STATES; *)
(* anything else is not a VEX state.                                       *)
Claims == {"", "not_affected", "exploitable", "bogus"}

Finding == [names : (SUBSET Identifiers) \ {{}}, category : Categories, place : Places,
            severity : Severities, fixed : BOOLEAN, claim : Claims]

ASSUME FindingsAssumption ==
    /\ Identifiers \subseteq Nat
    /\ CVEs \subseteq Identifiers
    /\ LicensePlaces \subseteq Places

(* ScanResult; a metric that is not a number in its range is Invalid. *)
Invalid == -1
Statuses == {"passed", "findings", "error", "skipped"}
Metric == Nat \cup {Invalid}

Scan == [scanner : STRING, category : STRING, status : Statuses, errors : BOOLEAN,
         findings : Seq(Finding), components : Metric, coverage : Metric,
         failures : Metric, tests : Metric, skipped : Metric]

-----------------------------------------------------------------------------

First(names) == CHOOSE n \in names : \A m \in names : n <= m

(* A CVE among the aliases is preferred to the scanner's own rule name. *)
CanonicalRule(f) ==
    LET cves == f.names \cap CVEs
    IN  First(IF cves # {} THEN cves ELSE f.names)

Fingerprint(f) == <<f.category, CanonicalRule(f), f.place>>

(* Licences of components are inventory, not issues, in any category. *)
IsInventory(f) == f.category = "license" \/ f.place \in LicensePlaces

(* Positions of all findings in the reports, and the order they are met in. *)
Positions(scans) == UNION {{i} \X DOMAIN scans[i].findings : i \in DOMAIN scans}

At(scans, o) == scans[o[1]].findings[o[2]]

NotAfter(o, q) == o[1] < q[1] \/ (o[1] = q[1] /\ o[2] <= q[2])

Seen(scans, fp) == {o \in Positions(scans) : Fingerprint(At(scans, o)) = fp}

(* Mutant: an unknown severity, sorted after all others, wins. *)
KnownOrNot(scans, fp) == Seen(scans, fp)

(* An unknown severity counts only if no scanner knows better. *)
Known(scans, fp) ==
    LET known == {o \in Seen(scans, fp) : At(scans, o).severity # UNKNOWN}
    IN  IF known # {} THEN known ELSE Seen(scans, fp)

(* Mutant: the first report of an issue is kept. *)
Earliest(scans, pool) == CHOOSE o \in pool : \A q \in pool : NotAfter(o, q)

(* max() returns the first of the worst observations, and the merged *)
(* finding takes all but its list of observers from that one.        *)
Worst(scans, pool) ==
    CHOOSE o \in pool : \A q \in pool :
        \/ At(scans, q).severity < At(scans, o).severity
        \/ At(scans, q).severity = At(scans, o).severity /\ NotAfter(o, q)

Fingerprints(scans) == {Fingerprint(At(scans, o)) : o \in Positions(scans)}

Merged(scans, fp) == At(scans, Worst(scans, Known(scans, fp)))

Deduplicate(scans) == {Merged(scans, fp) : fp \in Fingerprints(scans)}
=============================================================================
