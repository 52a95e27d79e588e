------------------------------ MODULE GateProofs ------------------------------
(***************************************************************************)
(* Theorems about Gate, for any policies, reports and documents.           *)
(***************************************************************************)
EXTENDS GateInvariant, Sums

-----------------------------------------------------------------------------
(* Merging: the worst observation exists, and is what the finding says. *)

LEMMA PositionType ==
    ASSUME NEW reports \in Seq(Scan), NEW o \in Positions(reports)
    PROVE  /\ o = <<o[1], o[2]>> /\ o[1] \in Nat /\ o[2] \in Nat
           /\ At(reports, o) \in Finding
           /\ At(reports, o).severity \in 0 .. 5
<1>1. PICK i \in DOMAIN reports : o \in {i} \X DOMAIN reports[i].findings
  BY DEF Positions
<1>2. reports[i] \in Scan
  BY <1>1
<1>3. reports[i].findings \in Seq(Finding)
  BY <1>2 DEF Scan
<1>4. o[1] = i /\ o[2] \in DOMAIN reports[i].findings /\ o = <<o[1], o[2]>>
  BY <1>1
<1>5. reports[i].findings[o[2]] \in Finding
  BY <1>3, <1>4
<1>6. At(reports, o) \in Finding
  BY <1>4, <1>5 DEF At
<1>7. i \in Nat /\ o[2] \in Nat
  BY <1>1, <1>3, <1>4
<1>8. At(reports, o).severity \in 0 .. 5
  BY <1>6 DEF Finding, Severities, UNKNOWN
<1> QED
  BY <1>4, <1>6, <1>7, <1>8

(* max() over observations of known severities has a first worst one. *)
LEMMA WorstExists ==
    ASSUME NEW reports \in Seq(Scan), NEW pool \in SUBSET Positions(reports), pool # {}
    PROVE  /\ Worst(reports, pool) \in pool
           /\ \A q \in pool :
                 At(reports, q).severity <= At(reports, Worst(reports, pool)).severity
<1> DEFINE sev(o) == At(reports, o).severity
<1>1. \A o \in pool : sev(o) \in 0 .. 5 /\ o = <<o[1], o[2]>> /\ o[1] \in Nat /\ o[2] \in Nat
  BY PositionType
<1>2. \A o \in pool : sev(o) \in Int
  BY <1>1
<1> HIDE DEF sev
<1>w. PICK w \in pool : \A q \in pool : sev(q) <= sev(w)
  <2> DEFINE S == {5 - sev(o) : o \in pool}
  <2>1. S \in SUBSET Nat /\ S # {}
    BY <1>1
  <2>2. PICK n \in S : \A m \in S : n <= m
    <3> HIDE DEF S
    <3> QED BY <2>1, LeastNumber
  <2>3. PICK w \in pool : n = 5 - sev(w)
    BY <2>2
  <2>4. ASSUME NEW q \in pool PROVE sev(q) <= sev(w)
    <3>1. 5 - sev(w) <= 5 - sev(q)
      BY <2>2, <2>3
    <3> QED BY SMTT(60), <3>1, <1>1
  <2> QED BY <2>3, <2>4
<1>3. PICK i \in {o[1] : o \in {q \in pool : sev(q) = sev(w)}} :
          \A q \in pool : sev(q) = sev(w) => i <= q[1]
  <2> DEFINE S == {o[1] : o \in {q \in pool : sev(q) = sev(w)}}
  <2>1. S \in SUBSET Nat /\ S # {}
    BY <1>1
  <2>2. PICK n \in S : \A m \in S : n <= m
    <3> HIDE DEF S
    <3> QED BY <2>1, LeastNumber
  <2> QED BY <2>2
<1>4. PICK j \in {o[2] : o \in {q \in pool : sev(q) = sev(w) /\ q[1] = i}} :
          \A q \in pool : sev(q) = sev(w) /\ q[1] = i => j <= q[2]
  <2> DEFINE S == {o[2] : o \in {q \in pool : sev(q) = sev(w) /\ q[1] = i}}
  <2>1. S \in SUBSET Nat /\ S # {}
    BY <1>1, <1>3
  <2>2. PICK n \in S : \A m \in S : n <= m
    <3> HIDE DEF S
    <3> QED BY <2>1, LeastNumber
  <2> QED BY <2>2
<1>5. PICK o \in pool : sev(o) = sev(w) /\ o[1] = i /\ o[2] = j
  BY <1>4
<1>6. ASSUME NEW q \in pool
      PROVE  sev(q) < sev(o) \/ (sev(q) = sev(o) /\ NotAfter(o, q))
  <2>1. CASE sev(q) # sev(w)
    <3>1. sev(q) \in Int /\ sev(w) \in Int
      BY <1>2, Zenon
    <3>2. sev(q) <= sev(w) /\ sev(o) = sev(w)
      BY <1>w, <1>5
    <3>3. sev(q) < sev(o)
      BY <2>1, <3>1, <3>2
    <3> QED BY <3>3
  <2>2. CASE sev(q) = sev(w)
    <3>1. i <= q[1] /\ (q[1] = i => j <= q[2])
      BY <2>2, <1>3, <1>4
    <3>2. i \in Nat /\ q[1] \in Nat
      BY <1>1, <1>5
    <3> QED BY <2>2, <3>1, <3>2, <1>5 DEF NotAfter
  <2> QED BY <2>1, <2>2
<1>7. \E x \in pool : \A q \in pool :
          \/ At(reports, q).severity < At(reports, x).severity
          \/ At(reports, q).severity = At(reports, x).severity /\ NotAfter(x, q)
  BY <1>6 DEF sev
<1>8. Worst(reports, pool) \in pool /\ \A q \in pool :
          \/ At(reports, q).severity < At(reports, Worst(reports, pool)).severity
          \/ At(reports, q).severity = At(reports, Worst(reports, pool)).severity
                /\ NotAfter(Worst(reports, pool), q)
  BY <1>7, Zenon DEF Worst
<1>9. \A q \in pool : At(reports, q).severity \in Int
  BY <1>2 DEF sev
<1> QED
  BY <1>8, <1>9

(* What is merged for an observation has its fingerprint, and the severity of  *)
(* an observation that is known to be at least as bad.                         *)
LEMMA MergedFacts ==
    ASSUME NEW reports \in Seq(Scan), NEW o \in Positions(reports),
           NEW f, f = Merged(reports, Fingerprint(At(reports, o)))
    PROVE  /\ f \in Deduplicate(reports) /\ f \in Finding
           /\ Fingerprint(f) = Fingerprint(At(reports, o))
           /\ \E q \in Positions(reports) : f = At(reports, q)
           /\ At(reports, o).severity # UNKNOWN =>
                 f.severity <= 4 /\ At(reports, o).severity <= f.severity
<1> DEFINE fp == Fingerprint(At(reports, o))
           pool == Known(reports, fp)
           w == Worst(reports, pool)
<1>1. o \in Seen(reports, fp)
  BY DEF Seen
<1>2. pool \in SUBSET Seen(reports, fp) /\ pool # {}
  BY <1>1 DEF Known
<1>3. pool \in SUBSET Positions(reports)
  BY <1>2 DEF Seen
<1>4. w \in pool /\ \A q \in pool : At(reports, q).severity <= At(reports, w).severity
  <2> HIDE DEF pool
  <2> QED BY <1>2, <1>3, WorstExists
<1>5. f = At(reports, w)
  BY DEF Merged
<1>6. f \in Finding /\ f.severity \in 0 .. 5
  BY <1>3, <1>4, <1>5, PositionType
<1>7. Fingerprint(f) = fp
  BY <1>2, <1>4, <1>5 DEF Seen
<1>8. f \in Deduplicate(reports)
  BY DEF Deduplicate, Fingerprints
<1>9. ASSUME At(reports, o).severity # UNKNOWN
      PROVE  f.severity <= 4 /\ At(reports, o).severity <= f.severity
  <2>1. o \in pool /\ \A q \in pool : At(reports, q).severity # UNKNOWN
    BY <1>1, <1>9 DEF Known
  <2>2. At(reports, o).severity <= f.severity /\ f.severity # UNKNOWN
    <3> HIDE DEF pool, w
    <3> QED BY <2>1, <1>4, <1>5
  <2> QED BY <2>2, <1>6 DEF UNKNOWN
<1>10. w \in Positions(reports)
  <2> HIDE DEF pool, w
  <2> QED BY <1>3, <1>4
<1> QED
  BY <1>5, <1>6, <1>7, <1>8, <1>9, <1>10

(* The list of findings has one for each fingerprint. *)
LEMMA DeduplicateFacts ==
    ASSUME NEW reports \in Seq(Scan), NEW f \in Deduplicate(reports)
    PROVE  /\ f \in Finding
           /\ f = Merged(reports, Fingerprint(f))
           /\ \E o \in Positions(reports) : Fingerprint(At(reports, o)) = Fingerprint(f)
<1>1. PICK o \in Positions(reports) : f = Merged(reports, Fingerprint(At(reports, o)))
  BY DEF Deduplicate, Fingerprints
<1> QED
  BY <1>1, MergedFacts

LEMMA InventoryByFingerprint ==
    ASSUME NEW f, NEW g, Fingerprint(f) = Fingerprint(g)
    PROVE  f.category = g.category /\ (IsInventory(f) <=> IsInventory(g))
BY DEF Fingerprint, IsInventory

-----------------------------------------------------------------------------
(* The documents behind what is taken off the list. *)

(* An accepted exception speaks for every severity up to that of the finding. *)
LEMMA ExceptedIsCovered ==
    ASSUME GateInv, NEW issues, NEW f \in Excepted(policy, documents.exceptions, issues,
                                                  documents.subject, Now),
           NEW s \in 0 .. 4, f.severity \in s .. 4
    PROVE  ExceptionFor(Fingerprint(f), s)
<1> DEFINE all == documents.exceptions
<1>1. PICK i \in Candidates(all, f) : ~Rejected(policy, all[i], f, documents.subject, Now)
  BY DEF Excepted, Rejections
<1>2. i \in DOMAIN all /\ all[i].fp = Fingerprint(f)
  BY <1>1 DEF Candidates
<1>3. all[i] \in Exception
  BY <1>2 DEF GateInv, InputsInv
<1>4. /\ ~all[i].revoked /\ ~(all[i].expires <= Now) /\ all[i].owner # all[i].approver
      /\ f.severity \notin policy.nonExceptionable
      /\ ~MistimedException(policy, all[i], Now)
      /\ policy.needScope => ~OutOfScope(policy, all[i], f, documents.subject)
  BY <1>1 DEF Rejected
<1>5. policy.skew \in Nat /\ Now \in Nat
  BY GateAssumption DEF GateInv, InputsInv, GateAssumption
<1>6. Now < all[i].expires
  BY <1>3, <1>4, <1>5 DEF Exception
<1>7. all[i].created <= Now + policy.skew
  <2>1. all[i].created \in Nat \cup {NoTime}
    BY <1>3 DEF Exception
  <2>2. all[i].created # NoTime => ~(all[i].created > Now + policy.skew)
    BY <1>4 DEF MistimedException
  <2> QED BY <2>1, <2>2, <1>5 DEF NoTime
<1>8. policy.needScope => all[i].policy = policy.id /\ all[i].severity = f.severity
  BY <1>4 DEF OutOfScope
<1> QED
  BY <1>2, <1>4, <1>6, <1>7, <1>8 DEF ExceptionFor

(* So does an accepted review. *)
LEMMA VexedIsCovered ==
    ASSUME GateInv, NEW issues, NEW f \in Vexed(policy, documents.vex, issues,
                                               documents.subject, Now),
           NEW s \in 0 .. 4, f.severity \in s .. 4
    PROVE  ReviewFor(Fingerprint(f), s)
<1> DEFINE vex == documents.vex
<1>1. vex # NoVex /\ ~VexRejected(policy, vex, documents.subject, Now)
  BY DEF Vexed
<1>2. PICK t \in vex.statements : Grants(policy, t, f)
  BY <1>1 DEF Vexed
<1>3. vex \in Attestation
  BY <1>1 DEF GateInv, InputsInv
<1>4. policy.skew \in Nat /\ Now \in Nat
  BY GateAssumption DEF GateInv, InputsInv, GateAssumption
<1>5. vex.issued \in Nat /\ vex.expires \in Nat
  BY <1>3 DEF Attestation
<1>6. /\ policy.needSignedVex => vex.verified
      /\ documents.subject # NoSubject /\ vex.subject = documents.subject.digest
      /\ ~(vex.issued > Now + policy.skew) /\ ~(vex.expires <= Now)
  BY <1>1 DEF VexRejected
<1>7. t.fp = Fingerprint(f) /\ t.state \in policy.vexStates
      /\ f.severity \notin policy.nonSuppressible
  BY <1>2 DEF Grants, Asks
<1>8. vex.issued <= Now + policy.skew /\ Now < vex.expires
  BY <1>4, <1>5, <1>6
<1> QED
  BY <1>1, <1>2, <1>6, <1>7, <1>8 DEF ReviewFor

-----------------------------------------------------------------------------
(* The invariant. *)

LEMMA InvInit == Init => GateInv
<1> SUFFICES ASSUME Init PROVE GateInv
  OBVIOUS
<1>1. InputsInv
  <2>1. stage \in Unsorted /\ policy \in Policies
    BY DEF Init, Reading, Unsorted
  <2>2. scans \in Seq(Scan)
    <3>1. <<>> \in Seq(Scan)
      OBVIOUS
    <3> QED BY <3>1 DEF Init
  <2>3. documents \in [exceptions : Seq(Exception), vex : Attestation \cup {NoVex},
                       subject : Subject \cup {NoSubject}]
    <3>1. <<>> \in Seq(Exception)
      OBVIOUS
    <3> QED BY <3>1 DEF Init, NoDocuments
  <2> QED BY <2>1, <2>2, <2>3 DEF InputsInv
<1>2. ListsInv
  BY DEF ListsInv, Init, NoLists, Reading, Unsorted, Sorted
<1>3. ObjectionInv
  BY DEF ObjectionInv, Init, Sorted
<1> QED
  BY <1>1, <1>2, <1>3 DEF GateInv

(* As long as nothing is sorted, all lists are empty. *)
LEMMA UnsortedLists ==
    ASSUME ListsInv, stage \in Unsorted
    PROVE  lists = [l \in {"issues", "inventory", "vexed", "excepted", "active"} |-> {}]
BY DEF ListsInv, Unsorted, Sorted, Reading

(* Steps that stay among the unsorted stages. *)
LEMMA StaysUnsorted ==
    ASSUME GateInv, InputsInv', stage \in Unsorted, stage' \in Unsorted, UNCHANGED lists,
           UNCHANGED decision, violations' \cap SeverityCodes = violations \cap SeverityCodes
    PROVE  GateInv'
<1>1. lists = [l \in {"issues", "inventory", "vexed", "excepted", "active"} |-> {}]
  BY UnsortedLists DEF GateInv
<1>2. /\ stage' \notin Sorted \cup {"done", "apply_vex", "apply_exceptions"}
      /\ stage \notin Sorted
  BY DEF Unsorted, Reading, Sorted
<1>3. ListsInv'
  BY <1>1, <1>2 DEF ListsInv
<1>4. stage # "done" /\ decision' = ""
  BY DEF GateInv, ObjectionInv, Unsorted, Reading
<1>5. ObjectionInv'
  BY <1>2, <1>4 DEF GateInv, ObjectionInv
<1> QED
  BY <1>3, <1>5 DEF GateInv

LEMMA ReadingKeepsInv ==
    ASSUME GateInv, ReadReport \/ LoadSubject \/ LoadExceptions \/ LoadVex \/ Refuse
    PROVE  GateInv'
<1>1. /\ stage \in Unsorted /\ stage' \in Unsorted
      /\ UNCHANGED <<policy, lists, violations, decision>>
  BY DEF Unsorted, Reading, ReadReport, LoadSubject, LoadExceptions, LoadVex, Refuse
<1>2. scans' \in Seq(Scan)
  <2>1. CASE ReadReport
    <3>1. PICK report \in Reports : scans' = Append(scans, report)
      BY <2>1 DEF ReadReport
    <3>2. scans \in Seq(Scan) /\ report \in Scan
      BY GateAssumption DEF GateInv, InputsInv, GateAssumption
    <3> QED BY <3>1, <3>2
  <2>2. CASE UNCHANGED scans
    BY <2>2 DEF GateInv, InputsInv
  <2> QED
    BY <2>1, <2>2 DEF LoadSubject, LoadExceptions, LoadVex, Refuse
<1>3. documents' \in [exceptions : Seq(Exception), vex : Attestation \cup {NoVex},
                      subject : Subject \cup {NoSubject}]
  <2> DEFINE D == [exceptions : Seq(Exception), vex : Attestation \cup {NoVex},
                   subject : Subject \cup {NoSubject}]
  <2>1. documents \in D
    BY DEF GateInv, InputsInv
  <2>2. /\ \A e \in ExceptionFiles : e \in Seq(Exception)
        /\ \A v \in VexFiles : v \in Attestation
        /\ \A x \in Subjects \cup {NoSubject} : x \in Subject \cup {NoSubject}
    BY GateAssumption DEF GateAssumption
  <2>3. CASE \E x \in Subjects \cup {NoSubject} : documents' = [documents EXCEPT !.subject = x]
    BY <2>1, <2>2, <2>3
  <2>4. CASE \E e \in ExceptionFiles : documents' = [documents EXCEPT !.exceptions = e]
    BY <2>1, <2>2, <2>4
  <2>5. CASE \E v \in VexFiles : documents' = [documents EXCEPT !.vex = v]
    BY <2>1, <2>2, <2>5
  <2>6. CASE UNCHANGED documents
    BY <2>1, <2>6
  <2> QED
    BY <2>3, <2>4, <2>5, <2>6 DEF ReadReport, LoadSubject, LoadExceptions, LoadVex, Refuse
<1>4. InputsInv'
  BY <1>1, <1>2, <1>3 DEF GateInv, InputsInv
<1> QED
  BY <1>1, <1>4, StaysUnsorted

(* No other check has the codes of the severities. *)
LEMMA OtherCodes ==
    ASSUME NEW inventory, NEW issues
    PROVE  /\ RequiredScanViolations(policy, scans) \cap SeverityCodes = {}
           /\ SbomViolations(policy, scans) \cap SeverityCodes = {}
           /\ VexViolations(policy, documents.vex, issues, documents.subject, Now)
                 \cap SeverityCodes = {}
           /\ ExceptionViolations(policy, documents.exceptions, issues, documents.subject, Now)
                 \cap SeverityCodes = {}
           /\ LicenseViolations(policy, inventory) \cap SeverityCodes = {}
           /\ CoverageViolations(policy, scans) \cap SeverityCodes = {}
           /\ TestViolations(policy, scans) \cap SeverityCodes = {}
           /\ \A objects \in BOOLEAN : Raised("RELEASE", objects) \cap SeverityCodes = {}
<1>1. RequiredScanViolations(policy, scans) \cap SeverityCodes = {}
  BY DEF Raised, RequiredScanViolations, SeverityCodes
<1>2. SbomViolations(policy, scans) \cap SeverityCodes = {}
  BY DEF Raised, SbomViolations, SeverityCodes
<1>3. VexViolations(policy, documents.vex, issues, documents.subject, Now)
         \cap SeverityCodes = {}
  BY DEF Raised, VexViolations, ClaimViolations, ReviewViolations, SeverityCodes
<1>4. ExceptionViolations(policy, documents.exceptions, issues, documents.subject, Now)
         \cap SeverityCodes = {}
  BY DEF Raised, ExceptionViolations, SeverityCodes
<1>5. LicenseViolations(policy, inventory) \cap SeverityCodes = {}
  BY DEF Raised, LicenseViolations, SeverityCodes
<1>6. CoverageViolations(policy, scans) \cap SeverityCodes = {}
  BY DEF Raised, CoverageViolations, SeverityCodes
<1>7. TestViolations(policy, scans) \cap SeverityCodes = {}
  BY DEF Raised, TestViolations, SeverityCodes
<1>8. \A objects \in BOOLEAN : Raised("RELEASE", objects) \cap SeverityCodes = {}
  BY DEF Raised, SeverityCodes
<1> QED
  BY <1>1, <1>2, <1>3, <1>4, <1>5, <1>6, <1>7, <1>8

LEMMA SeverityCodesOnly ==
    ASSUME NEW active
    PROVE  SeverityViolations(policy, active) \subseteq SeverityCodes
BY DEF SeverityViolations, SeverityCodes, Raised

(* The steps of evaluate() leave its inputs alone. *)
LEMMA CheckingKeepsInputs ==
    ASSUME GateInv, UNCHANGED <<policy, scans, documents>>,
           stage' \in Unsorted \cup {"apply_vex", "apply_exceptions"} \cup Sorted
    PROVE  InputsInv' /\ UNCHANGED <<Deduplicate(scans), Reported, Reviewed>>
BY DEF GateInv, InputsInv, Reported, Reviewed

LEMMA SortingKeepsInv ==
    ASSUME GateInv, CheckScans \/ Separate \/ ApplyVex \/ ApplyExceptions
    PROVE  GateInv'
<1> USE DEF GateInv
<1>1. CASE CheckScans
  <2>1. /\ stage \in Unsorted /\ stage' \in Unsorted
        /\ UNCHANGED <<policy, scans, documents, lists, decision>>
        /\ violations' \cap SeverityCodes = violations \cap SeverityCodes
    BY <1>1, OtherCodes DEF CheckScans, Objects, Unsorted, Reading
  <2> QED BY <2>1, CheckingKeepsInputs, StaysUnsorted
<1>2. CASE Separate
  <2>1. /\ stage = "deduplicate" /\ stage' = "apply_vex"
        /\ UNCHANGED <<policy, scans, documents, violations, decision>>
        /\ lists' = [lists EXCEPT !.inventory = {f \in Deduplicate(scans) : IsInventory(f)},
                        !.issues = Deduplicate(scans) \ {f \in Deduplicate(scans) : IsInventory(f)}]
    BY <1>2 DEF Separate
  <2>2. InputsInv' /\ UNCHANGED <<Deduplicate(scans), Reported>>
    BY <2>1, CheckingKeepsInputs
  <2>3. Reported = Deduplicate(scans) \ {f \in Deduplicate(scans) : IsInventory(f)}
    BY DEF Reported
  <2>4. lists = [l \in {"issues", "inventory", "vexed", "excepted", "active"} |-> {}]
    BY <2>1, UnsortedLists DEF Unsorted
  <2>5. ListsInv'
    BY <2>1, <2>2, <2>3, <2>4 DEF ListsInv, Unsorted, Reading, Sorted
  <2>6. ObjectionInv'
    BY <2>1 DEF ObjectionInv, Sorted
  <2> QED BY <2>2, <2>5, <2>6
<1>3. CASE ApplyVex
  <2>1. /\ stage = "apply_vex" /\ stage' = "apply_exceptions"
        /\ UNCHANGED <<policy, scans, documents, decision>>
        /\ violations' \cap SeverityCodes = violations \cap SeverityCodes
        /\ lists' = [lists EXCEPT
                        !.vexed = Vexed(policy, documents.vex, lists.issues, documents.subject, Now),
                        !.issues = @ \ Vexed(policy, documents.vex, lists.issues,
                                             documents.subject, Now)]
    BY <1>3, OtherCodes DEF ApplyVex, Objects
  <2>2. InputsInv' /\ UNCHANGED <<Deduplicate(scans), Reported, Reviewed>>
    BY <2>1, CheckingKeepsInputs
  <2>3. lists.issues = Reported /\ lists.vexed = {}
    BY <2>1 DEF ListsInv, Unsorted, Reading
  <2>4. lists' = [lists EXCEPT !.vexed = Reviewed, !.issues = Reported \ Reviewed]
    BY <2>1, <2>3 DEF Reviewed
  <2>5. ListsInv'
    BY <2>1, <2>2, <2>4 DEF ListsInv, Unsorted, Reading, Sorted
  <2>6. ObjectionInv'
    BY <2>1 DEF ObjectionInv, Sorted
  <2> QED BY <2>2, <2>5, <2>6
<1>4. CASE ApplyExceptions
  <2>1. /\ stage = "apply_exceptions" /\ stage' = "severities"
        /\ UNCHANGED <<policy, scans, documents, decision>>
        /\ violations' \cap SeverityCodes = violations \cap SeverityCodes
        /\ lists' = [lists EXCEPT
                        !.excepted = Excepted(policy, documents.exceptions, lists.issues,
                                              documents.subject, Now),
                        !.active = lists.issues \ Excepted(policy, documents.exceptions,
                                                  lists.issues, documents.subject, Now)]
    BY <1>4, OtherCodes DEF ApplyExceptions, Objects
  <2>2. InputsInv' /\ UNCHANGED <<Deduplicate(scans), Reported, Reviewed>>
    BY <2>1, CheckingKeepsInputs DEF Sorted
  <2>3. lists.issues = Reported \ Reviewed /\ lists.vexed = Reviewed
    BY <2>1 DEF ListsInv, Unsorted, Reading
  <2>4. /\ lists' = [lists EXCEPT !.excepted = Waived, !.active = lists.issues \ Waived]
        /\ lists'.issues = lists.issues
    BY <2>1 DEF Waived, GateInv, ListsInv
  <2>7. Waived' = Waived
    BY <2>1, <2>4 DEF Waived
  <2>5. ListsInv'
    BY <2>1, <2>2, <2>3, <2>4, <2>7 DEF ListsInv, Unsorted, Reading, Sorted
  <2>6. ObjectionInv'
    BY <2>1 DEF ObjectionInv, Sorted
  <2> QED BY <2>2, <2>5, <2>6
<1> QED
  BY <1>1, <1>2, <1>3, <1>4

(* Once everything is sorted, the lists stay and objections only get more. *)
LEMMA StaysSorted ==
    ASSUME GateInv, stage \in Sorted \ {"done"}, stage' \in Sorted \ {"severities"},
           UNCHANGED <<policy, scans, documents, lists>>,
           violations' \cap SeverityCodes =
               IF stage = "severities" THEN SeverityViolations(policy, lists.active)
               ELSE violations \cap SeverityCodes,
           decision' = IF stage' # "done" THEN "" ELSE IF violations' = {} THEN "pass" ELSE "fail"
    PROVE  GateInv'
<1>1. InputsInv' /\ UNCHANGED <<Deduplicate(scans), Reported, Reviewed, Waived>>
  BY CheckingKeepsInputs DEF Waived
<1>2. /\ stage \notin Unsorted \cup {"apply_vex"} /\ stage' \notin Unsorted \cup {"apply_vex"}
      /\ stage' \in Sorted
  BY DEF Unsorted, Reading, Sorted
<1>3. ListsInv'
  BY <1>1, <1>2 DEF GateInv, ListsInv
<1>4. ObjectionInv'
  BY DEF GateInv, ObjectionInv
<1> QED
  BY <1>1, <1>3, <1>4 DEF GateInv

LEMMA DecidingKeepsInv ==
    ASSUME GateInv, \/ CheckSeverities \/ CheckLicenses \/ CheckTests
                    \/ CheckRelease \/ Decide
    PROVE  GateInv'
<1>1. stage \notin {"done"} => decision = ""
  BY DEF GateInv, ObjectionInv
<1>2. CASE CheckSeverities
  <2>1. /\ stage = "severities" /\ stage' = "licenses"
        /\ UNCHANGED <<policy, scans, documents, lists, decision>>
        /\ violations' = violations \cup SeverityViolations(policy, lists.active)
    BY <1>2 DEF CheckSeverities, Objects
  <2>2. violations' \cap SeverityCodes = SeverityViolations(policy, lists.active)
    BY <2>1, SeverityCodesOnly DEF GateInv, ObjectionInv
  <2> QED BY <1>1, <2>1, <2>2, StaysSorted DEF Sorted
<1>3. CASE CheckLicenses
  <2>1. /\ stage = "licenses" /\ stage' = "tests"
        /\ violations' \cap SeverityCodes = violations \cap SeverityCodes
        /\ UNCHANGED <<policy, scans, documents, lists, decision>>
    BY <1>3, OtherCodes DEF CheckLicenses, Objects
  <2> QED BY <1>1, <2>1, StaysSorted DEF Sorted
<1>4. CASE CheckTests
  <2>1. /\ stage = "tests" /\ stage' = "release"
        /\ violations' \cap SeverityCodes = violations \cap SeverityCodes
        /\ UNCHANGED <<policy, scans, documents, lists, decision>>
    BY <1>4, OtherCodes DEF CheckTests, Objects
  <2> QED BY <1>1, <2>1, StaysSorted DEF Sorted
<1>5. CASE CheckRelease
  <2>1. /\ stage = "release" /\ stage' = "decide"
        /\ violations' \cap SeverityCodes = violations \cap SeverityCodes
        /\ UNCHANGED <<policy, scans, documents, lists, decision>>
    BY <1>5, OtherCodes DEF CheckRelease, Objects
  <2> QED BY <1>1, <2>1, StaysSorted DEF Sorted
<1>6. CASE Decide
  <2>1. /\ stage = "decide" /\ stage' = "done" /\ violations' = violations
        /\ UNCHANGED <<policy, scans, documents, lists>>
        /\ decision' = IF violations = {} THEN "pass" ELSE "fail"
    BY <1>6 DEF Decide
  <2> QED BY <2>1, StaysSorted DEF Sorted
<1> QED
  BY <1>2, <1>3, <1>4, <1>5, <1>6

LEMMA InvStep == GateInv /\ [Next]_vars => GateInv'
<1> SUFFICES ASSUME GateInv, [Next]_vars PROVE GateInv'
  OBVIOUS
<1>1. CASE UNCHANGED vars
  BY <1>1 DEF vars, GateInv, InputsInv, ListsInv, ObjectionInv, Reported, Reviewed, Waived
<1> QED
  BY <1>1, ReadingKeepsInv, SortingKeepsInv, DecidingKeepsInv DEF Next

(* The invariant of evaluate() holds for every policy and every input. *)
THEOREM GateInvHolds == Spec => []GateInv
BY InvInit, InvStep, PTL DEF Spec

-----------------------------------------------------------------------------
(* What the reports say of an issue bounds the finding that stands for it. *)

LEMMA IssueIsReported ==
    ASSUME GateInv, NEW o \in Issues
    PROVE  \E f \in Reported :
              /\ Fingerprint(f) = FingerprintAt(o)
              /\ Severity(o) # UNKNOWN => f.severity \in Severity(o) .. 4
<1>1. scans \in Seq(Scan) /\ o \in Positions(scans) /\ ~IsInventory(At(scans, o))
  BY DEF GateInv, InputsInv, Issues
<1> DEFINE f == Merged(scans, FingerprintAt(o))
<1>2. /\ f \in Deduplicate(scans) /\ Fingerprint(f) = FingerprintAt(o) /\ f \in Finding
      /\ Severity(o) # UNKNOWN => f.severity <= 4 /\ Severity(o) <= f.severity
  BY <1>1, MergedFacts DEF FingerprintAt, Severity
<1>3. ~IsInventory(f)
  BY <1>1, <1>2, InventoryByFingerprint DEF FingerprintAt
<1>4. f.severity \in Int
  BY <1>2 DEF Finding, Severities, UNKNOWN
<1> HIDE DEF f
<1>5. Severity(o) # UNKNOWN => f.severity \in Severity(o) .. 4
  BY <1>1, <1>2, <1>4, PositionType DEF Severity
<1>6. f \in Reported
  BY <1>2, <1>3 DEF Reported
<1> QED
  BY <1>2, <1>5, <1>6

LEMMA UniqueReported ==
    ASSUME GateInv, NEW f \in Reported, NEW g \in Reported, Fingerprint(f) = Fingerprint(g)
    PROVE  f = g
<1>1. scans \in Seq(Scan) /\ f \in Deduplicate(scans) /\ g \in Deduplicate(scans)
  BY DEF GateInv, InputsInv, Reported
<1> QED
  BY <1>1, DeduplicateFacts

(* Which document covers a finding that was taken off the list. *)
LEMMA TakenIsWaivable ==
    ASSUME GateInv, NEW f \in lists.vexed \cup lists.excepted,
           NEW s \in 0 .. 4, f.severity \in s .. 4
    PROVE  Waivable(Fingerprint(f), s)
<1>1. CASE f \in lists.vexed
  <2>1. f \in Vexed(policy, documents.vex, Reported, documents.subject, Now)
    BY <1>1 DEF GateInv, ListsInv, Reviewed
  <2> QED BY <2>1, VexedIsCovered DEF Waivable
<1>2. CASE f \in lists.excepted
  <2>1. f \in Excepted(policy, documents.exceptions, lists.issues, documents.subject, Now)
    BY <1>2 DEF GateInv, ListsInv, Waived
  <2> QED BY <2>1, ExceptedIsCovered DEF Waivable
<1> QED
  BY <1>1, <1>2

LEMMA ListsOfReported ==
    ASSUME GateInv
    PROVE  /\ lists.vexed \cup lists.excepted \cup lists.active \subseteq Reported
           /\ stage \in Sorted => Reported \subseteq lists.vexed \cup lists.excepted \cup lists.active
           /\ lists.vexed \cap lists.excepted = {} /\ lists.vexed \cap lists.active = {}
           /\ lists.excepted \cap lists.active = {}
<1>1. Reviewed \subseteq Reported
  BY DEF Reviewed, Vexed
<1>2. Waived \subseteq lists.issues
  BY DEF Waived, Excepted
<1>3. Unsorted \cap Sorted = {} /\ "apply_vex" \notin Sorted
  BY DEF Unsorted, Reading, Sorted
<1> QED
  BY <1>1, <1>2, <1>3 DEF GateInv, ListsInv

-----------------------------------------------------------------------------

LEMMA PassFact ==
    ASSUME GateInv, Monotone(policy), decision = "pass", NEW o \in Issues,
           Severity(o) \in policy.block \ {UNKNOWN}
    PROVE  Waivable(FingerprintAt(o), Severity(o))
<1>1. stage = "done" /\ violations = {}
  BY DEF GateInv, ObjectionInv
<1>2. Blocking(policy, lists.active) = {}
  BY <1>1 DEF GateInv, ObjectionInv, Sorted, SeverityViolations, Raised
<1>3. PICK f \in Reported : /\ Fingerprint(f) = FingerprintAt(o)
                            /\ f.severity \in Severity(o) .. 4
  BY IssueIsReported
<1>4. Severity(o) .. 4 \subseteq policy.block
  BY DEF Monotone
<1>5. f \notin lists.active
  BY <1>2, <1>3, <1>4 DEF Blocking
<1>6. f \in lists.vexed \cup lists.excepted
  BY <1>1, <1>3, <1>5, ListsOfReported DEF Sorted
<1>7. Severity(o) \in 0 .. 4
  <2>1. Severity(o) \in 0 .. 5
    BY PositionType DEF GateInv, InputsInv, Issues, Severity
  <2> QED BY <2>1 DEF UNKNOWN
<1> QED
  BY <1>3, <1>6, <1>7, TakenIsWaivable

(* The gate passes only if every issue that any scanner reported with a       *)
(* blocking severity is waived by a document in force, for any reports,       *)
(* exceptions and reviews.                                                    *)
THEOREM PassJustified == Spec => []PassIsJustified
<1>1. GateInv => PassIsJustified
  BY PassFact DEF PassIsJustified
<1> QED
  BY <1>1, GateInvHolds, PTL

(* No waiver covers less than the worst of what is said of an issue.          *)
THEOREM WaiversFit == Spec => []WaiversFitTheWorst
<1>1. ASSUME GateInv, NEW f \in lists.vexed \cup lists.excepted, NEW s \in Certain(Fingerprint(f))
      PROVE  s <= f.severity /\ Waivable(Fingerprint(f), s)
  <2>1. PICK o \in Issues : FingerprintAt(o) = Fingerprint(f) /\ s = Severity(o) /\ s # UNKNOWN
    BY <1>1 DEF Certain
  <2>2. PICK g \in Reported : Fingerprint(g) = Fingerprint(f) /\ g.severity \in s .. 4
    BY <1>1, <2>1, IssueIsReported
  <2>3. f = g
    BY <1>1, <2>2, ListsOfReported, UniqueReported
  <2>4. s \in 0 .. 4
    <3>1. s \in 0 .. 5
      BY <1>1, <2>1, PositionType DEF GateInv, InputsInv, Issues, Severity
    <3> QED BY <2>1, <3>1 DEF UNKNOWN
  <2> QED BY <1>1, <2>2, <2>3, <2>4, TakenIsWaivable
<1>2. GateInv => WaiversFitTheWorst
  BY <1>1 DEF WaiversFitTheWorst
<1> QED
  BY <1>2, GateInvHolds, PTL

(* Every reported issue ends in exactly one list, and once.                   *)
THEOREM AllAccounted == Spec => []Accounted
<1>1. ASSUME GateInv, stage = "done", NEW o \in Issues
      PROVE  \E l \in Outcomes : \E f \in lists[l] :
                /\ Fingerprint(f) = FingerprintAt(o)
                /\ \A k \in Outcomes : \A g \in lists[k] :
                       Fingerprint(g) = FingerprintAt(o) => k = l /\ g = f
  <2>1. PICK f \in Reported : Fingerprint(f) = FingerprintAt(o)
    BY <1>1, IssueIsReported
  <2>2. f \in lists.vexed \cup lists.excepted \cup lists.active
    BY <1>1, <2>1, ListsOfReported DEF Sorted
  <2>3. PICK l \in Outcomes : f \in lists[l]
    BY <2>2 DEF Outcomes
  <2>4. ASSUME NEW k \in Outcomes, NEW g \in lists[k], Fingerprint(g) = FingerprintAt(o)
        PROVE  k = l /\ g = f
    <3>1. g \in Reported
      BY <1>1, <2>4, ListsOfReported DEF Outcomes
    <3>2. g = f
      BY <1>1, <2>1, <2>4, <3>1, UniqueReported
    <3>3. k = l
      BY <1>1, <2>3, <2>4, <3>2, ListsOfReported DEF Outcomes
    <3> QED BY <3>2, <3>3
  <2> QED BY <2>1, <2>3, <2>4
<1>2. GateInv => Accounted
  BY <1>1 DEF Accounted
<1> QED
  BY <1>2, GateInvHolds, PTL

-----------------------------------------------------------------------------
(* A finding has the severity some scanner gave it: the worst anyone knows. *)

LEMMA ReportedSeverity ==
    ASSUME GateInv, NEW f \in Reported
    PROVE  /\ \E o \in Issues : FingerprintAt(o) = Fingerprint(f) /\ Severity(o) = f.severity
           /\ \A s \in Certain(Fingerprint(f)) : s <= f.severity
           /\ f.severity = UNKNOWN => Certain(Fingerprint(f)) = {}
<1>1. scans \in Seq(Scan) /\ f \in Deduplicate(scans) /\ ~IsInventory(f)
  BY DEF GateInv, InputsInv, Reported
<1>2. PICK o \in Positions(scans) : f = At(scans, o)
  BY <1>1, DeduplicateFacts, MergedFacts
<1>3. o \in Issues /\ FingerprintAt(o) = Fingerprint(f) /\ Severity(o) = f.severity
  BY <1>1, <1>2 DEF Issues, FingerprintAt, Severity
<1>4. ASSUME NEW s \in Certain(Fingerprint(f))
      PROVE  s <= f.severity /\ f.severity # UNKNOWN
  <2>1. PICK q \in Issues : FingerprintAt(q) = Fingerprint(f) /\ s = Severity(q) /\ s # UNKNOWN
    BY DEF Certain
  <2>2. PICK g \in Reported : Fingerprint(g) = Fingerprint(f) /\ g.severity \in s .. 4
    BY <2>1, IssueIsReported
  <2>3. f = g
    BY <2>2, UniqueReported
  <2>4. s \in 0 .. 5
    BY <1>1, <2>1, PositionType DEF Issues, Severity
  <2> QED BY <2>2, <2>3, <2>4 DEF UNKNOWN
<1> QED
  BY <1>3, <1>4

(* An active issue is open: no finding of its fingerprint was taken away.     *)
LEMMA ActiveIsOpen ==
    ASSUME GateInv, NEW f \in lists.active
    PROVE  /\ f \in Reported
           /\ Fingerprint(f) \notin {Fingerprint(g) : g \in lists.vexed \cup lists.excepted}
<1>1. f \in Reported
  BY ListsOfReported
<1>2. ASSUME NEW g \in lists.vexed \cup lists.excepted, Fingerprint(g) = Fingerprint(f)
      PROVE  FALSE
  <2>1. g = f
    BY <1>1, <1>2, ListsOfReported, UniqueReported
  <2> QED BY <2>1, ListsOfReported
<1> QED
  BY <1>1, <1>2

LEMMA ObjectionsHaveCause ==
    ASSUME GateInv
    PROVE  /\ "BLOCKING_FINDINGS" \in violations => Blocking(policy, lists.active) # {}
           /\ "UNKNOWN_SEVERITY" \in violations => Counted(lists.active, UNKNOWN) # {}
<1>1. violations \cap SeverityCodes \subseteq SeverityViolations(policy, lists.active)
  BY DEF GateInv, ObjectionInv
<1>2. {"BLOCKING_FINDINGS", "UNKNOWN_SEVERITY"} \subseteq SeverityCodes
  BY DEF SeverityCodes
<1> QED
  BY <1>1, <1>2 DEF SeverityViolations, Raised

(* check_severities: an objection to a severity has an open issue behind it   *)
(* that some scanner reported so and no scanner as worse, for any reports and *)
(* documents.                                                                 *)
THEOREM BlocksDeserved == Spec => []BlockIsDeserved
<1> DEFINE open == {o \in Issues : FingerprintAt(o) \notin
                       {Fingerprint(f) : f \in lists.vexed \cup lists.excepted}}
           unknown == {o \in open : Certain(FingerprintAt(o)) = {}}
<1>1. ASSUME GateInv, NEW f \in lists.active
      PROVE  \E o \in open : /\ Severity(o) = f.severity
                             /\ \A s \in Certain(FingerprintAt(o)) : s <= Severity(o)
                             /\ f.severity = UNKNOWN => o \in unknown
  <2>1. PICK o \in Issues : FingerprintAt(o) = Fingerprint(f) /\ Severity(o) = f.severity
    BY <1>1, ActiveIsOpen, ReportedSeverity
  <2>2. o \in open
    BY <1>1, <2>1, ActiveIsOpen
  <2>3. /\ \A s \in Certain(FingerprintAt(o)) : s <= Severity(o)
        /\ f.severity = UNKNOWN => Certain(FingerprintAt(o)) = {}
    BY <1>1, <2>1, ActiveIsOpen, ReportedSeverity
  <2> QED BY <2>1, <2>2, <2>3
<1>2. ASSUME GateInv, "BLOCKING_FINDINGS" \in violations
      PROVE  \/ unknown # {} /\ UNKNOWN \in policy.block
             \/ \E o \in open : /\ Severity(o) \in policy.block \ {UNKNOWN}
                                /\ \A s \in Certain(FingerprintAt(o)) : s <= Severity(o)
  <2>1. PICK f \in lists.active : f.severity \in policy.block
    BY <1>2, ObjectionsHaveCause DEF Blocking
  <2>2. PICK o \in open : /\ Severity(o) = f.severity
                          /\ \A s \in Certain(FingerprintAt(o)) : s <= Severity(o)
                          /\ f.severity = UNKNOWN => o \in unknown
    <3> HIDE DEF open, unknown
    <3> QED BY <1>1, <1>2
  <2> HIDE DEF open, unknown
  <2> QED BY <2>1, <2>2
<1>3. ASSUME GateInv, "UNKNOWN_SEVERITY" \in violations
      PROVE  unknown # {}
  <2>1. PICK f \in lists.active : f.severity = UNKNOWN
    BY <1>3, ObjectionsHaveCause DEF Counted
  <2> HIDE DEF open, unknown
  <2> QED BY <1>1, <1>3, <2>1
<1>4. GateInv => BlockIsDeserved
  BY <1>2, <1>3 DEF BlockIsDeserved
<1> QED
  BY <1>4, GateInvHolds, PTL

-----------------------------------------------------------------------------
(* Limits. *)

LEMMA FiniteFindings ==
    ASSUME NEW reports \in Seq(Scan)
    PROVE  IsFiniteSet(Deduplicate(reports))
<1>1. ASSUME NEW i \in DOMAIN reports
      PROVE  IsFiniteSet({i} \X DOMAIN reports[i].findings)
  <2>1. reports[i].findings \in Seq(Finding)
    <3>1. reports[i] \in Scan
      OBVIOUS
    <3> QED BY <3>1 DEF Scan
  <2>2. IsFiniteSet(DOMAIN reports[i].findings)
    <3>1. DOMAIN reports[i].findings = 1 .. Len(reports[i].findings)
      BY <2>1
    <3>2. Len(reports[i].findings) \in Int
      BY <2>1
    <3> QED BY <3>1, <3>2, FS_Interval
  <2>3. IsFiniteSet({i})
    BY FS_Singleton
  <2> QED BY <2>2, <2>3, FS_Product
<1>2. IsFiniteSet(DOMAIN reports)
  <2>1. DOMAIN reports = 1 .. Len(reports) /\ Len(reports) \in Int
    OBVIOUS
  <2> QED BY <2>1, FS_Interval
<1> DEFINE parts == {{i} \X DOMAIN reports[i].findings : i \in DOMAIN reports}
           part == [i \in DOMAIN reports |-> {i} \X DOMAIN reports[i].findings]
           found == [o \in Positions(reports) |->
                        Merged(reports, Fingerprint(At(reports, o)))]
<1>3. IsFiniteSet(parts)
  <2>1. part \in Surjection(DOMAIN reports, parts)
    BY DEF Surjection
  <2> QED BY <1>2, <2>1, FS_Surjection
<1>4. IsFiniteSet(Positions(reports))
  <2>1. \A T \in parts : IsFiniteSet(T)
    BY <1>1
  <2>2. IsFiniteSet(UNION parts)
    <3> HIDE DEF parts
    <3> QED BY <1>3, <2>1, FS_UNION
  <2> QED BY <2>2 DEF Positions
<1>5. found \in Surjection(Positions(reports), Deduplicate(reports))
  BY DEF Surjection, Deduplicate, Fingerprints
<1> QED
  BY <1>4, <1>5, FS_Surjection

(* check_severities: no limit is exceeded by issues no document mentions,     *)
(* each counted once at the worst severity known, whatever names and reports  *)
(* it has.                                                                    *)
THEOREM PassesWithinLimits == Spec => []PassWithinLimits
<1> DEFINE mentioned == {documents.exceptions[i].fp : i \in DOMAIN documents.exceptions}
                        \cup (IF documents.vex = NoVex THEN {}
                             ELSE {t.fp : t \in documents.vex.statements})
           unwaived(s) == {fp \in {FingerprintAt(o) : o \in Issues} \ mentioned :
                              s \in Certain(fp) /\ \A t \in Certain(fp) : t <= s}
<1>1. ASSUME GateInv, decision = "pass", NEW s \in DOMAIN policy.limits \ {UNKNOWN},
             NEW fp \in unwaived(s)
      PROVE  \E f \in Counted(lists.active, s) : Fingerprint(f) = fp
  <2>1. PICK o \in Issues : fp = FingerprintAt(o)
    BY <1>1
  <2>2. PICK f \in Reported : Fingerprint(f) = fp
    BY <1>1, <2>1, IssueIsReported
  <2>3. f.severity = s
    <3>1. s \in Certain(fp) /\ \A t \in Certain(fp) : t <= s
      BY <1>1
    <3>2. s <= f.severity /\ f.severity # UNKNOWN
      BY <1>1, <2>2, <3>1, ReportedSeverity
    <3>3. f.severity \in Certain(fp)
      BY <1>1, <2>2, <3>2, ReportedSeverity DEF Certain
    <3>4. f.severity <= s
      BY <3>1, <3>3
    <3>5. \A t \in Certain(fp) : t \in Int
      <4>1. \A q \in Positions(scans) : At(scans, q).severity \in 0 .. 5
        BY <1>1, PositionType DEF GateInv, InputsInv
      <4> QED BY <4>1 DEF Certain, Issues, Severity
    <3> QED BY <3>1, <3>2, <3>3, <3>4, <3>5
  <2>4. f \notin lists.vexed
    <3>1. documents.vex # NoVex => \A t \in documents.vex.statements : t.fp # fp
      BY <1>1
    <3>2. f \notin Reviewed
      BY <2>2, <3>1 DEF Reviewed, Vexed, Grants, Asks
    <3> QED BY <1>1, <3>2 DEF GateInv, ListsInv
  <2>5. f \notin lists.excepted
    <3>1. Candidates(documents.exceptions, f) = {}
      BY <1>1, <2>2 DEF Candidates
    <3>2. f \notin Waived
      BY <3>1 DEF Waived, Excepted, Rejections
    <3> QED BY <1>1, <3>2 DEF GateInv, ListsInv
  <2>6. f \in lists.active
    <3>1. stage \in Sorted
      BY <1>1 DEF GateInv, ObjectionInv, Sorted
    <3> QED BY <1>1, <2>2, <2>4, <2>5, <3>1, ListsOfReported
  <2> QED BY <2>2, <2>3, <2>6 DEF Counted
<1>2. ASSUME GateInv, decision = "pass", NEW s \in DOMAIN policy.limits \ {UNKNOWN}
      PROVE  Cardinality(unwaived(s)) <= policy.limits[s]
  <2> DEFINE counted == Counted(lists.active, s)
             print == [f \in counted |-> Fingerprint(f)]
             prints == {Fingerprint(f) : f \in counted}
  <2>1. IsFiniteSet(counted)
    <3>1. counted \subseteq Deduplicate(scans)
      BY <1>2, ListsOfReported DEF Counted, Reported
    <3>2. IsFiniteSet(Deduplicate(scans))
      BY <1>2, FiniteFindings DEF GateInv, InputsInv
    <3> QED BY <3>1, <3>2, FS_Subset
  <2>2. IsFiniteSet(prints) /\ Cardinality(prints) <= Cardinality(counted)
    <3>1. print \in Surjection(counted, prints)
      BY DEF Surjection
    <3> QED BY <2>1, <3>1, FS_Surjection
  <2>3. unwaived(s) \subseteq prints
    <3> HIDE DEF unwaived
    <3> QED BY <1>1, <1>2
  <2>4. Cardinality(unwaived(s)) <= Cardinality(prints) /\ IsFiniteSet(unwaived(s))
    <3> HIDE DEF unwaived, prints
    <3> QED BY <2>2, <2>3, FS_Subset
  <2>5. ~(Cardinality(counted) > policy.limits[s])
    BY <1>2 DEF GateInv, ObjectionInv, Sorted, SeverityViolations, Raised, OverLimit
  <2>6. policy.limits[s] \in Nat
    BY <1>2, GateAssumption DEF GateInv, InputsInv, GateAssumption
  <2>7. Cardinality(unwaived(s)) \in Nat /\ Cardinality(prints) \in Nat
        /\ Cardinality(counted) \in Nat
    <3> HIDE DEF unwaived, prints, counted
    <3> QED BY <2>1, <2>2, <2>4, FS_CardinalityType
  <2> HIDE DEF unwaived, prints, counted
  <2> QED BY <2>2, <2>4, <2>5, <2>6, <2>7
<1>3. GateInv => PassWithinLimits
  BY <1>2 DEF PassWithinLimits
<1> QED
  BY <1>3, GateInvHolds, PTL

-----------------------------------------------------------------------------
(* Order. *)

(* Everything one set of reports says, the other says as well. *)
Repeats(reports, others) ==
    \A o \in Positions(reports) : \E q \in Positions(others) : At(reports, o) = At(others, q)

(* Then each issue is found with the same severity. *)
LEMMA NoLessSevere ==
    ASSUME NEW reports \in Seq(Scan), NEW others \in Seq(Scan), Repeats(reports, others),
           NEW f \in Deduplicate(reports), NEW g \in Deduplicate(others),
           Fingerprint(f) = Fingerprint(g), f.severity # UNKNOWN
    PROVE  g.severity <= 4 /\ f.severity <= g.severity
<1>1. PICK o \in Positions(reports) : f = At(reports, o)
  BY DeduplicateFacts, MergedFacts
<1>2. PICK q \in Positions(others) : f = At(others, q)
  BY <1>1 DEF Repeats
<1>3. g = Merged(others, Fingerprint(At(others, q)))
  BY <1>2, DeduplicateFacts
<1> QED
  BY <1>2, <1>3, MergedFacts

LEMMA SameSeverity ==
    ASSUME NEW reports \in Seq(Scan), NEW others \in Seq(Scan),
           Repeats(reports, others), Repeats(others, reports),
           NEW f \in Deduplicate(reports), NEW g \in Deduplicate(others),
           Fingerprint(f) = Fingerprint(g)
    PROVE  f.severity = g.severity
<1>1. f.severity \in 0 .. 5 /\ g.severity \in 0 .. 5
  BY DeduplicateFacts DEF Finding, Severities, UNKNOWN
<1>2. f.severity # UNKNOWN => g.severity <= 4 /\ f.severity <= g.severity
  BY NoLessSevere
<1>3. g.severity # UNKNOWN => f.severity <= 4 /\ g.severity <= f.severity
  BY NoLessSevere
<1> QED
  BY <1>1, <1>2, <1>3 DEF UNKNOWN

LEMMA SameIssue ==
    ASSUME NEW reports \in Seq(Scan), NEW others \in Seq(Scan),
           Repeats(reports, others), Repeats(others, reports), NEW f \in Deduplicate(reports)
    PROVE  \E g \in Deduplicate(others) :
              /\ Fingerprint(g) = Fingerprint(f) /\ g.severity = f.severity
              /\ g.category = f.category /\ (IsInventory(g) <=> IsInventory(f))
<1>1. PICK o \in Positions(reports) : Fingerprint(At(reports, o)) = Fingerprint(f)
  BY DeduplicateFacts
<1>2. PICK q \in Positions(others) : At(reports, o) = At(others, q)
  BY <1>1 DEF Repeats
<1>3. PICK g : g = Merged(others, Fingerprint(At(others, q)))
  OBVIOUS
<1>4. g \in Deduplicate(others) /\ Fingerprint(g) = Fingerprint(f)
  BY <1>1, <1>2, <1>3, MergedFacts
<1> QED
  BY <1>4, SameSeverity, InventoryByFingerprint

(* Suppression looks at the fingerprint, the category and the severity only.  *)
LEMMA SameReview ==
    ASSUME NEW issues, NEW rest, NEW f \in rest,
           NEW g \in Vexed(policy, documents.vex, issues, documents.subject, Now),
           Fingerprint(g) = Fingerprint(f), g.severity = f.severity
    PROVE  f \in Vexed(policy, documents.vex, rest, documents.subject, Now)
BY DEF Vexed, Grants, Asks

LEMMA SameException ==
    ASSUME NEW issues, NEW rest, NEW exceptions, NEW same, NEW f \in rest,
           \A i \in DOMAIN exceptions : \E j \in DOMAIN same : exceptions[i] = same[j],
           NEW g \in Excepted(policy, exceptions, issues, documents.subject, Now),
           Fingerprint(g) = Fingerprint(f), g.severity = f.severity, g.category = f.category
    PROVE  f \in Excepted(policy, same, rest, documents.subject, Now)
<1>1. PICK i \in Candidates(exceptions, g) :
          ~Rejected(policy, exceptions[i], g, documents.subject, Now)
  BY DEF Excepted, Rejections
<1>2. PICK j \in DOMAIN same : exceptions[i] = same[j]
  BY <1>1 DEF Candidates
<1>3. j \in Candidates(same, f)
  BY <1>1, <1>2 DEF Candidates
<1>4. ~Rejected(policy, same[j], f, documents.subject, Now)
  BY <1>1, <1>2 DEF Rejected, OutOfScope
<1> QED
  BY <1>3, <1>4 DEF Excepted, Rejections

LEMMA RemainsTheSame ==
    ASSUME NEW reports \in Seq(Scan), NEW others \in Seq(Scan),
           Repeats(reports, others), Repeats(others, reports), NEW exceptions, NEW same,
           \A i \in DOMAIN same : \E j \in DOMAIN exceptions : same[i] = exceptions[j]
    PROVE  Remaining(reports, exceptions) \subseteq Remaining(others, same)
<1> DEFINE issues == {f \in Deduplicate(reports) : ~IsInventory(f)}
           left == issues \ Vexed(policy, documents.vex, issues, documents.subject, Now)
           issuesToo == {f \in Deduplicate(others) : ~IsInventory(f)}
           leftToo == issuesToo \ Vexed(policy, documents.vex, issuesToo, documents.subject, Now)
<1>1. ASSUME NEW f \in left \ Excepted(policy, exceptions, left, documents.subject, Now)
      PROVE  <<Fingerprint(f), f.severity>> \in Remaining(others, same)
  <2>1. PICK g \in Deduplicate(others) :
            /\ Fingerprint(g) = Fingerprint(f) /\ g.severity = f.severity
            /\ g.category = f.category /\ (IsInventory(g) <=> IsInventory(f))
    BY SameIssue
  <2>2. g \in issuesToo /\ f \in issues
    BY <2>1
  <2>3. g \in leftToo
    <3> HIDE DEF issues, issuesToo
    <3>1. g \notin Vexed(policy, documents.vex, issuesToo, documents.subject, Now)
      BY <2>1, <2>2, SameReview
    <3> QED BY <2>2, <3>1
  <2>4. g \notin Excepted(policy, same, leftToo, documents.subject, Now)
    <3> HIDE DEF left, leftToo
    <3> QED BY <2>1, <2>3, SameException
  <2>5. <<Fingerprint(g), g.severity>> \in Remaining(others, same)
    BY <2>3, <2>4 DEF Remaining
  <2> QED BY <2>1, <2>5
<1> QED
  BY <1>1 DEF Remaining

LEMMA ReverseFacts ==
    ASSUME NEW S, NEW seq \in Seq(S)
    PROVE  /\ Reverse(seq) \in Seq(S)
           /\ DOMAIN Reverse(seq) = DOMAIN seq
           /\ \A i \in DOMAIN seq : /\ Len(seq) - i + 1 \in DOMAIN seq
                                    /\ Reverse(seq)[i] = seq[Len(seq) - i + 1]
                                    /\ Reverse(seq)[Len(seq) - i + 1] = seq[i]
<1>1. Len(seq) \in Nat /\ DOMAIN seq = 1 .. Len(seq)
  OBVIOUS
<1>2. Reverse(seq) = [i \in 1 .. Len(seq) |-> seq[(Len(seq) - i) + 1]]
  BY DEF Reverse
<1>3. ASSUME NEW i \in 1 .. Len(seq)
      PROVE  /\ Len(seq) - i + 1 \in 1 .. Len(seq)
             /\ Len(seq) - (Len(seq) - i + 1) + 1 = i
             /\ seq[Len(seq) - i + 1] \in S
  BY <1>1
<1>4. Reverse(seq) \in [1 .. Len(seq) -> S]
  BY <1>2, <1>3
<1>5. Reverse(seq) \in Seq(S)
  BY <1>1, <1>4
<1> QED
  BY <1>1, <1>2, <1>3, <1>5

LEMMA SameMembers ==
    ASSUME NEW S, NEW seq \in Seq(S)
    PROVE  /\ \A i \in DOMAIN seq : \E j \in DOMAIN Reverse(seq) : seq[i] = Reverse(seq)[j]
           /\ \A i \in DOMAIN Reverse(seq) : \E j \in DOMAIN seq : Reverse(seq)[i] = seq[j]
<1>1. DOMAIN Reverse(seq) = DOMAIN seq
  BY ReverseFacts
<1>2. ASSUME NEW i \in DOMAIN seq
      PROVE  \E j \in DOMAIN seq : seq[i] = Reverse(seq)[j] /\ Reverse(seq)[i] = seq[j]
  BY ReverseFacts
<1> QED
  BY <1>1, <1>2

LEMMA ReversedRepeats ==
    ASSUME NEW reports \in Seq(Scan)
    PROVE  Repeats(reports, Reverse(reports)) /\ Repeats(Reverse(reports), reports)
<1> DEFINE mirror(i) == Len(reports) - i + 1
<1>1. /\ DOMAIN Reverse(reports) = DOMAIN reports
      /\ \A i \in DOMAIN reports : /\ mirror(i) \in DOMAIN reports
                                   /\ Reverse(reports)[i] = reports[mirror(i)]
                                   /\ Reverse(reports)[mirror(i)] = reports[i]
  BY ReverseFacts
<1> HIDE DEF mirror
<1>2. ASSUME NEW o \in Positions(reports)
      PROVE  \E q \in Positions(Reverse(reports)) : At(reports, o) = At(Reverse(reports), q)
  <2>0. PICK i \in DOMAIN reports : o \in {i} \X DOMAIN reports[i].findings
    BY DEF Positions
  <2>1. PICK j \in DOMAIN reports[i].findings : o = <<i, j>>
    BY <2>0
  <2>2. <<mirror(i), j>> \in Positions(Reverse(reports))
    BY <1>1, <2>1 DEF Positions
  <2>3. At(reports, o) = At(Reverse(reports), <<mirror(i), j>>)
    BY <1>1, <2>1 DEF At
  <2> QED BY <2>2, <2>3
<1>3. ASSUME NEW o \in Positions(Reverse(reports))
      PROVE  \E q \in Positions(reports) : At(Reverse(reports), o) = At(reports, q)
  <2>0. PICK i \in DOMAIN reports : o \in {i} \X DOMAIN reports[mirror(i)].findings
    BY <1>1 DEF Positions
  <2>1. PICK j \in DOMAIN reports[mirror(i)].findings : o = <<i, j>>
    BY <2>0
  <2>2. <<mirror(i), j>> \in Positions(reports)
    BY <1>1, <2>1 DEF Positions
  <2>3. At(Reverse(reports), o) = At(reports, <<mirror(i), j>>)
    BY <1>1, <2>1 DEF At
  <2> QED BY <2>2, <2>3
<1> QED
  BY <1>2, <1>3 DEF Repeats

(* _deduplicate, apply_vex and apply_exceptions: what remains active, and at  *)
(* what severity, is the same for reversed reports and exceptions, however    *)
(* many there are.                                                            *)
THEOREM OrderIsIrrelevant == Spec => []OrderIrrelevant
<1>1. ASSUME GateInv, stage = "severities"
      PROVE  {<<Fingerprint(f), f.severity>> : f \in lists.active}
                 = Remaining(Reverse(scans), Reverse(documents.exceptions))
  <2>1. lists.active = (Reported \ Reviewed) \
            Excepted(policy, documents.exceptions, Reported \ Reviewed, documents.subject, Now)
    <3>1. stage \in Sorted /\ stage \notin Unsorted \cup {"apply_vex"}
      BY <1>1 DEF Sorted, Unsorted, Reading
    <3>2. lists.issues = Reported \ Reviewed /\ lists.active = lists.issues \ Waived
      BY <1>1, <3>1 DEF GateInv, ListsInv
    <3> QED BY <3>2 DEF Waived
  <2>2. {<<Fingerprint(f), f.severity>> : f \in lists.active}
            = Remaining(scans, documents.exceptions)
    BY <2>1 DEF Remaining, Reported, Reviewed
  <2>3. /\ scans \in Seq(Scan) /\ Reverse(scans) \in Seq(Scan)
        /\ documents.exceptions \in Seq(Exception)
    BY <1>1, ReverseFacts DEF GateInv, InputsInv
  <2>4. /\ \A i \in DOMAIN documents.exceptions : \E j \in DOMAIN Reverse(documents.exceptions) :
               documents.exceptions[i] = Reverse(documents.exceptions)[j]
        /\ \A i \in DOMAIN Reverse(documents.exceptions) : \E j \in DOMAIN documents.exceptions :
               Reverse(documents.exceptions)[i] = documents.exceptions[j]
    BY <2>3, SameMembers
  <2>5. Remaining(scans, documents.exceptions)
            \subseteq Remaining(Reverse(scans), Reverse(documents.exceptions))
    BY <2>3, <2>4, ReversedRepeats, RemainsTheSame
  <2>6. Remaining(Reverse(scans), Reverse(documents.exceptions))
            \subseteq Remaining(scans, documents.exceptions)
    BY <2>3, <2>4, ReversedRepeats, RemainsTheSame
  <2> QED BY <2>2, <2>5, <2>6
<1>2. GateInv => OrderIrrelevant
  BY <1>1 DEF OrderIrrelevant
<1> QED
  BY <1>2, GateInvHolds, PTL

-----------------------------------------------------------------------------
(* Tests that were run *)

LEMMA TestsInvStep == GateInv /\ TestsInv /\ [Next]_vars => TestsInv'
<1> SUFFICES ASSUME GateInv, TestsInv, [Next]_vars, stage' \in {"release", "decide", "done"}
             PROVE  /\ UNCHANGED <<policy, scans>>
                    /\ CoverageViolations(policy, scans) \cup TestViolations(policy, scans)
                          \subseteq violations'
  BY DEF TestsInv
<1>1. CASE CheckTests
  BY <1>1 DEF CheckTests, Objects
<1>2. CASE CheckRelease \/ Decide \/ UNCHANGED vars
  <2>1. stage \in {"release", "decide", "done"} /\ UNCHANGED <<policy, scans>>
    BY <1>2 DEF CheckRelease, Decide, Objects, vars
  <2>2. violations \subseteq violations'
    BY <1>2 DEF CheckRelease, Decide, Objects, vars
  <2> QED BY <2>1, <2>2 DEF TestsInv
<1>3. CASE \/ ReadReport \/ LoadSubject \/ LoadExceptions \/ LoadVex \/ Refuse
           \/ CheckScans \/ Separate \/ ApplyVex \/ ApplyExceptions
           \/ CheckSeverities \/ CheckLicenses
  BY <1>3 DEF ReadReport, LoadSubject, LoadExceptions, LoadVex, Refuse, CheckScans, Separate,
              ApplyVex, ApplyExceptions, CheckSeverities, CheckLicenses, Objects, Reading
<1> QED
  BY <1>1, <1>2, <1>3 DEF Next

(* What is objected to in test reports stays on the list until the decision. *)
THEOREM TestsInvHolds == Spec => []TestsInv
<1>1. Init => TestsInv
  BY DEF Init, TestsInv
<1> QED
  BY <1>1, TestsInvStep, GateInvHolds, PTL DEF Spec

(* With nothing to object to, every test report is consistent and is summed up. *)
LEMMA AllSummed ==
    ASSUME NEW p, NEW reports, TestViolations(p, reports) = {}
    PROVE  LET junit == {i \in DOMAIN reports :
                            reports[i].category = "test" /\ reports[i].scanner = "junit"}
           IN  Summed(reports) = junit /\ \A i \in junit : Consistent(reports[i])
<1>1. FailureReports(reports) = TestReports(reports)
  BY DEF TestViolations, Raised
<1>2. \A i \in JUnitReports(reports) : Consistent(reports[i])
  BY DEF TestViolations, Raised
<1>3. JUnitReports(reports) = {i \in DOMAIN reports :
                                 reports[i].category = "test" /\ reports[i].scanner = "junit"}
  BY <1>1 DEF JUnitReports, TestReports
<1> QED
  BY <1>2, <1>3 DEF Summed

(* If a coverage is relied on, exactly one report gives it. *)
LEMMA CoverageFromOne ==
    ASSUME NEW reports, Coverage(reports) # 0
    PROVE  \E i \in CoverageReports(reports) :
              CoverageReports(reports) = {i} /\ Coverage(reports) = reports[i].coverage
<1>1. PICK i \in CoverageReports(reports) : CoverageReports(reports) = {i}
  BY DEF Coverage
<1>2. (CHOOSE j \in CoverageReports(reports) : TRUE) = i
  BY <1>1
<1> QED
  BY <1>1, <1>2 DEF Coverage

(* With tests required the gate passes only if at least the required number   *)
(* of tests was run, as consistent test reports say, and one report gives the *)
(* coverage; for any number of reports with any metrics.                      *)
THEOREM TestsRan == Spec => []TestsReallyRan
<1>1. GateInv /\ TestsInv => TestsReallyRan
  <2> SUFFICES ASSUME GateInv, TestsInv, decision = "pass", TestsRequired(policy)
               PROVE  TestsReallyRan
    BY DEF TestsReallyRan
  <2>1. CoverageViolations(policy, scans) = {} /\ TestViolations(policy, scans) = {}
    BY DEF GateInv, ObjectionInv, TestsInv
  <2> DEFINE junit == {i \in DOMAIN scans : scans[i].category = "test" /\ scans[i].scanner = "junit"}
             covered == {i \in DOMAIN scans : scans[i].scanner = "coverage.py"}
             run == [i \in junit |-> scans[i].tests - scans[i].skipped]
             all == [i \in DOMAIN scans |-> scans[i].tests - scans[i].skipped]
  <2>2. Summed(scans) = junit /\ \A i \in junit : Consistent(scans[i])
    BY <2>1, AllSummed
  <2>3. \A i \in junit : scans[i].failures + scans[i].skipped <= scans[i].tests
    BY <2>2 DEF Consistent
  <2>4. /\ IsFiniteSet(junit) /\ \A i \in DOMAIN scans : scans[i] \in Scan
        /\ policy \in Policies
    <3>1. scans \in Seq(Scan) /\ policy \in Policies
      BY DEF GateInv, InputsInv
    <3>2. DOMAIN scans = 1 .. Len(scans) /\ Len(scans) \in Nat
      BY <3>1
    <3>3. IsFiniteSet(DOMAIN scans)
      BY <3>2, FS_Interval
    <3> QED BY <3>1, <3>2, <3>3, FS_Subset
  <2>5. Executed(scans) = SumFunctionOnSet(run, junit)
    <3>1. \A i \in junit : all[i] = run[i]
      OBVIOUS
    <3>2. Executed(scans) = SumFunctionOnSet(all, junit)
      BY <2>2 DEF Executed
    <3> HIDE DEF all, run, junit
    <3> QED BY <2>4, <3>1, <3>2, SumSame
  <2>6. policy.minTests <= SumFunctionOnSet(run, junit)
    <3>1. \A i \in junit : run[i] \in Int
      BY <2>2, <2>4 DEF Consistent, Scan, Metric, Invalid
    <3>2. SumFunctionOnSet(run, junit) \in Int
      <4> HIDE DEF run, junit
      <4> QED BY <2>4, <3>1, SumInt
    <3>3. ~(Executed(scans) < policy.minTests)
      BY <2>1 DEF TestViolations, Raised
    <3>4. policy.minTests \in Int
      BY <2>4, GateAssumption DEF GateAssumption
    <3> HIDE DEF run, junit
    <3> QED BY <2>5, <3>2, <3>3, <3>4
  <2>7. policy.minCoverage > 0 =>
           \E i \in covered : covered = {i} /\ scans[i].coverage >= policy.minCoverage
    <3> SUFFICES ASSUME policy.minCoverage > 0
                 PROVE  \E i \in covered : covered = {i} /\ scans[i].coverage >= policy.minCoverage
      OBVIOUS
    <3>1. ~(Coverage(scans) < policy.minCoverage) /\ policy.minCoverage \in Nat
      BY <2>1, <2>4, GateAssumption DEF GateAssumption, CoverageViolations, Raised
    <3>2. Coverage(scans) # 0
      BY <3>1
    <3>3. PICK i \in CoverageReports(scans) :
              CoverageReports(scans) = {i} /\ Coverage(scans) = scans[i].coverage
      BY <3>2, CoverageFromOne
    <3>4. scans[i].coverage \in Int
      BY <2>4, <3>3 DEF CoverageReports, Scan, Metric, Invalid
    <3> QED BY <3>1, <3>3, <3>4 DEF CoverageReports
  <2> QED BY <2>3, <2>6, <2>7 DEF TestsReallyRan
<1> QED
  BY <1>1, GateInvHolds, TestsInvHolds, PTL
=============================================================================
