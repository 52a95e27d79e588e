------------------------------ MODULE IntakeProofs ------------------------------
(***************************************************************************)
(* The gate judges and archives one set of bytes, for any requests, files, *)
(* limits and programs that change the sources at the same time.  The      *)
(* argument: while anything is left to copy nothing has been parsed, and   *)
(* after that nothing is written to the private copies any more.           *)
(* And the value of a licence expression is the one of its reference.      *)
(***************************************************************************)
EXTENDS Intake, Sums, SequenceTheorems

After == {"bind", "judge", "archive", "done"}

(* The paths that the request or the directories name *)
Told == {PolicyPath} \cup {reports[i].path : i \in DOMAIN reports}
                     \cup {attestations[i] : i \in DOMAIN attestations}

(* Lists are made one after the other, and parsing waits for all copies. *)
Order ==
    /\ pc \in Copying \cup After \cup {"refused"}
    /\ pc = "copy_policy" => reports = <<>> /\ attestations = <<>>
    /\ pc = "copy_reports" => attestations = <<>>
    /\ scans # <<>> => pc \notin {"copy_policy", "copy_reports"}
    /\ pc \in After \/ scans # <<>> => CopiedAll

(* What is being copied or still is to be copied was named. *)
OnlyTold ==
    /\ todo \in Seq(Told)
    /\ reader # Idle => pc \in Copying /\ todo # <<>> /\ reader.path \in Told
    /\ DOMAIN copies = Paths
    /\ \A p \in Paths : copies[p] # NoCopy => p \in Told

Shape(s) == s = [path |-> s.path, provenance |-> s.provenance, digest |-> s.digest,
                 result |-> s.result]

(* Each result comes from the private copy of its report. *)
ScanRight(i) ==
    /\ Shape(scans[i])
    /\ scans[i].path = reports[i].path
    /\ scans[i].digest = copies[scans[i].path]
    /\ scans[i].result = ScanOf(scans[i].result.kind, DocumentOf(scans[i].digest))
    /\ scans[i].provenance \in {NoProvenance, scans[i].digest}

ScansRight ==
    /\ scans \in Seq({scans[i] : i \in DOMAIN scans})
    /\ \E n \in Nat : DOMAIN reports = 1 .. n /\ Len(reports) = n
    /\ Len(scans) <= Len(reports)
    /\ \A i \in DOMAIN scans : ScanRight(i)

(* What later stages rest on *)
Concluded ==
    /\ pc \in After => Len(scans) = Len(reports) /\ policy = DocumentOf(copies[PolicyPath])
    /\ pc \in After \ {"bind"} =>
          \A k \in DOMAIN attestations : \E i \in DOMAIN scans :
             scans[i].provenance = DocumentOf(copies[attestations[k]]).report
    /\ pc = "done" => archive = copies

RequestTyped == request.named \in Seq([type : STRING, path : Paths])

IntakeInv == RequestTyped /\ Order /\ OnlyTold /\ ScansRight /\ Concluded

-----------------------------------------------------------------------------
(* Sequences *)

(* A subsequence is a sequence as long as its set of places is large. *)
LEMMA SubsequenceLen ==
    ASSUME NEW n \in Nat, NEW s, NEW S \in SUBSET (1 .. n)
    PROVE  \E m \in Nat : /\ DOMAIN Subsequence(s, S) = 1 .. m
                          /\ Subsequence(s, S) = [k \in 1 .. m |-> Subsequence(s, S)[k]]
<1>1. IsFiniteSet(S)
  <2>1. IsFiniteSet(1 .. n)
    BY FS_Interval
  <2> QED
    BY <2>1, FS_Subset
<1>2. Cardinality(S) \in Nat
  BY <1>1, FS_CardinalityType
<1> QED
  BY <1>2 DEF Subsequence

(* A function on 1 .. m is a sequence of its values. *)
LEMMA AsSeq ==
    ASSUME NEW m \in Nat, NEW f, DOMAIN f = 1 .. m, f = [k \in 1 .. m |-> f[k]],
           NEW S, \A k \in 1 .. m : f[k] \in S
    PROVE  f \in Seq(S) /\ Len(f) = m
<1>1. f \in [1 .. m -> S]
  OBVIOUS
<1> QED
  BY <1>1, SeqDef, LenProperties

(* Adding one element changes nothing about the others. *)
LEMMA Appended ==
    ASSUME NEW S, NEW s \in Seq(S), NEW x
    PROVE  /\ Append(s, x) \in Seq({Append(s, x)[i] : i \in DOMAIN Append(s, x)})
           /\ Len(Append(s, x)) = Len(s) + 1
           /\ DOMAIN Append(s, x) = 1 .. (Len(s) + 1)
           /\ Append(s, x)[Len(s) + 1] = x
           /\ \A i \in DOMAIN s : Append(s, x)[i] = s[i]
<1>1. s \in Seq(S \cup {x})
  BY SeqMonotonic
<1>2. /\ Append(s, x) \in Seq(S \cup {x})
      /\ Len(Append(s, x)) = Len(s) + 1
      /\ \A i \in 1 .. Len(s) : Append(s, x)[i] = s[i]
      /\ Append(s, x)[Len(s) + 1] = x
  BY <1>1, AppendProperties
<1>3. Len(s) \in Nat /\ DOMAIN s = 1 .. Len(s) /\ DOMAIN Append(s, x) = 1 .. (Len(s) + 1)
  BY <1>1, <1>2, LenProperties
<1>4. Append(s, x) = [k \in 1 .. (Len(s) + 1) |-> Append(s, x)[k]]
  <2>1. Append(s, x) \in [1 .. Len(Append(s, x)) -> S \cup {x}]
    BY <1>2, LenProperties
  <2> QED
    BY <1>2, <2>1
<1>5. Append(s, x) \in Seq({Append(s, x)[i] : i \in DOMAIN Append(s, x)})
  BY <1>3, <1>4, AsSeq
<1> QED
  BY <1>2, <1>3, <1>5

Below(S, i) == {j \in S : j <= i}

(* The k-th of the places is a place: the least below which there are k. *)
LEMMA RankReached ==
    ASSUME NEW n \in Nat, NEW S \in SUBSET (1 .. n), NEW k \in 1 .. Cardinality(S)
    PROVE  \E i \in S : Cardinality(Below(S, i)) = k
<1> DEFINE size(i) == Cardinality(Below(S, i))
           enough == {i \in 0 .. n : k <= size(i)}
<1>1. /\ IsFiniteSet(S) /\ Cardinality(S) \in Nat /\ k \in Nat
      /\ \A i : IsFiniteSet(Below(S, i)) /\ size(i) \in Nat
  <2>0. IsFiniteSet(1 .. n)
    BY FS_Interval
  <2>1. IsFiniteSet(S)
    BY <2>0, FS_Subset
  <2>2. \A i : Below(S, i) \in SUBSET S
    BY DEF Below
  <2>3. \A T \in SUBSET S : IsFiniteSet(T) /\ Cardinality(T) \in Nat
    BY <2>1, FS_Subset, FS_CardinalityType
  <2>4. S \in SUBSET S
    OBVIOUS
  <2>5. Cardinality(S) \in Nat
    BY <2>3, <2>4
  <2> QED BY <2>1, <2>2, <2>3, <2>5
<1>0. \A j \in S : j \in Nat /\ 1 <= j /\ j <= n
  OBVIOUS
<1>2. size(n) = Cardinality(S)
  <2>1. Below(S, n) = S
    BY <1>0 DEF Below
  <2> QED BY <2>1
<1>3. size(0) = 0
  <2>0. \A j \in S : ~(j <= 0)
    BY <1>0
  <2>1. Below(S, 0) = {}
    BY <2>0 DEF Below
  <2> QED BY <2>1, FS_EmptySet
<1>4. PICK i \in enough : \A m \in enough : i <= m
  <2>1. enough \in SUBSET Nat /\ enough # {}
    BY <1>1, <1>2
  <2> HIDE DEF enough
  <2> QED BY <2>1, LeastNumber
<1> HIDE DEF size
<1>5. /\ i \in 0 .. n /\ k <= size(i)
      /\ \A m \in 0 .. n : m < i => size(m) < k
  BY <1>1, <1>4
<1>6. i \in 1 .. n /\ i - 1 \in 0 .. n /\ size(i - 1) < k
  BY <1>1, <1>3, <1>5
<1>7. i \in S
  <2>1. CASE i \notin S
    <3>0. \A j \in S : j <= i <=> j <= i - 1
      BY <1>0, <1>6, <2>1
    <3>1. Below(S, i) = Below(S, i - 1)
      BY <3>0 DEF Below
    <3> QED BY <1>1, <1>5, <1>6, <3>1 DEF size
  <2> QED BY <2>1
<1>8. Below(S, i) \ {i} = Below(S, i - 1) /\ i \in Below(S, i)
  <2>1. i <= i /\ \A j \in S : (j <= i /\ j # i) <=> j <= i - 1
    BY <1>0, <1>6
  <2> QED BY <1>7, <2>1 DEF Below
<1>9. size(i - 1) = size(i) - 1
  BY <1>1, <1>8, FS_RemoveElement DEF size
<1>10. size(i) = k
  BY <1>1, <1>5, <1>6, <1>9
<1> QED
  BY <1>7, <1>10 DEF size

(* A subsequence has what the sequence has at its places, and nothing else. *)
LEMMA SubsequenceElement ==
    ASSUME NEW n \in Nat, NEW S \in SUBSET (1 .. n), NEW s,
           NEW k \in DOMAIN Subsequence(s, S)
    PROVE  \E i \in S : Subsequence(s, S)[k] = s[i]
<1>1. k \in 1 .. Cardinality(S) /\ Subsequence(s, S)[k] = s[CHOOSE i \in S : Cardinality(Below(S, i)) = k]
  BY DEF Subsequence, Below
<1>2. \E i \in S : Cardinality(Below(S, i)) = k
  BY <1>1, RankReached
<1> QED
  BY <1>1, <1>2

LEMMA SubsequenceSeq ==
    ASSUME NEW n \in Nat, NEW S \in SUBSET (1 .. n), NEW s, NEW T, \A i \in S : s[i] \in T
    PROVE  Subsequence(s, S) \in Seq(T)
<1>1. PICK m \in Nat : /\ DOMAIN Subsequence(s, S) = 1 .. m
                       /\ Subsequence(s, S) = [k \in 1 .. m |-> Subsequence(s, S)[k]]
  BY SubsequenceLen
<1>2. \A k \in 1 .. m : Subsequence(s, S)[k] \in T
  BY <1>1, SubsequenceElement
<1> QED
  BY <1>1, <1>2, AsSeq

(* The provers do not know that "" is a string. *)
Entry == [type : STRING \cup {""}, path : Paths]

(* The report entries name paths, however many files there are. *)
LEMMA ReportEntriesTyped ==
    ASSUME RequestTyped
    PROVE  AllEntries \in Seq(Entry) /\ ReportEntries \in Seq(Entry)
<1> DEFINE P == {i \in DOMAIN ReportPaths : IsRegular(ReportPaths[i])}
           G == Subsequence(ReportPaths, P)
           F == Each(LAMBDA p : [type |-> "", path |-> p], Found(ReportPaths, IsRegular))
<1>1. G \in Seq(Paths)
  <2>1. PICK n \in Nat : DOMAIN ReportPaths = 1 .. n
    BY IntakeAssumption, LenProperties
  <2>2. P \in SUBSET (1 .. n)
    BY <2>1
  <2>3. \A i \in P : ReportPaths[i] \in Paths
    BY IntakeAssumption, ElementOfSeq, LenProperties
  <2> HIDE DEF P
  <2> QED BY <2>2, <2>3, SubsequenceSeq
<1>2. F = [k \in DOMAIN G |-> [type |-> "", path |-> G[k]]]
  BY DEF Found, Each
<1> HIDE DEF G, F
<1>3. F \in Seq(Entry)
  <2>1. PICK m \in Nat : DOMAIN G = 1 .. m /\ m = Len(G)
    BY <1>1, LenProperties
  <2>2. \A k \in 1 .. m : G[k] \in Paths
    BY <1>1, <2>1, ElementOfSeq
  <2>3. F = [k \in 1 .. m |-> [type |-> "", path |-> G[k]]]
    BY <1>2, <2>1
  <2>4. ASSUME NEW k \in 1 .. m PROVE [type |-> "", path |-> G[k]] \in Entry
    BY <2>2 DEF Entry
  <2>5. F \in [1 .. m -> Entry]
    BY <2>3, <2>4
  <2> QED BY <2>5, SeqDef
<1>4. AllEntries \in Seq(Entry)
  <2>1. request.named \in Seq(Entry)
    <3>1. [type : STRING, path : Paths] \subseteq Entry
      BY DEF Entry
    <3> QED BY <3>1, SeqMonotonic DEF RequestTyped
  <2> QED BY <1>3, <2>1, ConcatProperties DEF AllEntries, F
<1> DEFINE Firsts == {i \in DOMAIN AllEntries :
                         \A j \in 1 .. (i - 1) : AllEntries[j].path # AllEntries[i].path}
<1>5. ReportEntries = Subsequence(AllEntries, Firsts)
  BY DEF ReportEntries
<1>6. PICK l \in Nat : DOMAIN AllEntries = 1 .. l /\ l = Len(AllEntries)
  BY <1>4, LenProperties
<1>7. Firsts \in SUBSET (1 .. l) /\ \A i \in Firsts : AllEntries[i] \in Entry
  BY <1>4, <1>6, ElementOfSeq
<1> HIDE DEF Firsts
<1> QED
  BY <1>4, <1>5, <1>7, SubsequenceSeq

LEMMA ReportEntriesLen ==
    ASSUME RequestTyped
    PROVE  \E m \in Nat : /\ DOMAIN ReportEntries = 1 .. m
                          /\ ReportEntries = [k \in 1 .. m |-> ReportEntries[k]]
<1>1. ReportEntries \in [1 .. Len(ReportEntries) -> Entry] /\ Len(ReportEntries) \in Nat
  BY ReportEntriesTyped, LenProperties
<1> QED
  BY <1>1

-----------------------------------------------------------------------------
(* Initially only the policy is to be copied. *)

LEMMA IntakeInit == Init => IntakeInv
<1> SUFFICES ASSUME Init PROVE IntakeInv
  OBVIOUS
<1>1. /\ todo = <<PolicyPath>> /\ reports = <<>> /\ attestations = <<>> /\ scans = <<>>
      /\ pc = "copy_policy" /\ reader = Idle /\ copies = [p \in Paths |-> NoCopy]
  BY DEF Init, SnapshotInit
<1>2. RequestTyped
  BY IntakeAssumption DEF Init, RequestTyped
<1>3. Order
  BY <1>1 DEF Order, Copying, After
<1>4. OnlyTold
  <2>1. todo \in Seq(Told)
    BY <1>1 DEF Told
  <2> QED
    BY <1>1, <2>1 DEF OnlyTold
<1>5. ScansRight
  BY <1>1 DEF ScansRight
<1>6. Concluded
  BY <1>1 DEF Concluded, After
<1> QED
  BY <1>2, <1>3, <1>4, <1>5, <1>6 DEF IntakeInv

(* While something is left to copy there are no results and no conclusions: *)
(* a step that keeps it that way has only the order and the paths to mind.  *)
LEMMA NothingParsed ==
    ASSUME scans = <<>>, scans' = <<>>, pc' \notin After,
           \E n \in Nat : DOMAIN reports' = 1 .. n /\ Len(reports') = n
    PROVE  ScansRight' /\ Concluded'
<1>1. ScansRight'
  BY DEF ScansRight
<1>2. Concluded'
  BY DEF Concluded, After
<1> QED
  BY <1>1, <1>2

LEMMA CopyStep ==
    ASSUME IntakeInv, Open \/ CopyMore \/ CopyEnds \/ CopyRefused
    PROVE  IntakeInv'
<1>1. /\ UNCHANGED <<request, reports, attestations, scans>>
      /\ pc' \in {pc, "refused"} /\ pc \in Copying
      /\ scans = <<>> /\ pc \notin After
  <2>1. reader # Idle \/ (pc \in Copying /\ todo # <<>>)
    BY DEF Open, CopyMore, CopyEnds, CopyRefused, CopyChunk, EndOfFile, Overflow
  <2>2. pc \in Copying /\ scans = <<>> /\ pc \notin After
    BY <2>1 DEF IntakeInv, OnlyTold, Order, CopiedAll, Copying, After
  <2> QED
    BY <2>2 DEF Open, CopyMore, CopyEnds, CopyRefused, Refuse, service
<1>2. RequestTyped'
  BY <1>1 DEF IntakeInv, RequestTyped
<1>3. Order'
  BY <1>1 DEF IntakeInv, Order, After, Copying
<1>4. OnlyTold'
  <2>1. Told' = Told
    BY <1>1 DEF Told
  <2>2. CASE Open
    <3>1. Head(todo) \in Told
      BY <2>2, HeadTailProperties DEF Open, IntakeInv, OnlyTold
    <3> QED
      BY <2>1, <2>2, <3>1
         DEF Open, OpenSource, service, Idle, IntakeInv, OnlyTold
  <2>3. CASE CopyMore
    <3>1. reader.path \in Told
      BY <2>3 DEF CopyMore, CopyChunk, IntakeInv, OnlyTold
    <3>2. /\ UNCHANGED <<todo, reader, pc>> /\ DOMAIN copies' = DOMAIN copies
          /\ \A p \in Paths : p # reader.path => copies'[p] = copies[p]
      BY <2>3 DEF CopyMore, CopyChunk, service, IntakeInv, OnlyTold
    <3> QED
      BY <2>1, <3>1, <3>2 DEF IntakeInv, OnlyTold
  <2>4. CASE CopyEnds
    <3>1. todo' \in Seq(Told)
      <4>1. todo' = Tail(todo) /\ todo # <<>> /\ todo \in Seq(Told)
        BY <2>4 DEF CopyEnds, EndOfFile, IntakeInv, OnlyTold
      <4> QED
        BY <4>1, HeadTailProperties
    <3> QED
      BY <2>1, <2>4, <3>1 DEF CopyEnds, EndOfFile, IntakeInv, OnlyTold
  <2>5. CASE CopyRefused
    <3>1. /\ UNCHANGED todo /\ reader' = Idle /\ DOMAIN copies' = DOMAIN copies
          /\ \A p \in Paths : copies'[p] \in {copies[p], NoCopy}
      <4>1. CASE Overflow /\ Refuse /\ UNCHANGED outside
        BY <4>1 DEF Overflow, Refuse, IntakeInv, OnlyTold
      <4>2. CASE /\ pc \in Copying /\ todo # <<>> /\ CannotOpen(Head(todo)) /\ Refuse
                 /\ UNCHANGED snapshotVars
        BY <4>2 DEF CannotOpen, Refuse, snapshotVars
      <4> QED
        BY <2>5, <4>1, <4>2 DEF CopyRefused
    <3> QED
      BY <2>1, <3>1 DEF IntakeInv, OnlyTold
  <2> QED
    BY <2>2, <2>3, <2>4, <2>5
<1>5. ScansRight' /\ Concluded'
  BY <1>1, NothingParsed DEF IntakeInv, ScansRight, Copying, After
<1> QED
  BY <1>2, <1>3, <1>4, <1>5 DEF IntakeInv

LEMMA ListReportsStep ==
    ASSUME IntakeInv, ListReports
    PROVE  IntakeInv'
<1>1. /\ UNCHANGED <<request, attestations, scans, copies, reader>>
      /\ pc = "copy_policy" /\ scans = <<>> /\ reader = Idle /\ todo = <<>>
      /\ reports = <<>> /\ attestations = <<>> /\ pc' \in {"copy_reports", "refused"}
  BY DEF ListReports, Refuse, snapshotVars, IntakeInv, Order, CopiedAll
<1>2. PICK m \in Nat : /\ DOMAIN ReportEntries = 1 .. m
                       /\ ReportEntries = [k \in 1 .. m |-> ReportEntries[k]]
  BY ReportEntriesLen DEF IntakeInv
<1>3. \/ reports' = reports /\ todo' = todo
      \/ reports' = ReportEntries /\ todo' = [k \in 1 .. m |-> ReportEntries[k].path]
  BY <1>2 DEF ListReports, Refuse, Each
<1>4. \E n \in Nat : DOMAIN reports' = 1 .. n /\ Len(reports') = n
  <2>1. CASE reports' = reports
    BY <2>1 DEF IntakeInv, ScansRight
  <2>2. CASE reports' = ReportEntries
    <3>1. Len(ReportEntries) = m
      <4>1. \A k \in 1 .. m : ReportEntries[k] \in {ReportEntries[i] : i \in 1 .. m}
        OBVIOUS
      <4> QED
        BY <1>2, <4>1, AsSeq
    <3> QED
      BY <1>2, <2>2, <3>1
  <2> QED
    BY <1>3, <2>1, <2>2
<1>5. Told \subseteq Told' /\ todo' \in Seq(Told')
  <2>1. Told = {PolicyPath}
    BY <1>1 DEF Told
  <2>2. CASE reports' = reports /\ todo' = todo
    BY <1>1, <2>2 DEF Told
  <2>3. CASE reports' = ReportEntries /\ todo' = [k \in 1 .. m |-> ReportEntries[k].path]
    <3>1. \A k \in 1 .. m : ReportEntries[k].path \in Told'
      BY <1>2, <2>3 DEF Told
    <3>2. \A k \in 1 .. m : todo'[k] \in Told'
      BY <2>3, <3>1
    <3> QED
      BY SMTT(60), <2>1, <2>3, <3>2, AsSeq DEF Told
  <2> QED
    BY <1>3, <2>2, <2>3
<1>6. RequestTyped' /\ Order' /\ OnlyTold'
  BY <1>1, <1>5 DEF IntakeInv, RequestTyped, Order, OnlyTold, Copying, After, CopiedAll
<1>7. ScansRight' /\ Concluded'
  BY <1>1, <1>4, NothingParsed DEF After
<1> QED
  BY <1>6, <1>7 DEF IntakeInv

LEMMA ListAttestationsStep ==
    ASSUME IntakeInv, ListAttestations
    PROVE  IntakeInv'
<1>1. /\ UNCHANGED <<request, reports, scans, copies, reader>>
      /\ pc = "copy_reports" /\ scans = <<>> /\ reader = Idle /\ todo = <<>>
      /\ attestations = <<>> /\ pc' \in {"copy_attestations", "refused"}
  BY DEF ListAttestations, Refuse, snapshotVars, IntakeInv, Order, CopiedAll
<1> DEFINE P == {i \in DOMAIN AttestationPaths : disk[AttestationPaths[i]] # Gone}
           G == Subsequence(AttestationPaths, P)
<1>2. PICK m \in Nat : DOMAIN G = 1 .. m /\ G = [k \in 1 .. m |-> G[k]]
  <2>1. PICK n \in Nat : DOMAIN AttestationPaths = 1 .. n
    BY IntakeAssumption, LenProperties
  <2>2. P \in SUBSET (1 .. n)
    BY <2>1
  <2> HIDE DEF P
  <2> QED
    BY <2>2, SubsequenceLen
<1>3. (attestations' = attestations /\ todo' = todo) \/ (attestations' = G /\ todo' = G)
  BY DEF ListAttestations, Refuse, Found
<1> HIDE DEF G
<1>4. Told \subseteq Told' /\ todo' \in Seq(Told')
  <2>1. CASE attestations' = attestations /\ todo' = todo
    BY <1>1, <2>1 DEF Told
  <2>2. CASE attestations' = G /\ todo' = G
    <3>1. \A k \in 1 .. m : todo'[k] \in Told'
      BY <1>2, <2>2 DEF Told
    <3>2. todo' \in Seq(Told')
      BY <1>2, <2>2, <3>1, AsSeq
    <3>3. Told \subseteq Told'
      BY <1>1 DEF Told
    <3> QED
      BY <3>2, <3>3
  <2> QED
    BY <1>3, <2>1, <2>2
<1>5. RequestTyped' /\ Order' /\ OnlyTold'
  BY <1>1, <1>4 DEF IntakeInv, RequestTyped, Order, OnlyTold, Copying, After, CopiedAll
<1>6. ScansRight' /\ Concluded'
  BY <1>1, NothingParsed DEF IntakeInv, ScansRight, After
<1> QED
  BY <1>5, <1>6 DEF IntakeInv

-----------------------------------------------------------------------------
(* After copying *)

(* Once all is copied, the paths and copies stay as they are. *)
LEMMA CopiesStay ==
    ASSUME IntakeInv, CopiedAll,
           UNCHANGED <<request, reports, attestations, todo, copies, reader>>
    PROVE  RequestTyped' /\ OnlyTold'
BY DEF IntakeInv, RequestTyped, OnlyTold, Told, CopiedAll

(* Results that stay, with reports and copies, stay right. *)
LEMMA ResultsStay ==
    ASSUME ScansRight, UNCHANGED <<scans, reports, copies>>
    PROVE  ScansRight'
<1>1. ASSUME NEW i \in DOMAIN scans' PROVE ScanRight(i)'
  BY <1>1 DEF ScansRight, ScanRight, Shape
<1> QED
  BY <1>1 DEF ScansRight

(* A refusal after copying changes nothing but pc. *)
LEMMA RefusalStep ==
    ASSUME IntakeInv, CopiedAll, Refuse, UNCHANGED snapshotVars
    PROVE  IntakeInv'
<1>1. /\ UNCHANGED <<request, reports, attestations, todo, copies, reader, scans>>
      /\ pc' = "refused"
  BY DEF Refuse, snapshotVars
<1>2. RequestTyped' /\ OnlyTold'
  BY <1>1, CopiesStay
<1>3. ScansRight'
  BY <1>1, ResultsStay DEF IntakeInv
<1>4. Order' /\ Concluded'
  BY <1>1 DEF Order, Concluded, CopiedAll, After
<1> QED
  BY <1>2, <1>3, <1>4 DEF IntakeInv

LEMMA ParseReportStep ==
    ASSUME IntakeInv, ParseReport
    PROVE  IntakeInv'
<1>1. /\ pc = "copy_attestations" /\ CopiedAll /\ Len(scans) < Len(reports)
      /\ UNCHANGED snapshotVars
  BY DEF ParseReport
<1>2. CASE Refuse
  BY <1>1, <1>2, RefusalStep
<1> DEFINE k == Len(scans) + 1
           entry == reports[k]
           x == [path |-> entry.path, provenance |-> NoProvenance, digest |-> Input(entry.path),
                 result |-> ScanOf(Kind(entry), DocumentOf(Input(entry.path)))]
<1>3. CASE /\ scans' = Append(scans, x)
           /\ UNCHANGED <<request, pc, todo, reports, attestations, policy, objections, archive>>
  <2>1. UNCHANGED <<copies, reader>>
    BY <1>1 DEF snapshotVars
  <2>2. PICK S : scans \in Seq(S)
    BY DEF IntakeInv, ScansRight
  <2>3. /\ scans' \in Seq({scans'[i] : i \in DOMAIN scans'})
        /\ Len(scans') = k /\ DOMAIN scans' = 1 .. k /\ scans'[k] = x
        /\ \A i \in DOMAIN scans : scans'[i] = scans[i]
    <3> HIDE DEF x
    <3> QED
      BY <1>3, <2>2, Appended
  <2>4. Len(scans) \in Nat /\ DOMAIN scans = 1 .. Len(scans)
    BY <2>2, LenProperties
  <2>5. RequestTyped' /\ OnlyTold'
    BY <1>1, <1>3, <2>1, CopiesStay
  <2>6. Order' /\ Concluded'
    BY <1>1, <1>3, <2>1 DEF IntakeInv, Order, Concluded, CopiedAll, After, Copying
  <2>7. ASSUME NEW i, i = k PROVE ScanRight(i)'
    <3>1. /\ Shape(x) /\ x.path = entry.path /\ x.digest = copies[x.path]
          /\ x.provenance \in {NoProvenance, x.digest}
      BY DEF Shape, Input
    <3>2. x.result = ScanOf(x.result.kind, DocumentOf(x.digest))
      <4>1. x.result = ScanOf(Kind(entry), DocumentOf(x.digest))
        OBVIOUS
      <4>2. x.result.kind = Kind(entry)
        BY DEF ScanOf
      <4> QED
        BY <4>1, <4>2
    <3> HIDE DEF x
    <3>3. scans'[i] = x /\ reports' = reports /\ copies' = copies /\ entry = reports[i]
      BY <1>3, <2>1, <2>3, <2>7
    <3> QED
      BY <3>1, <3>2, <3>3 DEF ScanRight, Shape
  <2>8. ASSUME NEW i \in DOMAIN scans PROVE ScanRight(i)'
    <3>1. ScanRight(i) /\ scans'[i] = scans[i]
      BY <2>3 DEF IntakeInv, ScansRight
    <3> QED
      BY <1>3, <2>1, <3>1 DEF ScanRight, Shape
  <2>9. ScansRight'
    <3>1. \A i \in DOMAIN scans' : i \in DOMAIN scans \/ i = k
      BY <2>3, <2>4
    <3>2. \A i \in DOMAIN scans' : ScanRight(i)'
      BY <2>7, <2>8, <3>1
    <3>3. Len(scans') <= Len(reports)
      BY <1>1, <2>3, <2>4 DEF IntakeInv, ScansRight
    <3> QED
      BY <1>3, <2>3, <3>2, <3>3 DEF IntakeInv, ScansRight
  <2> QED
    BY <2>5, <2>6, <2>9 DEF IntakeInv
<1> QED
  BY <1>2, <1>3 DEF ParseReport

LEMMA LoadPolicyStep ==
    ASSUME IntakeInv, LoadPolicy
    PROVE  IntakeInv'
<1>1. /\ pc = "copy_attestations" /\ CopiedAll /\ Len(scans) = Len(reports)
      /\ UNCHANGED snapshotVars
  BY DEF LoadPolicy
<1>2. CASE Refuse
  BY <1>1, <1>2, RefusalStep
<1>3. CASE /\ policy' = DocumentOf(Input(PolicyPath)) /\ pc' = "bind"
           /\ UNCHANGED <<request, todo, reports, attestations, scans, objections, archive>>
  <2>1. UNCHANGED <<copies, reader>>
    BY <1>1 DEF snapshotVars
  <2>2. RequestTyped' /\ OnlyTold' /\ ScansRight'
    BY <1>1, <1>3, <2>1, CopiesStay, ResultsStay DEF IntakeInv
  <2>3. Order' /\ Concluded'
    BY <1>1, <1>3, <2>1 DEF IntakeInv, Order, Concluded, CopiedAll, After, Copying, Input
  <2> QED
    BY <2>2, <2>3 DEF IntakeInv
<1> QED
  BY <1>2, <1>3 DEF LoadPolicy

LEMMA BindAttestationsStep ==
    ASSUME IntakeInv, BindAttestations
    PROVE  IntakeInv'
<1>1. pc = "bind" /\ CopiedAll /\ UNCHANGED snapshotVars /\ UNCHANGED <<copies, reader>>
  BY DEF BindAttestations, IntakeInv, Order, After, snapshotVars
<1>2. CASE Refuse
  BY <1>1, <1>2, RefusalStep
<1> DEFINE Bound(i) == IF scans[i].digest \in Attested
                         THEN [scans[i] EXCEPT !.provenance = scans[i].digest] ELSE scans[i]
<1>3. CASE /\ AttestationsAccepted /\ scans' = [i \in DOMAIN scans |-> Bound(i)]
           /\ pc' = "judge"
           /\ UNCHANGED <<request, todo, reports, attestations, policy, objections, archive>>
  <2>1. RequestTyped' /\ OnlyTold'
    BY <1>1, <1>3, CopiesStay
  <2>2. PICK n \in Nat : DOMAIN scans = 1 .. n /\ Len(scans) = n
    <3>1. PICK S : scans \in Seq(S)
      BY DEF IntakeInv, ScansRight
    <3> QED
      BY <3>1, LenProperties
  <2>3. ASSUME NEW i \in DOMAIN scans
        PROVE  /\ ScanRight(i)'
               /\ scans[i].digest \in Attested => scans'[i].provenance = scans[i].digest
    <3>1. ScanRight(i)
      BY DEF IntakeInv, ScansRight
    <3>2. /\ scans'[i] = [path |-> scans[i].path, provenance |-> scans'[i].provenance,
                          digest |-> scans[i].digest, result |-> scans[i].result]
          /\ scans'[i].provenance \in {scans[i].provenance, scans[i].digest}
          /\ scans[i].digest \in Attested => scans'[i].provenance = scans[i].digest
      <4>1. CASE scans[i].digest \in Attested
        <5>1. scans'[i] = [scans[i] EXCEPT !.provenance = scans[i].digest]
          BY <1>3, <4>1
        <5> QED
          BY <3>1, <4>1, <5>1 DEF ScanRight, Shape
      <4>2. CASE scans[i].digest \notin Attested
        BY <1>3, <3>1, <4>2 DEF ScanRight, Shape
      <4> QED
        BY <4>1, <4>2
    <3>3. reports' = reports /\ copies' = copies
      BY <1>1, <1>3
    <3> QED
      BY <3>1, <3>2, <3>3 DEF ScanRight, Shape
  <2>4. /\ scans' \in Seq({scans'[i] : i \in DOMAIN scans'})
        /\ Len(scans') = n /\ DOMAIN scans' = DOMAIN scans
    <3>1. DOMAIN scans' = 1 .. n /\ scans' = [j \in 1 .. n |-> scans'[j]]
      BY <1>3, <2>2
    <3>2. \A j \in 1 .. n : scans'[j] \in {scans'[i] : i \in 1 .. n}
      OBVIOUS
    <3> QED
      BY <2>2, <3>1, <3>2, AsSeq
  <2>5. ScansRight'
    <3>1. \A i \in DOMAIN scans' : ScanRight(i)'
      BY <2>3, <2>4
    <3> QED
      BY <1>3, <2>2, <2>4, <3>1 DEF IntakeInv, ScansRight
  <2>6. Concluded'
    <3>1. ASSUME NEW k \in DOMAIN attestations
          PROVE  \E i \in DOMAIN scans' :
                    scans'[i].provenance = DocumentOf(copies[attestations[k]]).report
      <4> DEFINE report == DocumentOf(copies[attestations[k]]).report
      <4>1. report \in Attested
        BY DEF Attested, Input
      <4>2. PICK i \in DOMAIN scans : scans[i].digest = report
        BY <1>3, <4>1 DEF AttestationsAccepted
      <4>3. scans'[i].provenance = report
        BY <2>3, <4>1, <4>2
      <4> QED
        BY <2>4, <4>3
    <3>2. attestations' = attestations /\ copies' = copies /\ policy' = policy
          /\ reports' = reports /\ pc' = "judge"
      BY <1>1, <1>3
    <3>3. Len(scans) = Len(reports) /\ policy = DocumentOf(copies[PolicyPath])
      BY <1>1 DEF IntakeInv, Concluded, After
    <3> QED
      BY <2>2, <2>4, <3>1, <3>2, <3>3 DEF Concluded, After
  <2>7. Order'
    BY <1>1, <1>3 DEF IntakeInv, Order, CopiedAll, After, Copying
  <2> QED
    BY <2>1, <2>5, <2>6, <2>7 DEF IntakeInv
<1> QED
  BY <1>2, <1>3 DEF BindAttestations

LEMMA LastSteps ==
    ASSUME IntakeInv, Judge \/ Archive
    PROVE  IntakeInv'
<1>1. /\ UNCHANGED <<request, todo, reports, attestations, policy, scans, copies, reader>>
      /\ pc \in {"judge", "archive"} /\ pc' \in {"archive", "done"} /\ CopiedAll
      /\ pc' = "done" => archive' = copies
  BY DEF Judge, Archive, snapshotVars, IntakeInv, Order, After
<1>2. RequestTyped' /\ OnlyTold' /\ ScansRight'
  BY <1>1, CopiesStay, ResultsStay DEF IntakeInv
<1>3. Order'
  BY <1>1 DEF IntakeInv, Order, CopiedAll, After, Copying
<1>4. Concluded'
  BY <1>1 DEF IntakeInv, Concluded, After
<1> QED
  BY <1>2, <1>3, <1>4 DEF IntakeInv

(* Other programs reach neither the private copies nor the gate. *)
LEMMA OthersStep ==
    ASSUME IntakeInv, Others \/ UNCHANGED vars
    PROVE  IntakeInv'
<1>1. UNCHANGED <<copies, reader, service>>
  BY DEF Others, vars, snapshotVars
<1>2. UNCHANGED <<copies, reader, request, pc, todo, reports, attestations, policy, scans, archive>>
  BY <1>1 DEF service
<1>3. RequestTyped' /\ Order' /\ OnlyTold' /\ Concluded'
  BY <1>2 DEF IntakeInv, RequestTyped, Order, OnlyTold, Told, Concluded, CopiedAll
<1>4. ScansRight'
  BY <1>2, ResultsStay DEF IntakeInv
<1> QED
  BY <1>3, <1>4 DEF IntakeInv

LEMMA IntakeStep == IntakeInv /\ [Next]_vars => IntakeInv'
BY CopyStep, ListReportsStep, ListAttestationsStep, ParseReportStep, LoadPolicyStep,
   BindAttestationsStep, LastSteps, OthersStep DEF Next

(* Nothing is parsed before everything is copied, and what is parsed, bound   *)
(* or archived later are the copies of paths that were named.                 *)
THEOREM IntakeInvHolds == Spec => []IntakeInv
BY IntakeInit, IntakeStep, PTL DEF Spec

(* Whatever happens to the sources while the gate runs, the policy, the       *)
(* results and their provenance are those of the archived bytes, and nothing  *)
(* is archived that was not evaluated (gate_service.py:88).                   *)
THEOREM BytesAreOneSet == Spec => []OneSetOfBytes
<1>1. IntakeInv => OneSetOfBytes
  <2> SUFFICES ASSUME IntakeInv, pc = "done" PROVE OneSetOfBytes
    BY DEF OneSetOfBytes
  <2>1. archive = copies /\ policy = DocumentOf(archive[PolicyPath]) /\ Len(scans) = Len(reports)
    BY DEF IntakeInv, Concluded, After
  <2>2. \A i \in DOMAIN scans :
           /\ scans[i].digest = archive[scans[i].path]
           /\ scans[i].result = ScanOf(scans[i].result.kind, DocumentOf(archive[scans[i].path]))
           /\ scans[i].provenance \in {NoProvenance, archive[scans[i].path]}
    BY <2>1 DEF IntakeInv, ScansRight, ScanRight
  <2>3. ASSUME NEW p \in Paths, archive[p] # NoCopy
        PROVE  \/ p = PolicyPath
               \/ \E i \in DOMAIN scans : scans[i].path = p
               \/ \E i \in DOMAIN scans : scans[i].provenance = DocumentOf(archive[p]).report
    <3>1. p \in Told
      BY <2>1, <2>3 DEF IntakeInv, OnlyTold
    <3>2. CASE \E i \in DOMAIN reports : reports[i].path = p
      <4>1. PICK S : scans \in Seq(S)
        BY DEF IntakeInv, ScansRight
      <4>2. DOMAIN scans = DOMAIN reports
        BY <2>1, <4>1, LenProperties DEF IntakeInv, ScansRight
      <4>3. \A i \in DOMAIN scans : scans[i].path = reports[i].path
        BY DEF IntakeInv, ScansRight, ScanRight
      <4> QED
        BY <3>2, <4>2, <4>3
    <3>3. CASE \E k \in DOMAIN attestations : attestations[k] = p
      BY <2>1, <3>3 DEF IntakeInv, Concluded, After
    <3> QED
      BY <3>1, <3>2, <3>3 DEF Told
  <2> QED
    BY <2>1, <2>2, <2>3 DEF OneSetOfBytes
<1> QED
  BY <1>1, IntakeInvHolds, PTL

-----------------------------------------------------------------------------
(* Budgets *)

File == [regular : BOOLEAN, bytes : Seq(Blocks)]

SnapshotTyped ==
    /\ files \in [Inodes -> File] /\ disk \in [Paths -> Inodes \cup {Gone}]
    /\ copies \in [Paths -> Seq(Blocks) \cup {NoCopy}]
    /\ budget \in [total : Nat, entries : Nat]
    /\ todo \in Seq(Paths)
    /\ reader # Idle => /\ reader.path \in Paths /\ reader.inode \in Inodes
                        /\ copies[reader.path] # NoCopy

BudgetInv == SnapshotTyped /\ WithinBudgets

(* The sizes of the private copies in c, and their sum *)
Existing(c) == {p \in Paths : c[p] # NoCopy}
Sizes(c) == [p \in Existing(c) |-> Len(c[p])]
Total(c) == SumFunctionOnSet(Sizes(c), Existing(c))

LEMMA TotalIsStored == Present = Existing(copies) /\ Stored = Total(copies)
BY DEF Present, Stored, Existing, Sizes, Total

Copies == [Paths -> Seq(Blocks) \cup {NoCopy}]

LEMMA ExistingFinite ==
    ASSUME NEW c \in Copies
    PROVE  /\ IsFiniteSet(Existing(c)) /\ Cardinality(Existing(c)) \in Nat
           /\ \A p \in Existing(c) : c[p] \in Seq(Blocks) /\ Len(c[p]) \in Nat
           /\ Total(c) \in Nat
<1>1. IsFiniteSet(Existing(c))
  BY SnapshotsAssumption, FS_Subset DEF Existing
<1>2. \A p \in Existing(c) : c[p] \in Seq(Blocks)
  BY DEF Existing, Copies
<1>3. \A p \in Existing(c) : Len(c[p]) \in Nat
  BY <1>2, LenProperties
<1>4. \A p \in Existing(c) : Sizes(c)[p] \in Nat
  BY <1>3 DEF Sizes
<1> QED
  BY <1>1, <1>2, <1>3, <1>4, SumNat, FS_CardinalityType DEF Total

(* The sum without p does not depend on what is at p. *)
LEMMA TotalWithout ==
    ASSUME NEW c \in Copies, NEW d \in Copies, NEW p \in Paths,
           \A q \in Paths : q # p => c[q] = d[q]
    PROVE  /\ Existing(c) \ {p} = Existing(d) \ {p}
           /\ SumFunctionOnSet(Sizes(c), Existing(c) \ {p}) = SumFunctionOnSet(Sizes(d), Existing(d) \ {p})
           /\ SumFunctionOnSet(Sizes(c), Existing(c) \ {p}) \in Nat
<1>1. Existing(c) \ {p} = Existing(d) \ {p}
  BY DEF Existing
<1>2. IsFiniteSet(Existing(c) \ {p})
  BY ExistingFinite, FS_Subset
<1>3. \A q \in Existing(c) \ {p} : Sizes(c)[q] = Sizes(d)[q]
  BY <1>1 DEF Existing, Sizes
<1>4. \A q \in Existing(c) \ {p} : Sizes(c)[q] \in Nat
  BY ExistingFinite DEF Sizes
<1> QED
  BY <1>1, <1>2, <1>3, <1>4, SumSame, SumNat

LEMMA TotalWith ==
    ASSUME NEW c \in Copies, NEW p \in Existing(c)
    PROVE  Total(c) = Len(c[p]) + SumFunctionOnSet(Sizes(c), Existing(c) \ {p})
<1>1. \A q \in Existing(c) : Sizes(c)[q] \in Int
  BY ExistingFinite DEF Sizes
<1>2. Sizes(c)[p] = Len(c[p])
  BY DEF Sizes
<1> QED
  BY <1>1, <1>2, ExistingFinite, SumStep DEF Total

LEMMA BudgetInit == Init => BudgetInv
<1> SUFFICES ASSUME Init PROVE BudgetInv
  OBVIOUS
<1>1. /\ copies = [p \in Paths |-> NoCopy] /\ reader = Idle /\ budget = [total |-> 0, entries |-> 0]
      /\ todo = <<PolicyPath>>
  BY DEF Init, SnapshotInit
<1>2. SnapshotTyped
  <2>1. files \in [Inodes -> File] /\ disk \in [Paths -> Inodes \cup {Gone}]
    BY IntakeAssumption DEF Init, File
  <2>2. todo \in Seq(Paths)
    BY <1>1, IntakeAssumption
  <2> QED BY <1>1, <2>1, <2>2 DEF SnapshotTyped
<1>3. Present = {}
  BY <1>1 DEF Present
<1>4. Stored = 0 /\ Cardinality(Present) = 0
  BY <1>3, SumEmpty, FS_EmptySet DEF Stored
<1>5. WithinBudgets
  BY <1>1, <1>3, <1>4, SnapshotsAssumption DEF WithinBudgets
<1> QED
  BY <1>2, <1>5 DEF BudgetInv

(* What holds of the budgets depends on the copies and the budget only. *)
LEMMA BudgetStays ==
    ASSUME WithinBudgets, UNCHANGED <<copies, budget>>
    PROVE  WithinBudgets'
BY DEF WithinBudgets, Present, Stored

LEMMA LeastOfTwo ==
    ASSUME NEW a \in Int, NEW b \in Int
    PROVE  Least({a, b}) \in Int /\ Least({a, b}) <= a /\ Least({a, b}) <= b
<1>1. \E n \in {a, b} : \A m \in {a, b} : n <= m
  OBVIOUS
<1> QED
  BY <1>1 DEF Least

LEMMA LeastOfThree ==
    ASSUME NEW a \in Int, NEW b \in Int, NEW c \in Int
    PROVE  Least({a, b, c}) \in Int /\ Least({a, b, c}) <= c
<1>1. \E n \in {a, b, c} : n <= a /\ n <= b /\ n <= c
  <2>1. CASE a <= b /\ a <= c
    BY <2>1
  <2>2. CASE b <= a /\ b <= c
    BY <2>2
  <2>3. CASE c <= a /\ c <= b
    BY <2>3
  <2> QED BY <2>1, <2>2, <2>3
<1>2. \E n \in {a, b, c} : \A m \in {a, b, c} : n <= m
  BY <1>1
<1> QED
  BY <1>2 DEF Least

LEMMA OpenBudget ==
    ASSUME BudgetInv, Open
    PROVE  BudgetInv'
<1>1. PICK p \in Paths : p = Head(todo)
  BY HeadTailProperties DEF Open, BudgetInv, SnapshotTyped
<1>2. /\ budget.entries < MaxFiles /\ disk[p] # Gone /\ copies[p] = NoCopy
      /\ budget' = [budget EXCEPT !.entries = @ + 1]
      /\ copies' = [copies EXCEPT ![p] = <<>>]
      /\ reader' = [path |-> p, inode |-> disk[p]]
      /\ UNCHANGED <<disk, files, todo>>
  BY <1>1 DEF Open, OpenSource, IsRegular, outside, service
<1>3. /\ copies \in Copies /\ copies' \in Copies /\ <<>> # NoCopy
  <2>1. <<>> \in Seq(Blocks) /\ copies \in Copies
    BY DEF BudgetInv, SnapshotTyped, Copies
  <2> QED BY <1>2, <2>1, SnapshotsAssumption DEF Copies
<1>4. SnapshotTyped'
  BY <1>2, <1>3 DEF BudgetInv, SnapshotTyped, Copies
<1>5. /\ p \in Existing(copies') /\ p \notin Existing(copies)
      /\ Existing(copies') \ {p} = Existing(copies)
      /\ \A q \in Existing(copies) : copies'[q] = copies[q]
  BY <1>2, <1>3 DEF Existing, Copies
<1>6. Total(copies') = Total(copies)
  <2>1. Total(copies') = Len(copies'[p]) + SumFunctionOnSet(Sizes(copies'), Existing(copies') \ {p})
    BY <1>3, <1>5, TotalWith
  <2>2. \A q \in Paths : q # p => copies'[q] = copies[q]
    BY <1>2, <1>3 DEF Copies
  <2>3. /\ SumFunctionOnSet(Sizes(copies'), Existing(copies') \ {p}) = Total(copies)
    BY <1>3, <1>5, <2>2, TotalWithout DEF Total
  <2>4. Len(copies'[p]) = 0
    BY <1>2, <1>3 DEF Copies
  <2> QED BY <1>3, <2>1, <2>3, <2>4, ExistingFinite
<1>7. Cardinality(Existing(copies')) = Cardinality(Existing(copies)) + 1
  BY <1>3, <1>5, FS_RemoveElement, ExistingFinite
<1>8. WithinBudgets'
  <2>1. \A q \in Existing(copies') : Len(copies'[q]) <= MaxFile
    <3>1. \A q \in Existing(copies) : Len(copies[q]) <= MaxFile
      BY TotalIsStored DEF BudgetInv, WithinBudgets
    <3>2. Len(copies'[p]) = 0
      BY <1>2, <1>3 DEF Copies
    <3> QED BY <1>5, <3>1, <3>2, SnapshotsAssumption
  <2>2. Present' = Existing(copies') /\ Stored' = Total(copies')
    BY DEF Present, Stored, Existing, Sizes, Total
  <2>3. budget'.total = budget.total /\ budget'.entries = budget.entries + 1
    BY <1>2 DEF BudgetInv, SnapshotTyped
  <2>4. budget.entries \in Nat /\ Cardinality(Existing(copies)) \in Nat
    BY <1>3, ExistingFinite DEF BudgetInv, SnapshotTyped
  <2>5. /\ Total(copies) <= budget.total /\ budget.total <= MaxTotal
        /\ Cardinality(Existing(copies)) <= budget.entries
    BY TotalIsStored DEF BudgetInv, WithinBudgets
  <2>6. /\ Total(copies') <= budget'.total /\ budget'.total <= MaxTotal
        /\ Cardinality(Existing(copies')) <= budget'.entries /\ budget'.entries <= MaxFiles
    BY <1>2, <1>6, <1>7, <2>3, <2>4, <2>5, SnapshotsAssumption
  <2> QED
    BY <2>1, <2>2, <2>6 DEF WithinBudgets
<1> QED
  BY <1>4, <1>8 DEF BudgetInv

LEMMA CopyBudget ==
    ASSUME BudgetInv, CopyMore
    PROVE  BudgetInv'
<1> DEFINE p == reader.path
           bytes == files[reader.inode].bytes
           chunk == ReadChunk(bytes)
<1>1. /\ reader # Idle /\ chunk # <<>> /\ ~TooMuch(chunk)
      /\ copies' = [copies EXCEPT ![p] = @ \o chunk]
      /\ budget' = [budget EXCEPT !.total = @ + Len(chunk)]
      /\ UNCHANGED <<disk, files, reader, todo>>
  BY DEF CopyMore, CopyChunk, outside, service
<1>2. /\ p \in Paths /\ copies \in Copies /\ copies[p] \in Seq(Blocks) /\ copies[p] # NoCopy
      /\ bytes \in Seq(Blocks)
      /\ budget.total \in Nat /\ budget.entries \in Nat
  BY <1>1 DEF BudgetInv, SnapshotTyped, Copies, File
<1>3. Copied \in Nat /\ Copied = Len(copies[p])
  BY <1>2, LenProperties DEF Copied
<1>4. Remaining \in Int /\ Remaining <= MaxFile - Copied /\ Remaining <= MaxTotal - budget.total
  <2>1. MaxFile - Copied \in Int /\ MaxTotal - budget.total \in Int
    BY <1>2, <1>3, SnapshotsAssumption
  <2> QED BY <2>1, LeastOfTwo DEF Remaining
<1>5. chunk \in Seq(Blocks) /\ Len(chunk) \in Nat
  <2>1. Copied + Chunk \in Int /\ Copied + Remaining + 1 \in Int /\ Len(bytes) \in Int
    BY <1>2, <1>3, <1>4, SnapshotsAssumption, LenProperties
  <2>2. PICK n \in Int : n <= Len(bytes) /\ chunk = SubSeq(bytes, Copied + 1, n)
    <3>1. /\ Least({Copied + Chunk, Copied + Remaining + 1, Len(bytes)}) \in Int
          /\ Least({Copied + Chunk, Copied + Remaining + 1, Len(bytes)}) <= Len(bytes)
      BY <2>1, LeastOfThree
    <3> QED BY <3>1 DEF ReadChunk
  <2>3. chunk \in Seq(Blocks)
    <3>1. \A i \in (Copied + 1) .. n : bytes[i] \in Blocks
      BY <1>2, <1>3, <2>1, <2>2, ElementOfSeq
    <3> HIDE DEF bytes
    <3> QED BY <1>3, <2>2, <3>1, SubSeqProperties
  <2> QED BY <2>3, LenProperties
<1> HIDE DEF chunk, bytes, p
<1>6. /\ copies'[p] = copies[p] \o chunk /\ copies'[p] \in Seq(Blocks)
      /\ Len(copies'[p]) = Len(copies[p]) + Len(chunk)
  BY <1>1, <1>2, <1>5, ConcatProperties DEF Copies
<1>7. /\ copies' \in Copies /\ copies'[p] # NoCopy
      /\ \A q \in Paths : q # p => copies'[q] = copies[q]
  BY <1>1, <1>2, <1>6, SnapshotsAssumption DEF Copies
<1>8. SnapshotTyped'
  <2>1. budget' \in [total : Nat, entries : Nat]
    <3>1. budget \in [total : Nat, entries : Nat]
      BY DEF BudgetInv, SnapshotTyped
    <3>2. budget.total + Len(chunk) \in Nat
      BY <1>2, <1>5
    <3> QED BY <1>1, <3>1, <3>2
  <2> QED BY <1>1, <1>7, <2>1 DEF BudgetInv, SnapshotTyped, Copies, p
<1>9. Existing(copies') = Existing(copies) /\ p \in Existing(copies)
  BY <1>2, <1>7 DEF Existing
<1>10. Total(copies') = Total(copies) + Len(chunk)
  <2>1. Total(copies) = Len(copies[p]) + SumFunctionOnSet(Sizes(copies), Existing(copies) \ {p})
    BY <1>2, <1>9, TotalWith
  <2>2. Total(copies') = Len(copies'[p]) + SumFunctionOnSet(Sizes(copies'), Existing(copies') \ {p})
    BY <1>7, <1>9, TotalWith
  <2>3. /\ SumFunctionOnSet(Sizes(copies'), Existing(copies') \ {p})
           = SumFunctionOnSet(Sizes(copies), Existing(copies) \ {p})
        /\ SumFunctionOnSet(Sizes(copies), Existing(copies) \ {p}) \in Nat
    BY <1>2, <1>7, TotalWithout
  <2> QED BY <1>3, <1>5, <1>6, <2>1, <2>2, <2>3
<1>11. WithinBudgets'
  <2>1. Len(chunk) <= MaxFile - Len(copies[p]) /\ Len(chunk) <= MaxTotal - budget.total
    <3>1. ~(Len(chunk) > Remaining)
      BY <1>1 DEF TooMuch
    <3>2. MaxFile - Len(copies[p]) \in Int /\ MaxTotal - budget.total \in Int
      BY <1>2, <1>3, SnapshotsAssumption
    <3>3. Remaining <= MaxFile - Len(copies[p])
      BY <1>3, <1>4
    <3> HIDE DEF Remaining
    <3> QED BY <1>4, <1>5, <3>1, <3>2, <3>3
  <2>2. \A q \in Existing(copies') : Len(copies'[q]) <= MaxFile
    <3>1. \A q \in Existing(copies) : Len(copies[q]) <= MaxFile
      BY TotalIsStored DEF BudgetInv, WithinBudgets
    <3>2. Len(copies'[p]) <= MaxFile
      BY <1>3, <1>5, <1>6, <2>1, SnapshotsAssumption
    <3> QED BY <1>7, <1>9, <3>1, <3>2 DEF Existing
  <2>3. Present' = Existing(copies') /\ Stored' = Total(copies')
    BY DEF Present, Stored, Existing, Sizes, Total
  <2>4. budget'.total = budget.total + Len(chunk) /\ budget'.entries = budget.entries
    BY <1>1 DEF BudgetInv, SnapshotTyped
  <2>5. /\ Total(copies) <= budget.total /\ budget.entries <= MaxFiles
        /\ Cardinality(Existing(copies)) <= budget.entries
    BY TotalIsStored DEF BudgetInv, WithinBudgets
  <2>6. Total(copies) \in Nat
    BY <1>2, ExistingFinite
  <2>7. /\ Total(copies') <= budget'.total /\ budget'.total <= MaxTotal
        /\ Cardinality(Existing(copies')) <= budget'.entries /\ budget'.entries <= MaxFiles
    BY <1>2, <1>5, <1>9, <1>10, <2>1, <2>4, <2>5, <2>6, SnapshotsAssumption
  <2> QED BY <2>2, <2>3, <2>7 DEF WithinBudgets
<1> QED
  BY <1>8, <1>11 DEF BudgetInv

(* When a copy is given up, it is gone, and the budget stays charged with it. *)
LEMMA OverflowBudget ==
    ASSUME BudgetInv, Overflow, UNCHANGED <<disk, files, todo>>
    PROVE  BudgetInv'
<1> DEFINE p == reader.path
<1>1. /\ reader # Idle /\ reader' = Idle /\ copies' = [copies EXCEPT ![p] = NoCopy]
      /\ UNCHANGED budget
  BY DEF Overflow
<1>2. p \in Paths /\ copies \in Copies /\ copies' \in Copies
  BY <1>1 DEF BudgetInv, SnapshotTyped, Copies
<1>3. SnapshotTyped'
  BY <1>1, <1>2 DEF BudgetInv, SnapshotTyped, Copies
<1> HIDE DEF p
<1>4. /\ Existing(copies') = Existing(copies) \ {p} /\ p \in Existing(copies)
      /\ \A q \in Paths : q # p => copies'[q] = copies[q]
  BY <1>1, <1>2 DEF BudgetInv, SnapshotTyped, Copies, Existing, p
<1>5. Total(copies') <= Total(copies) /\ Total(copies') \in Nat /\ Total(copies) \in Nat
  <2>1. Total(copies) = Len(copies[p]) + SumFunctionOnSet(Sizes(copies), Existing(copies) \ {p})
    BY <1>2, <1>4, TotalWith
  <2>2. Existing(copies') \ {p} = Existing(copies')
    BY <1>4
  <2>3. SumFunctionOnSet(Sizes(copies), Existing(copies) \ {p}) = Total(copies')
    BY <1>2, <1>4, <2>2, TotalWithout DEF Total
  <2>4. Len(copies[p]) \in Nat /\ Total(copies') \in Nat /\ Total(copies) \in Nat
    BY <1>2, <1>4, ExistingFinite
  <2> QED BY <2>1, <2>3, <2>4
<1>6. Cardinality(Existing(copies')) <= Cardinality(Existing(copies))
  <2>1. IsFiniteSet(Existing(copies)) /\ Cardinality(Existing(copies)) \in Nat
    BY <1>2, ExistingFinite
  <2>2. Cardinality(Existing(copies')) = Cardinality(Existing(copies)) - 1
    BY <1>4, <2>1, FS_RemoveElement
  <2> QED BY <2>1, <2>2
<1>7. WithinBudgets'
  <2>1. Present' = Existing(copies') /\ Stored' = Total(copies')
    BY DEF Present, Stored, Existing, Sizes, Total
  <2>2. \A q \in Existing(copies') : Len(copies'[q]) <= MaxFile
    BY <1>4, TotalIsStored DEF BudgetInv, WithinBudgets, Existing
  <2>3. /\ Total(copies) <= budget.total /\ budget.total <= MaxTotal
        /\ budget.entries <= MaxFiles /\ Cardinality(Existing(copies)) <= budget.entries
    BY TotalIsStored DEF BudgetInv, WithinBudgets
  <2>4. /\ budget.total \in Nat /\ budget.entries \in Nat
        /\ Cardinality(Existing(copies')) \in Nat /\ Cardinality(Existing(copies)) \in Nat
    BY <1>2, ExistingFinite DEF BudgetInv, SnapshotTyped
  <2>5. Total(copies') <= budget'.total /\ Cardinality(Existing(copies')) <= budget'.entries
    BY <1>1, <1>5, <1>6, <2>3, <2>4
  <2> QED BY <1>1, <2>1, <2>2, <2>3, <2>5 DEF WithinBudgets
<1> QED
  BY <1>3, <1>7 DEF BudgetInv

LEMMA ListBudget ==
    ASSUME IntakeInv, BudgetInv, ListReports \/ ListAttestations
    PROVE  BudgetInv'
<1>1. UNCHANGED snapshotVars
  BY DEF ListReports, ListAttestations
<1>2. todo' \in Seq(Paths)
  <2>1. CASE todo' = todo
    BY <2>1 DEF BudgetInv, SnapshotTyped
  <2>2. CASE todo' = Each(LAMBDA r : r.path, ReportEntries)
    <3>1. ReportEntries \in Seq(Entry)
      BY ReportEntriesTyped DEF IntakeInv
    <3>2. PICK m \in Nat : DOMAIN ReportEntries = 1 .. m /\ m = Len(ReportEntries)
      BY <3>1, LenProperties
    <3>3. \A k \in 1 .. m : ReportEntries[k] \in Entry
      BY <3>1, <3>2, ElementOfSeq
    <3>4. todo' = [k \in 1 .. m |-> ReportEntries[k].path]
      BY <2>2, <3>2 DEF Each
    <3>5. /\ \A k \in 1 .. m : todo'[k] \in Paths
          /\ DOMAIN todo' = 1 .. m /\ todo' = [k \in 1 .. m |-> todo'[k]]
      BY <3>3, <3>4 DEF Entry
    <3> QED BY <3>5, AsSeq
  <2>3. CASE todo' = Subsequence(AttestationPaths,
                                 {i \in DOMAIN AttestationPaths : disk[AttestationPaths[i]] # Gone})
    <3> DEFINE P == {i \in DOMAIN AttestationPaths : disk[AttestationPaths[i]] # Gone}
    <3>1. PICK n \in Nat : DOMAIN AttestationPaths = 1 .. n
      BY IntakeAssumption, LenProperties
    <3>2. P \in SUBSET (1 .. n)
      BY <3>1
    <3>3. \A i \in P : AttestationPaths[i] \in Paths
      BY IntakeAssumption, ElementOfSeq, LenProperties
    <3> HIDE DEF P
    <3>4. Subsequence(AttestationPaths, P) \in Seq(Paths)
      BY <3>2, <3>3, SubsequenceSeq
    <3> QED BY <2>3, <3>4 DEF P
  <2> QED
    BY <2>1, <2>2, <2>3 DEF ListReports, ListAttestations, Refuse, Found
<1>3. SnapshotTyped'
  BY <1>1, <1>2 DEF BudgetInv, SnapshotTyped, snapshotVars
<1>4. WithinBudgets'
  BY <1>1, BudgetStays DEF BudgetInv, snapshotVars
<1> QED
  BY <1>3, <1>4 DEF BudgetInv

(* Whoever rewrites a file leaves it a file, and the private copies alone. *)
LEMMA OthersBudget ==
    ASSUME BudgetInv, Others
    PROVE  BudgetInv'
<1>1. UNCHANGED <<budget, copies, reader, todo>>
  BY DEF Others, service
<1>2. files' \in [Inodes -> File] /\ disk' \in [Paths -> Inodes \cup {Gone}]
  <2>1. files \in [Inodes -> File] /\ disk \in [Paths -> Inodes \cup {Gone}]
    BY DEF BudgetInv, SnapshotTyped
  <2>2. ASSUME NEW i \in Inodes, Rewrite(i)
        PROVE  files' \in [Inodes -> File] /\ UNCHANGED disk
    <3>1. PICK bytes \in Contents : files' = [files EXCEPT ![i].bytes = bytes] /\ UNCHANGED disk
      BY <2>2 DEF Rewrite
    <3>2. bytes \in Seq(Blocks)
      BY SnapshotsAssumption
    <3>3. [files[i] EXCEPT !.bytes = bytes] \in File
      BY <2>1, <3>2 DEF File
    <3> QED BY <2>1, <3>1, <3>3
  <2>3. ASSUME NEW p \in Paths, Redirect(p)
        PROVE  disk' \in [Paths -> Inodes \cup {Gone}] /\ UNCHANGED files
    BY <2>1, <2>3 DEF Redirect
  <2> QED BY <2>1, <2>2, <2>3 DEF Others
<1>3. SnapshotTyped' /\ WithinBudgets'
  BY <1>1, <1>2, BudgetStays DEF BudgetInv, SnapshotTyped
<1> QED
  BY <1>3 DEF BudgetInv

LEMMA OtherStepsBudget ==
    ASSUME IntakeInv, BudgetInv,
           CopyEnds \/ CopyRefused \/ ParseReport \/ LoadPolicy \/ BindAttestations
              \/ Judge \/ Archive \/ UNCHANGED vars
    PROVE  BudgetInv'
<1>1. CASE CopyEnds
  <2>1. todo' \in Seq(Paths)
    <3>1. todo # <<>> /\ todo \in Seq(Paths) /\ todo' = Tail(todo)
      BY <1>1 DEF CopyEnds, EndOfFile, IntakeInv, OnlyTold, BudgetInv, SnapshotTyped
    <3> QED BY <3>1, HeadTailProperties
  <2>2. reader' = Idle /\ UNCHANGED <<disk, files, copies, budget>>
    BY <1>1 DEF CopyEnds, EndOfFile, outside
  <2> QED BY <2>1, <2>2, BudgetStays DEF BudgetInv, SnapshotTyped
<1>2. CASE CopyRefused
  <2>1. CASE UNCHANGED snapshotVars /\ Refuse
    BY <2>1, BudgetStays DEF BudgetInv, SnapshotTyped, snapshotVars, Refuse
  <2>2. CASE Overflow /\ Refuse /\ UNCHANGED outside
    BY <2>2, OverflowBudget DEF outside, Refuse
  <2> QED BY <1>2, <2>1, <2>2 DEF CopyRefused
<1>3. CASE ParseReport \/ LoadPolicy \/ BindAttestations \/ Judge \/ Archive \/ UNCHANGED vars
  <2>1. UNCHANGED snapshotVars /\ UNCHANGED todo
    BY <1>3 DEF ParseReport, LoadPolicy, BindAttestations, Judge, Archive, Refuse, vars, service
  <2> QED BY <2>1, BudgetStays DEF BudgetInv, SnapshotTyped, snapshotVars
<1> QED
  BY <1>1, <1>2, <1>3

LEMMA BudgetStep == IntakeInv /\ BudgetInv /\ [Next]_vars => BudgetInv'
BY OpenBudget, CopyBudget, ListBudget, OthersBudget, OtherStepsBudget DEF Next

(* The file that is being copied has its private copy, and the budgets count  *)
(* at least what there is; with the types of both, inductive.                 *)
THEOREM BudgetInvHolds == Spec => []BudgetInv
BY BudgetInit, BudgetStep, IntakeInvHolds, PTL DEF Spec

(* snapshots.py:12-14: whatever the sources are, however they grow or are     *)
(* exchanged while they are read chunk by chunk, no private copy, not all of  *)
(* them together and no count of them exceeds its limit.                      *)
THEOREM BudgetsHold == Spec => []WithinBudgets
BY BudgetInvHolds, PTL DEF BudgetInv

-----------------------------------------------------------------------------
(* The methods of the parser: the equation of their results has a solution, *)
(* and every call that succeeds has moved on.                               *)

Calls == Rules \X Nat

Height(rule) == IF rule = "or" THEN 3 ELSE IF rule = "and" THEN 2 ELSE IF rule = "with" THEN 1 ELSE 0

(* What each call makes smaller, whatever it calls *)
Rank(e, rule, i) == 4 * (IF i <= Len(e) THEN Len(e) + 1 - i ELSE 0) + Height(rule)

Forward(r, i) == r.next \in Nat /\ (r.next = 0 \/ r.next > i)

Parser(e, p, f) == f = [m \in Calls |-> Returned(e, p, f, m[1], m[2])]

LEMMA ParseIsParser ==
    ASSUME NEW e, NEW p
    PROVE  Parse(e, p) = (CHOOSE f : Parser(e, p, f))[<<"or", 1>>]
BY DEF Parse, Parser, Calls

LEMMA RankType ==
    ASSUME NEW e, Len(e) \in Nat, NEW rule \in Rules, NEW i \in Nat
    PROVE  Rank(e, rule, i) \in Nat /\ Rank(e, rule, i) <= 4 * Len(e) + 7
<1>1. Height(rule) \in 0 .. 3
  BY DEF Height
<1>2. CASE i <= Len(e)
  <2>1. Rank(e, rule, i) = 4 * (Len(e) + 1 - i) + Height(rule)
    BY <1>2 DEF Rank
  <2> QED BY <1>1, <1>2, <2>1
<1>3. CASE ~(i <= Len(e))
  <2>1. Rank(e, rule, i) = 4 * 0 + Height(rule)
    BY <1>3 DEF Rank
  <2> QED BY <1>1, <2>1
<1> QED
  BY <1>2, <1>3

LEMMA LaterIsLower ==
    ASSUME NEW e, Len(e) \in Nat, NEW rule \in Rules, NEW i \in Nat, NEW q \in Rules, NEW k \in Nat,
           i <= Len(e), i < k
    PROVE  Rank(e, q, k) < Rank(e, rule, i)
<1>1. Height(rule) \in 0 .. 3 /\ Height(q) \in 0 .. 3
  BY DEF Height
<1>2. Rank(e, rule, i) = 4 * (Len(e) + 1 - i) + Height(rule)
  BY DEF Rank
<1>3. Rank(e, q, k) = 4 * (IF k <= Len(e) THEN Len(e) + 1 - k ELSE 0) + Height(q)
  BY DEF Rank
<1> QED
  BY <1>1, <1>2, <1>3

LEMMA LowerIsLower ==
    ASSUME NEW e, Len(e) \in Nat, NEW rule \in Rules, NEW i \in Nat, NEW q \in Rules, Height(q) < Height(rule)
    PROVE  Rank(e, q, i) < Rank(e, rule, i)
<1>1. Height(rule) \in 0 .. 3 /\ Height(q) \in 0 .. 3
  BY DEF Height
<1> DEFINE base == 4 * (IF i <= Len(e) THEN Len(e) + 1 - i ELSE 0)
<1>2. base \in Nat
  OBVIOUS
<1>3. Rank(e, rule, i) = base + Height(rule) /\ Rank(e, q, i) = base + Height(q)
  BY DEF Rank
<1> HIDE DEF base
<1> QED
  BY <1>1, <1>2, <1>3

(* Where two tables agree below a call, they agree on it. *)
LEMMA ReadsBelow ==
    ASSUME NEW e, Len(e) \in Nat, NEW p, NEW f, NEW g, NEW rule \in Rules, NEW i \in Nat,
           \A q \in Rules, k \in Nat : Rank(e, q, k) < Rank(e, rule, i) =>
               f[<<q, k>>] = g[<<q, k>>] /\ Forward(f[<<q, k>>], k)
    PROVE  /\ Returned(e, p, f, rule, i) = Returned(e, p, g, rule, i)
           /\ Forward(Returned(e, p, f, rule, i), i)
<1>1. CASE rule \in {"or", "and"}
  <2> DEFINE below == Operand(rule)
             left == f[<<below, i>>]
             right == f[<<rule, left.next + 1>>]
  <2>1. below \in Rules /\ Rank(e, below, i) < Rank(e, rule, i)
    BY <1>1, LowerIsLower DEF Operand, Height, Rules
  <2>2. left = g[<<below, i>>] /\ Forward(left, i)
    BY <2>1
  <2>3. CASE left.next = 0 \/ ~Peek(e, left.next, Separator(rule))
    BY <1>1, <2>2, <2>3 DEF Returned, Chain
  <2>4. CASE left.next # 0 /\ Peek(e, left.next, Separator(rule))
    <3>1. left.next \in Nat /\ i < left.next /\ left.next <= Len(e)
      BY <2>2, <2>4 DEF Forward, Peek
    <3>2. left.next + 1 \in Nat /\ Rank(e, rule, left.next + 1) < Rank(e, rule, i)
      BY <3>1, LaterIsLower
    <3>3. right = g[<<rule, left.next + 1>>] /\ Forward(right, left.next + 1)
      BY <3>2
    <3>4. Returned(e, p, f, rule, i) = Returned(e, p, g, rule, i)
      BY <1>1, <2>2, <3>3 DEF Returned, Chain
    <3>5. CASE right.next = 0
      BY <1>1, <2>4, <3>4, <3>5 DEF Returned, Chain, Error, Parsed, Forward
    <3>6. CASE right.next # 0
      <4>1. Returned(e, p, f, rule, i).next = right.next
        BY <1>1, <2>4, <3>6 DEF Returned, Chain, Parsed
      <4> QED BY <3>1, <3>3, <3>4, <3>6, <4>1 DEF Forward
    <3> QED BY <3>5, <3>6
  <2> QED BY <2>3, <2>4
<1>2. CASE rule = "with"
  <2> DEFINE left == f[<<"primary", i>>]
  <2>1. "primary" \in Rules /\ Rank(e, "primary", i) < Rank(e, rule, i)
    BY <1>2, LowerIsLower DEF Height, Rules
  <2>2. left = g[<<"primary", i>>] /\ Forward(left, i)
    BY <2>1
  <2>3. Returned(e, p, f, rule, i) = Returned(e, p, g, rule, i)
    BY <1>2, <2>2 DEF Returned, WithException
  <2> DEFINE r == Returned(e, p, f, rule, i)
  <2>4. \/ r = left
        \/ r.next = 0
        \/ left.next # 0 /\ r.next = left.next + 1 + 1
    BY <1>2 DEF Returned, WithException, Error, Parsed
  <2> HIDE DEF r
  <2>5. Forward(r, i)
    BY <2>2, <2>4 DEF Forward
  <2> QED BY <2>3, <2>5 DEF r
<1>3. CASE rule = "primary"
  <2> DEFINE inner == f[<<"or", i + 1>>]
  <2>1. CASE Peek(e, i, "(")
    <3>1. "or" \in Rules /\ i + 1 \in Nat /\ i <= Len(e)
      BY <2>1 DEF Rules, Peek
    <3>5. Rank(e, "or", i + 1) < Rank(e, rule, i)
      BY <3>1, LaterIsLower
    <3>2. inner = g[<<"or", i + 1>>] /\ Forward(inner, i + 1)
      BY <3>1, <3>5
    <3>3. Returned(e, p, f, rule, i) = Returned(e, p, g, rule, i)
      BY <1>3, <3>2 DEF Returned, Primary
    <3>4. \/ Returned(e, p, f, rule, i).next = 0
          \/ inner.next # 0 /\ Returned(e, p, f, rule, i).next = inner.next + 1
      BY <1>3, <2>1 DEF Returned, Primary, Error, Parsed
    <3> QED BY <3>2, <3>3, <3>4 DEF Forward
  <2>2. CASE ~Peek(e, i, "(")
    BY <1>3, <2>2 DEF Returned, Primary, Error, Parsed, Forward
  <2> QED BY <2>1, <2>2
<1> QED
  BY <1>1, <1>2, <1>3 DEF Rules

Parses(e, p, f, n) ==
    /\ f = [m \in Calls |-> f[m]]
    /\ \A rule \in Rules, i \in Nat : Rank(e, rule, i) < n =>
          /\ f[<<rule, i>>] = Returned(e, p, f, rule, i)
          /\ Forward(f[<<rule, i>>], i)

LEMMA ParserExists ==
    ASSUME NEW e, Len(e) \in Nat, NEW p
    PROVE  \E f : Parser(e, p, f)
<1> DEFINE good == {n \in Nat : \E f : Parses(e, p, f, n)}
<1>1. ASSUME NEW n \in Nat, 0 .. (n - 1) \subseteq good
      PROVE  n \in good
  <2>1. CASE n = 0
    <3> DEFINE f == [m \in Calls |-> 0]
    <3>1. Parses(e, p, f, n)
      BY <2>1, RankType DEF Parses
    <3> QED BY <3>1
  <2>2. CASE n # 0
    <3>1. n - 1 \in 0 .. (n - 1) /\ n - 1 \in Nat
      BY <2>2
    <3>2. PICK f : Parses(e, p, f, n - 1)
      BY <1>1, <3>1
    <3> DEFINE g == [m \in Calls |-> IF Rank(e, m[1], m[2]) < n - 1 THEN f[m]
                                     ELSE Returned(e, p, f, m[1], m[2])]
    <3>3. ASSUME NEW rule \in Rules, NEW i \in Nat
          PROVE  g[<<rule, i>>] = IF Rank(e, rule, i) < n - 1 THEN f[<<rule, i>>]
                                  ELSE Returned(e, p, f, rule, i)
      BY DEF Calls
    <3>4. g = [m \in Calls |-> g[m]]
      OBVIOUS
    <3> HIDE DEF g
    <3>5. ASSUME NEW rule \in Rules, NEW i \in Nat, Rank(e, rule, i) < n
          PROVE  /\ g[<<rule, i>>] = Returned(e, p, g, rule, i)
                 /\ Forward(g[<<rule, i>>], i)
      <4>0. Rank(e, rule, i) \in Nat
        BY RankType
      <4>1. ASSUME NEW q \in Rules, NEW k \in Nat, Rank(e, q, k) < Rank(e, rule, i)
            PROVE  f[<<q, k>>] = g[<<q, k>>] /\ Forward(f[<<q, k>>], k)
        <5>1. Rank(e, q, k) \in Nat /\ Rank(e, q, k) < n - 1
          BY <3>5, <4>0, <4>1, RankType
        <5> QED BY <3>2, <3>3, <5>1 DEF Parses
      <4>2. /\ Returned(e, p, f, rule, i) = Returned(e, p, g, rule, i)
            /\ Forward(Returned(e, p, f, rule, i), i)
        BY <4>1, ReadsBelow
      <4>3. g[<<rule, i>>] = Returned(e, p, f, rule, i)
        BY <3>2, <3>3 DEF Parses
      <4> QED BY <4>2, <4>3
    <3>6. Parses(e, p, g, n)
      BY <3>4, <3>5 DEF Parses
    <3> QED BY <3>6
  <2> QED BY <2>1, <2>2
<1>2. Nat \subseteq good
  <2> HIDE DEF good
  <2> QED BY <1>1, NumbersBelow
<1>3. PICK f : Parses(e, p, f, 4 * Len(e) + 8)
  BY <1>2
<1>4. ASSUME NEW rule \in Rules, NEW i \in Nat
      PROVE  f[<<rule, i>>] = Returned(e, p, f, rule, i)
  <2>1. Rank(e, rule, i) \in Nat /\ Rank(e, rule, i) < 4 * Len(e) + 8
    BY RankType
  <2> QED BY <1>3, <2>1 DEF Parses
<1>5. \A m \in Calls : f[m] = Returned(e, p, f, m[1], m[2])
  BY <1>4 DEF Calls
<1>6. f = [m \in Calls |-> f[m]]
  BY <1>3 DEF Parses
<1>7. Parser(e, p, f)
  BY <1>5, <1>6 DEF Parser
<1> QED
  BY <1>7

LEMMA ParserReturns ==
    ASSUME NEW e, NEW p, NEW f, Parser(e, p, f), NEW rule \in Rules, NEW i \in Nat
    PROVE  f[<<rule, i>>] = Returned(e, p, f, rule, i)
<1>1. <<rule, i>> \in Calls
  BY DEF Calls
<1>2. f[<<rule, i>>] = Returned(e, p, f, <<rule, i>>[1], <<rule, i>>[2])
  BY <1>1 DEF Parser
<1> QED
  BY <1>2

(* Induction over calls: B has the calls a statement holds for. *)
Hereditary(e, B) ==
    \A rule \in Rules, i \in Nat :
        (\A q \in Rules, k \in Nat : Rank(e, q, k) < Rank(e, rule, i) => <<q, k>> \in B)
        => <<rule, i>> \in B

LEMMA CallsBelow ==
    ASSUME NEW e, Len(e) \in Nat, NEW B, Hereditary(e, B)
    PROVE  \A rule \in Rules, i \in Nat : <<rule, i>> \in B
<1> DEFINE good == {n \in Nat : \A rule \in Rules, i \in Nat : Rank(e, rule, i) = n => <<rule, i>> \in B}
<1>1. ASSUME NEW n \in Nat, 0 .. (n - 1) \subseteq good
      PROVE  n \in good
  <2> SUFFICES ASSUME NEW rule \in Rules, NEW i \in Nat, Rank(e, rule, i) = n
               PROVE  <<rule, i>> \in B
    OBVIOUS
  <2>1. ASSUME NEW q \in Rules, NEW k \in Nat, Rank(e, q, k) < Rank(e, rule, i)
        PROVE  <<q, k>> \in B
    <3>1. Rank(e, q, k) \in 0 .. (n - 1)
      BY <2>1, RankType
    <3>2. Rank(e, q, k) \in good
      BY <1>1, <3>1
    <3> QED BY <3>2
  <2> QED BY <2>1 DEF Hereditary
<1>2. Nat \subseteq good
  <2> HIDE DEF good
  <2> QED BY <1>1, NumbersBelow
<1>3. ASSUME NEW rule \in Rules, NEW i \in Nat
      PROVE  <<rule, i>> \in B
  <2>1. Rank(e, rule, i) \in good
    BY <1>2, RankType
  <2> QED BY <2>1
<1> QED
  BY <1>3

LEMMA ParserMovesOn ==
    ASSUME NEW e, Len(e) \in Nat, NEW p, NEW f, Parser(e, p, f)
    PROVE  \A rule \in Rules, i \in Nat : Forward(f[<<rule, i>>], i)
<1> DEFINE B == {m \in Calls : Forward(f[m], m[2])}
<1>1. ASSUME NEW rule \in Rules, NEW i \in Nat
      PROVE  <<rule, i>> \in B <=> Forward(f[<<rule, i>>], i)
  BY DEF Calls
<1> HIDE DEF B
<1>2. ASSUME NEW rule \in Rules, NEW i \in Nat,
             \A q \in Rules, k \in Nat : Rank(e, q, k) < Rank(e, rule, i) => <<q, k>> \in B
      PROVE  <<rule, i>> \in B
  <2>1. \A q \in Rules, k \in Nat : Rank(e, q, k) < Rank(e, rule, i) => Forward(f[<<q, k>>], k)
    BY <1>1, <1>2
  <2>2. Forward(Returned(e, p, f, rule, i), i)
    BY <2>1, ReadsBelow
  <2> QED BY <1>1, <2>2, ParserReturns
<1>3. \A rule \in Rules, i \in Nat : <<rule, i>> \in B
  <2>1. Hereditary(e, B)
    BY <1>2 DEF Hereditary
  <2> QED BY <2>1, CallsBelow
<1> QED
  BY <1>1, <1>3

-----------------------------------------------------------------------------
(* The alternatives: the equation over the parts of an expression has a     *)
(* solution.                                                                *)

Starts(e) == 1 .. Len(e) + 1
Ends(e) == 0 .. Len(e)

Width(i, j) == IF i <= j THEN j + 1 - i ELSE 0

Offers(e, p, f) == f = [s \in Starts(e) \X Ends(e) |-> Offered(e, p, f, s[1], s[2])]

LEMMA AlternativesAreOffered ==
    ASSUME NEW e, NEW p
    PROVE  Alternatives(e, p) = (CHOOSE f : Offers(e, p, f))[<<1, Len(e)>>]
BY DEF Alternatives, Offers, Starts, Ends

LEMMA WidthType ==
    ASSUME NEW e, Len(e) \in Nat, NEW i \in Starts(e), NEW j \in Ends(e)
    PROVE  i \in Nat /\ j \in Nat /\ Width(i, j) \in Nat /\ Width(i, j) <= Len(e)
BY DEF Width, Starts, Ends

LEMMA ReadsShorter ==
    ASSUME NEW e, Len(e) \in Nat, NEW p, NEW f, NEW g, NEW i \in Starts(e), NEW j \in Ends(e),
           \A a \in Starts(e), b \in Ends(e) : Width(a, b) < Width(i, j) => f[<<a, b>>] = g[<<a, b>>]
    PROVE  Offered(e, p, f, i, j) = Offered(e, p, g, i, j)
<1>1. CASE i > j \/ ~Balanced(e, i, j)
  BY <1>1 DEF Offered
<1>2. CASE i <= j /\ Balanced(e, i, j)
  <2>0. i \in Nat /\ j \in Nat /\ i >= 1 /\ j <= Len(e) /\ Width(i, j) = j + 1 - i
    BY <1>2 DEF Starts, Ends, Width
  <2>1. ASSUME NEW a \in Nat, NEW b \in Nat, a >= 1, a <= Len(e) + 1, b <= Len(e), b - a < j - i
        PROVE  f[<<a, b>>] = g[<<a, b>>]
    <3>1. a \in Starts(e) /\ b \in Ends(e) /\ Width(a, b) < Width(i, j)
      BY <1>2, <2>0, <2>1 DEF Starts, Ends, Width
    <3> QED BY <3>1
  <2>2. ASSUME NEW k \in i .. j
        PROVE  f[<<i, k - 1>>] = g[<<i, k - 1>>] /\ f[<<k + 1, j>>] = g[<<k + 1, j>>]
    <3>1. /\ k - 1 \in Nat /\ k - 1 <= Len(e) /\ (k - 1) - i < j - i
          /\ k + 1 \in Nat /\ k + 1 >= 1 /\ k + 1 <= Len(e) + 1 /\ j - (k + 1) < j - i
      BY <2>0
    <3> QED BY <2>0, <2>1, <3>1
  <2> DEFINE Pivot(token) == CHOOSE k \in Outermost(e, i, j, token) : TRUE
  <2>3. ASSUME NEW token, Outermost(e, i, j, token) # {}
        PROVE  Pivot(token) \in i .. j
    <3>1. Pivot(token) \in Outermost(e, i, j, token)
      BY <2>3
    <3> QED BY <3>1 DEF Outermost
  <2>4. CASE Outermost(e, i, j, "OR") # {}
    <3>1. Pivot("OR") \in i .. j
      BY <2>3, <2>4
    <3> HIDE DEF Pivot
    <3>2. /\ Offered(e, p, f, i, j) = Either(f[<<i, Pivot("OR") - 1>>], f[<<Pivot("OR") + 1, j>>])
          /\ Offered(e, p, g, i, j) = Either(g[<<i, Pivot("OR") - 1>>], g[<<Pivot("OR") + 1, j>>])
      BY <1>2, <2>0, <2>4 DEF Offered, Pivot
    <3> QED BY <2>2, <3>1, <3>2
  <2>5. CASE Outermost(e, i, j, "OR") = {} /\ Outermost(e, i, j, "AND") # {}
    <3>1. Pivot("AND") \in i .. j
      BY <2>3, <2>5
    <3> HIDE DEF Pivot
    <3>2. /\ Offered(e, p, f, i, j) = Both(f[<<i, Pivot("AND") - 1>>], f[<<Pivot("AND") + 1, j>>])
          /\ Offered(e, p, g, i, j) = Both(g[<<i, Pivot("AND") - 1>>], g[<<Pivot("AND") + 1, j>>])
      BY <1>2, <2>0, <2>5 DEF Offered, Pivot
    <3> QED BY <2>2, <3>1, <3>2
  <2>6. CASE Outermost(e, i, j, "OR") = {} /\ Outermost(e, i, j, "AND") = {}
    <3>1. CASE i = j
      BY <1>2, <2>0, <2>6, <3>1 DEF Offered
    <3>2. CASE i # j /\ e[i] = "(" /\ e[j - 1] = "WITH" /\ e[j - 2] = ")"
      <4>1. i <= j /\ i # j /\ i # j - 1 /\ i # j - 2
        BY <1>2, <3>2
      <4>2. i + 1 \in Nat /\ j - 3 \in Nat /\ i + 1 <= Len(e) + 1 /\ j - 3 <= Len(e)
            /\ (j - 3) - (i + 1) < j - i
        BY <2>0, <4>1
      <4>3. f[<<i + 1, j - 3>>] = g[<<i + 1, j - 3>>]
        BY <2>0, <2>1, <4>2
      <4>4. f[<<i + 1, j - 1>>] = g[<<i + 1, j - 1>>]
        BY <2>0, <2>1, <4>1, <4>2
      <4> QED BY <1>2, <2>0, <2>6, <4>3, <4>4 DEF Offered
    <3>3. CASE i # j /\ ~(e[i] = "(" /\ e[j - 1] = "WITH" /\ e[j - 2] = ")")
      <4>1. i + 1 \in Nat /\ j - 1 \in Nat /\ i + 1 <= Len(e) + 1 /\ j - 1 <= Len(e)
            /\ (j - 1) - (i + 1) < j - i
        BY <1>2, <2>0, <3>3
      <4>2. f[<<i + 1, j - 1>>] = g[<<i + 1, j - 1>>]
        BY <2>0, <2>1, <4>1
      <4> QED BY <1>2, <2>0, <2>6, <3>3, <4>2 DEF Offered
    <3> QED BY <3>1, <3>2, <3>3
  <2> QED BY <2>4, <2>5, <2>6
<1> QED
  BY <1>1, <1>2 DEF Starts, Ends

OffersUpTo(e, p, f, n) ==
    /\ f = [s \in Starts(e) \X Ends(e) |-> f[s]]
    /\ \A i \in Starts(e), j \in Ends(e) : Width(i, j) < n => f[<<i, j>>] = Offered(e, p, f, i, j)

LEMMA OffersExist ==
    ASSUME NEW e, Len(e) \in Nat, NEW p
    PROVE  \E f : Offers(e, p, f)
<1> DEFINE good == {n \in Nat : \E f : OffersUpTo(e, p, f, n)}
<1>1. ASSUME NEW n \in Nat, 0 .. (n - 1) \subseteq good
      PROVE  n \in good
  <2>1. CASE n = 0
    <3> DEFINE f == [s \in Starts(e) \X Ends(e) |-> 0]
    <3>1. OffersUpTo(e, p, f, n)
      BY <2>1, WidthType DEF OffersUpTo
    <3> QED BY <3>1
  <2>2. CASE n # 0
    <3>1. n - 1 \in 0 .. (n - 1) /\ n - 1 \in Nat
      BY <2>2
    <3>2. PICK f : OffersUpTo(e, p, f, n - 1)
      BY <1>1, <3>1
    <3> DEFINE g == [s \in Starts(e) \X Ends(e) |-> IF Width(s[1], s[2]) < n - 1 THEN f[s]
                                                     ELSE Offered(e, p, f, s[1], s[2])]
    <3>3. ASSUME NEW i \in Starts(e), NEW j \in Ends(e)
          PROVE  g[<<i, j>>] = IF Width(i, j) < n - 1 THEN f[<<i, j>>] ELSE Offered(e, p, f, i, j)
      OBVIOUS
    <3>4. g = [s \in Starts(e) \X Ends(e) |-> g[s]]
      OBVIOUS
    <3> HIDE DEF g
    <3>5. ASSUME NEW i \in Starts(e), NEW j \in Ends(e), Width(i, j) < n
          PROVE  g[<<i, j>>] = Offered(e, p, g, i, j)
      <4>0. Width(i, j) \in Nat
        BY WidthType
      <4>1. ASSUME NEW a \in Starts(e), NEW b \in Ends(e), Width(a, b) < Width(i, j)
            PROVE  f[<<a, b>>] = g[<<a, b>>]
        <5>1. Width(a, b) \in Nat /\ Width(a, b) < n - 1
          BY <3>5, <4>0, <4>1, WidthType
        <5> QED BY <3>3, <5>1
      <4>2. Offered(e, p, f, i, j) = Offered(e, p, g, i, j)
        BY <4>1, ReadsShorter
      <4>3. g[<<i, j>>] = Offered(e, p, f, i, j)
        BY <3>2, <3>3 DEF OffersUpTo
      <4> QED BY <4>2, <4>3
    <3>6. OffersUpTo(e, p, g, n)
      BY <3>4, <3>5 DEF OffersUpTo
    <3> QED BY <3>6
  <2> QED BY <2>1, <2>2
<1>2. Nat \subseteq good
  <2> HIDE DEF good
  <2> QED BY <1>1, NumbersBelow
<1>3. PICK f : OffersUpTo(e, p, f, Len(e) + 1)
  BY <1>2
<1>4. ASSUME NEW i \in Starts(e), NEW j \in Ends(e)
      PROVE  f[<<i, j>>] = Offered(e, p, f, i, j)
  <2>1. Width(i, j) \in Nat /\ Width(i, j) < Len(e) + 1
    BY WidthType
  <2> QED BY <1>3, <2>1 DEF OffersUpTo
<1>5. \A s \in Starts(e) \X Ends(e) : f[s] = Offered(e, p, f, s[1], s[2])
  BY <1>4
<1>6. f = [s \in Starts(e) \X Ends(e) |-> f[s]]
  BY <1>3 DEF OffersUpTo
<1>7. Offers(e, p, f)
  BY <1>5, <1>6 DEF Offers
<1> QED
  BY <1>7

LEMMA OffersOf ==
    ASSUME NEW e, NEW p, NEW f, Offers(e, p, f), NEW i \in Starts(e), NEW j \in Ends(e)
    PROVE  f[<<i, j>>] = Offered(e, p, f, i, j)
<1>1. <<i, j>> \in Starts(e) \X Ends(e)
  OBVIOUS
<1>2. f[<<i, j>>] = Offered(e, p, f, <<i, j>>[1], <<i, j>>[2])
  BY <1>1 DEF Offers
<1> QED
  BY <1>2

(* Induction over the parts of an expression *)
Inherited(e, B) ==
    \A i \in Starts(e), j \in Ends(e) :
        (\A a \in Starts(e), b \in Ends(e) : Width(a, b) < Width(i, j) => <<a, b>> \in B)
        => <<i, j>> \in B

LEMMA PartsBelow ==
    ASSUME NEW e, Len(e) \in Nat, NEW B, Inherited(e, B)
    PROVE  \A i \in Starts(e), j \in Ends(e) : <<i, j>> \in B
<1> DEFINE good == {n \in Nat : \A i \in Starts(e), j \in Ends(e) : Width(i, j) = n => <<i, j>> \in B}
<1>1. ASSUME NEW n \in Nat, 0 .. (n - 1) \subseteq good
      PROVE  n \in good
  <2> SUFFICES ASSUME NEW i \in Starts(e), NEW j \in Ends(e), Width(i, j) = n
               PROVE  <<i, j>> \in B
    OBVIOUS
  <2>1. ASSUME NEW a \in Starts(e), NEW b \in Ends(e), Width(a, b) < Width(i, j)
        PROVE  <<a, b>> \in B
    <3>1. Width(a, b) \in 0 .. (n - 1)
      BY <2>1, WidthType
    <3>2. Width(a, b) \in good
      BY <1>1, <3>1
    <3> QED BY <3>2
  <2> QED BY <2>1 DEF Inherited
<1>2. Nat \subseteq good
  <2> HIDE DEF good
  <2> QED BY <1>1, NumbersBelow
<1>3. ASSUME NEW i \in Starts(e), NEW j \in Ends(e)
      PROVE  <<i, j>> \in B
  <2>1. Width(i, j) \in good
    BY <1>2, WidthType
  <2> QED BY <2>1
<1> QED
  BY <1>3

-----------------------------------------------------------------------------
(* Parentheses *)

Turn(e, k) == IF e[k] = "(" THEN 1 ELSE IF e[k] = ")" THEN -1 ELSE 0

Tally(e, token, i, k) == Cardinality({j \in i .. (k - 1) : e[j] = token})

LEMMA TallyType ==
    ASSUME NEW e, NEW token, NEW i \in Int, NEW k \in Int
    PROVE  /\ IsFiniteSet({j \in i .. (k - 1) : e[j] = token})
           /\ Tally(e, token, i, k) \in Nat
<1> DEFINE S == {j \in i .. (k - 1) : e[j] = token}
<1>1. k - 1 \in Int /\ S \subseteq i .. (k - 1)
  OBVIOUS
<1>2. IsFiniteSet(i .. (k - 1))
  BY <1>1, FS_Interval
<1>3. IsFiniteSet(S) /\ Cardinality(S) \in Nat
  BY <1>1, <1>2, FS_Subset, FS_CardinalityType
<1> QED
  BY <1>3 DEF Tally

LEMMA TalliesAdd ==
    ASSUME NEW e, NEW token, NEW i \in Int, NEW m \in Int, NEW k \in Int, i <= m, m <= k
    PROVE  Tally(e, token, i, k) = Tally(e, token, i, m) + Tally(e, token, m, k)
<1> DEFINE At(a, b) == {j \in a .. (b - 1) : e[j] = token}
<1>1. At(i, k) = At(i, m) \cup At(m, k) /\ At(i, m) \cap At(m, k) = {}
  OBVIOUS
<1>2. IsFiniteSet(At(i, m)) /\ IsFiniteSet(At(m, k))
  BY TallyType
<1>3. /\ Tally(e, token, i, k) = Cardinality(At(i, k))
      /\ Tally(e, token, i, m) = Cardinality(At(i, m))
      /\ Tally(e, token, m, k) = Cardinality(At(m, k))
  BY DEF Tally
<1> HIDE DEF At
<1>4. Cardinality(At(i, m) \cup At(m, k))
        = Cardinality(At(i, m)) + Cardinality(At(m, k)) - Cardinality(At(i, m) \cap At(m, k))
  BY <1>2, FS_Union
<1>5. Tally(e, token, i, k) = Tally(e, token, i, m) + Tally(e, token, m, k) - 0
  BY <1>1, <1>3, <1>4, FS_EmptySet
<1>6. Tally(e, token, i, m) \in Nat /\ Tally(e, token, m, k) \in Nat
  BY TallyType
<1> QED
  BY <1>5, <1>6

LEMMA DepthIsTally ==
    ASSUME NEW e, NEW i, NEW k
    PROVE  Depth(e, i, k) = Tally(e, "(", i, k) - Tally(e, ")", i, k)
BY DEF Depth, Tally

LEMMA DepthsAdd ==
    ASSUME NEW e, NEW i \in Int, NEW m \in Int, NEW k \in Int, i <= m, m <= k
    PROVE  Depth(e, i, k) \in Int /\ Depth(e, i, k) = Depth(e, i, m) + Depth(e, m, k)
<1>1. /\ Tally(e, "(", i, k) = Tally(e, "(", i, m) + Tally(e, "(", m, k)
      /\ Tally(e, ")", i, k) = Tally(e, ")", i, m) + Tally(e, ")", m, k)
  BY TalliesAdd
<1>2. /\ Tally(e, "(", i, m) \in Nat /\ Tally(e, "(", m, k) \in Nat
      /\ Tally(e, ")", i, m) \in Nat /\ Tally(e, ")", m, k) \in Nat
  BY TallyType
<1> QED
  BY <1>1, <1>2, DepthIsTally

LEMMA DepthType ==
    ASSUME NEW e, NEW i \in Int, NEW k \in Int, i <= k
    PROVE  Depth(e, i, k) \in Int
<1>1. k <= k
  OBVIOUS
<1> QED
  BY <1>1, DepthsAdd

LEMMA DepthOfOne ==
    ASSUME NEW e, NEW i \in Int
    PROVE  Depth(e, i, i) = 0 /\ Depth(e, i, i + 1) = Turn(e, i)
<1> DEFINE At(b, t) == {j \in i .. (b - 1) : e[j] = t}
<1>1. ASSUME NEW b \in Int
      PROVE  Depth(e, i, b) = Cardinality(At(b, "(")) - Cardinality(At(b, ")"))
  BY DEF Depth
<1>2. \A t : At(i, t) = {}
  OBVIOUS
<1>3. \A t : At(i + 1, t) = IF e[i] = t THEN {i} ELSE {}
  <2>1. i .. (i + 1 - 1) = {i}
    OBVIOUS
  <2> QED BY <2>1
<1>4. Cardinality({}) = 0 /\ Cardinality({i}) = 1
  BY FS_EmptySet, FS_Singleton
<1> HIDE DEF At
<1>5. Depth(e, i, i) = 0
  BY <1>1, <1>2, <1>4
<1>6. Depth(e, i, i + 1) = Turn(e, i)
  BY <1>1, <1>3, <1>4 DEF Turn
<1> QED
  BY <1>5, <1>6

(* Where a token outside parentheses takes an expression apart *)
LEMMA PartsBalanced ==
    ASSUME NEW e, NEW i \in Int, NEW j \in Int, Balanced(e, i, j), NEW k \in i .. j,
           Depth(e, i, k) = 0, Turn(e, k) = 0
    PROVE  Balanced(e, i, k - 1) /\ Balanced(e, k + 1, j)
<1>1. Balanced(e, i, k - 1)
  BY DEF Balanced
<1>2. Depth(e, i, k + 1) = 0
  BY DepthsAdd, DepthOfOne
<1>3. ASSUME NEW q \in Int, k + 1 <= q
      PROVE  Depth(e, k + 1, q) = Depth(e, i, q)
  <2>1. k + 1 \in Int /\ i <= k + 1
    OBVIOUS
  <2>2. Depth(e, i, q) = Depth(e, i, k + 1) + Depth(e, k + 1, q) /\ Depth(e, k + 1, q) \in Int
    BY <1>3, <2>1, DepthsAdd, DepthType
  <2> QED BY <1>2, <2>2
<1>4. ASSUME NEW q \in (k + 1) .. j
      PROVE  Depth(e, k + 1, q + 1) >= 0
  <2>1. q + 1 \in Int /\ k + 1 <= q + 1 /\ q \in i .. j
    OBVIOUS
  <2> QED BY <1>3, <2>1 DEF Balanced
<1>5. Depth(e, k + 1, j + 1) = 0
  <2>1. j + 1 \in Int /\ k + 1 <= j + 1
    OBVIOUS
  <2> QED BY <1>3, <2>1 DEF Balanced
<1> QED
  BY <1>1, <1>4, <1>5 DEF Balanced

LEMMA JoinBalanced ==
    ASSUME NEW e, NEW i \in Int, NEW j \in Int, NEW k \in i .. j,
           Balanced(e, i, k - 1), Turn(e, k) = 0, Balanced(e, k + 1, j)
    PROVE  Balanced(e, i, j) /\ Depth(e, i, k) = 0
<1>1. Depth(e, i, k) = 0
  BY DEF Balanced
<1>2. Depth(e, i, k + 1) = 0
  BY <1>1, DepthsAdd, DepthOfOne
<1>3. ASSUME NEW q \in Int, k + 1 <= q
      PROVE  Depth(e, i, q) = Depth(e, k + 1, q)
  <2>1. k + 1 \in Int /\ i <= k + 1
    OBVIOUS
  <2>2. Depth(e, i, q) = Depth(e, i, k + 1) + Depth(e, k + 1, q) /\ Depth(e, k + 1, q) \in Int
    BY <1>3, <2>1, DepthsAdd, DepthType
  <2> QED BY <1>2, <2>2
<1>4. ASSUME NEW q \in i .. j
      PROVE  Depth(e, i, q + 1) >= 0
  <2>1. CASE q < k
    BY <2>1 DEF Balanced
  <2>2. CASE q = k
    BY <1>2, <2>2
  <2>3. CASE q > k
    <3>1. q + 1 \in Int /\ k + 1 <= q + 1 /\ q \in (k + 1) .. j
      BY <2>3
    <3> QED BY <1>3, <3>1 DEF Balanced
  <2> QED BY <2>1, <2>2, <2>3
<1>5. Depth(e, i, j + 1) = 0
  <2>1. j + 1 \in Int /\ k + 1 <= j + 1
    OBVIOUS
  <2> QED BY <1>3, <2>1 DEF Balanced
<1> QED
  BY <1>1, <1>4, <1>5 DEF Balanced

(* The operators outside parentheses are those of the parts. *)
LEMMA OutermostOfParts ==
    ASSUME NEW e, NEW i \in Int, NEW j \in Int, NEW k \in i .. j,
           Depth(e, i, k) = 0, Turn(e, k) = 0, NEW token
    PROVE  Outermost(e, i, j, token) =
              Outermost(e, i, k - 1, token) \cup Outermost(e, k + 1, j, token)
              \cup (IF e[k] = token THEN {k} ELSE {})
<1>1. Depth(e, i, k + 1) = 0
  BY DepthsAdd, DepthOfOne
<1>2. ASSUME NEW q \in Int, k + 1 <= q
      PROVE  Depth(e, i, q) = Depth(e, k + 1, q)
  <2>1. k + 1 \in Int /\ i <= k + 1
    OBVIOUS
  <2>2. Depth(e, i, q) = Depth(e, i, k + 1) + Depth(e, k + 1, q) /\ Depth(e, k + 1, q) \in Int
    BY <1>2, <2>1, DepthsAdd, DepthType
  <2> QED BY <1>1, <2>2
<1>3. ASSUME NEW q
      PROVE  q \in Outermost(e, i, j, token) <=>
                \/ q \in Outermost(e, i, k - 1, token)
                \/ q \in Outermost(e, k + 1, j, token)
                \/ q = k /\ e[k] = token
  <2>1. CASE q \in i .. (k - 1)
    BY <2>1 DEF Outermost
  <2>2. CASE q = k
    BY <2>2 DEF Outermost
  <2>3. CASE q \in (k + 1) .. j
    BY <1>2, <2>3 DEF Outermost
  <2>4. CASE q \notin i .. j
    BY <2>4 DEF Outermost
  <2> QED BY <2>1, <2>2, <2>3, <2>4
<1> QED
  BY <1>3

LEMMA SingleBalanced ==
    ASSUME NEW e, NEW i \in Int, Turn(e, i) = 0
    PROVE  Balanced(e, i, i) /\ \A token : e[i] # token => Outermost(e, i, i, token) = {}
<1>1. i .. i = {i}
  OBVIOUS
<1>2. Balanced(e, i, i)
  BY <1>1, DepthOfOne DEF Balanced
<1> QED
  BY <1>1, <1>2 DEF Outermost

LEMMA WrapBalanced ==
    ASSUME NEW e, NEW i \in Int, NEW j \in Int, i < j, e[i] = "(", e[j] = ")",
           Balanced(e, i + 1, j - 1)
    PROVE  Balanced(e, i, j) /\ \A token : token # "(" => Outermost(e, i, j, token) = {}
<1>1. Turn(e, i) = 1 /\ Turn(e, j) = -1
  BY DEF Turn
<1>2. Depth(e, i, i) = 0 /\ Depth(e, i, i + 1) = 1
  BY <1>1, DepthOfOne
<1>3. ASSUME NEW q \in Int, i + 1 <= q
      PROVE  Depth(e, i, q) = 1 + Depth(e, i + 1, q) /\ Depth(e, i + 1, q) \in Int
  <2>1. i + 1 \in Int /\ i <= i + 1
    OBVIOUS
  <2> QED BY <1>2, <1>3, <2>1, DepthsAdd, DepthType
<1>4. ASSUME NEW q \in (i + 1) .. j
      PROVE  Depth(e, i, q) >= 1
  <2>1. Depth(e, i + 1, q) >= 0
    <3>1. CASE q = i + 1
      BY <3>1, DepthOfOne
    <3>2. CASE q # i + 1
      <4>1. q - 1 \in (i + 1) .. (j - 1) /\ (q - 1) + 1 = q
        BY <3>2
      <4> QED BY <4>1 DEF Balanced
    <3> QED BY <3>1, <3>2
  <2>2. q \in Int /\ i + 1 <= q
    OBVIOUS
  <2> QED BY <1>3, <2>1, <2>2
<1>5. Depth(e, i, j + 1) = 0
  <2>1. Depth(e, i + 1, j) = 0
    <3>1. (j - 1) + 1 = j
      OBVIOUS
    <3> QED BY <3>1 DEF Balanced
  <2>2. Depth(e, i, j) = 1
    BY <1>3, <2>1
  <2>3. j + 1 \in Int /\ j <= j + 1 /\ i <= j
    OBVIOUS
  <2>4. Depth(e, i, j + 1) = Depth(e, i, j) + Depth(e, j, j + 1)
    BY <2>3, DepthsAdd
  <2> QED BY <1>1, <2>2, <2>4, DepthOfOne
<1>6. ASSUME NEW q \in i .. j
      PROVE  Depth(e, i, q + 1) >= 0
  <2>1. CASE q = j
    BY <1>5, <2>1
  <2>2. CASE q # j
    <3>1. q + 1 \in (i + 1) .. j
      BY <2>2
    <3>2. Depth(e, i, q + 1) \in Int
      BY DepthType
    <3> QED BY <1>4, <3>1, <3>2
  <2> QED BY <2>1, <2>2
<1>7. ASSUME NEW token, token # "(", NEW q \in i .. j, Depth(e, i, q) = 0
      PROVE  e[q] # token
  <2>1. CASE q = i
    BY <1>7, <2>1
  <2>2. CASE q # i
    BY <1>4, <1>7, <2>2
  <2> QED BY <2>1, <2>2
<1> QED
  BY <1>5, <1>6, <1>7 DEF Balanced, Outermost

-----------------------------------------------------------------------------
(* Which of several operators outside parentheses takes an expression apart *)
(* makes no difference.                                                     *)

LEMMA EitherIsEither ==
    ASSUME NEW a, NEW b, NEW c
    PROVE  Either(Either(a, b), c) = Either(a, Either(b, c))
<1>1. CASE a = {} \/ b = {} \/ c = {}
  BY <1>1 DEF Either
<1>2. CASE a # {} /\ b # {} /\ c # {}
  <2>1. a \cup b # {} /\ b \cup c # {}
    BY <1>2
  <2> QED BY <1>2, <2>1 DEF Either
<1> QED
  BY <1>1, <1>2

LEMMA BothMember ==
    ASSUME NEW a, NEW b, NEW x
    PROVE  x \in Both(a, b) <=> \E y \in a, z \in b : x = y \cup z
BY DEF Both

LEMMA BothIsBoth ==
    ASSUME NEW a, NEW b, NEW c
    PROVE  Both(Both(a, b), c) = Both(a, Both(b, c))
<1>1. ASSUME NEW x \in Both(Both(a, b), c)
      PROVE  x \in Both(a, Both(b, c))
  <2>1. PICK u \in Both(a, b), w \in c : x = u \cup w
    BY BothMember
  <2>2. PICK y \in a, z \in b : u = y \cup z
    BY BothMember
  <2>3. z \cup w \in Both(b, c)
    BY BothMember
  <2>4. x = y \cup (z \cup w)
    BY <2>1, <2>2
  <2> QED BY <2>3, <2>4, BothMember
<1>2. ASSUME NEW x \in Both(a, Both(b, c))
      PROVE  x \in Both(Both(a, b), c)
  <2>1. PICK y \in a, u \in Both(b, c) : x = y \cup u
    BY BothMember
  <2>2. PICK z \in b, w \in c : u = z \cup w
    BY BothMember
  <2>3. y \cup z \in Both(a, b)
    BY BothMember
  <2>4. x = (y \cup z) \cup w
    BY <2>1, <2>2
  <2> QED BY <2>3, <2>4, BothMember
<1> QED
  BY <1>1, <1>2

Neutral == {"AND", "OR", "WITH"}

(* Two operators outside parentheses *)
LEMMA TwoCuts ==
    ASSUME NEW e, NEW i \in Int, NEW j \in Int, Balanced(e, i, j), NEW token \in Neutral,
           NEW a \in Outermost(e, i, j, token), NEW b \in Outermost(e, i, j, token), a < b
    PROVE  /\ a \in i .. (b - 1) /\ b \in (a + 1) .. j
           /\ Balanced(e, i, b - 1) /\ a \in Outermost(e, i, b - 1, token)
           /\ Balanced(e, a + 1, j) /\ b \in Outermost(e, a + 1, j, token)
           /\ Outermost(e, i, b - 1, "OR") \subseteq Outermost(e, i, j, "OR")
           /\ Outermost(e, a + 1, j, "OR") \subseteq Outermost(e, i, j, "OR")
<1>1. /\ a \in i .. j /\ b \in i .. j /\ Depth(e, i, a) = 0 /\ Depth(e, i, b) = 0
      /\ Turn(e, a) = 0 /\ Turn(e, b) = 0
  BY DEF Outermost, Turn, Neutral
<1>2. Balanced(e, i, b - 1) /\ Balanced(e, a + 1, j)
  BY <1>1, PartsBalanced
<1>3. \A t : /\ Outermost(e, i, j, t) = Outermost(e, i, b - 1, t) \cup Outermost(e, b + 1, j, t)
                                         \cup (IF e[b] = t THEN {b} ELSE {})
             /\ Outermost(e, i, j, t) = Outermost(e, i, a - 1, t) \cup Outermost(e, a + 1, j, t)
                                         \cup (IF e[a] = t THEN {a} ELSE {})
  BY <1>1, OutermostOfParts
<1>4. a \notin Outermost(e, b + 1, j, token) /\ b \notin Outermost(e, i, a - 1, token)
  BY <1>1 DEF Outermost
<1>5. a \in i .. (b - 1) /\ b \in (a + 1) .. j /\ a # b
  BY <1>1
<1>6. a \in Outermost(e, i, b - 1, token) /\ b \in Outermost(e, a + 1, j, token)
  BY <1>3, <1>4, <1>5
<1> QED
  BY <1>2, <1>3, <1>5, <1>6

(* The positions beside an operator *)
LEMMA Beside ==
    ASSUME NEW e, Len(e) \in Nat, NEW i \in Starts(e), NEW j \in Ends(e), NEW k \in i .. j
    PROVE  /\ k - 1 \in Ends(e) /\ k + 1 \in Starts(e) /\ i \in Int /\ j \in Int /\ i <= j
           /\ Width(i, k - 1) < Width(i, j) /\ Width(k + 1, j) < Width(i, j)
BY DEF Starts, Ends, Width

LEMMA OrAnywhere ==
    ASSUME NEW e, Len(e) \in Nat, NEW p, NEW f, Offers(e, p, f)
    PROVE  \A i \in Starts(e), j \in Ends(e) : Balanced(e, i, j) =>
              \A k \in Outermost(e, i, j, "OR") : f[<<i, j>>] = Either(f[<<i, k - 1>>], f[<<k + 1, j>>])
<1> DEFINE Holds(i, j) ==
              Balanced(e, i, j) =>
              \A k \in Outermost(e, i, j, "OR") : f[<<i, j>>] = Either(f[<<i, k - 1>>], f[<<k + 1, j>>])
           B == {s \in Starts(e) \X Ends(e) : Holds(s[1], s[2])}
<1>1. ASSUME NEW i \in Starts(e), NEW j \in Ends(e)
      PROVE  <<i, j>> \in B <=> Holds(i, j)
  OBVIOUS
<1> HIDE DEF B
<1>2. ASSUME NEW i \in Starts(e), NEW j \in Ends(e),
             \A a \in Starts(e), b \in Ends(e) : Width(a, b) < Width(i, j) => <<a, b>> \in B,
             Balanced(e, i, j), NEW k \in Outermost(e, i, j, "OR")
      PROVE  f[<<i, j>>] = Either(f[<<i, k - 1>>], f[<<k + 1, j>>])
  <2> DEFINE cut == CHOOSE q \in Outermost(e, i, j, "OR") : TRUE
  <2>1. cut \in Outermost(e, i, j, "OR")
    OBVIOUS
  <2>2. ASSUME NEW q \in Outermost(e, i, j, "OR")
        PROVE  q \in i .. j /\ q \in Int
    BY DEF Outermost, Starts, Ends
  <2>3. i \in Int /\ j \in Int /\ i <= j
    BY <2>1, <2>2 DEF Starts, Ends
  <2>4. f[<<i, j>>] = Either(f[<<i, cut - 1>>], f[<<cut + 1, j>>])
    <3>1. ~(i > j)
      BY <2>3
    <3>2. f[<<i, j>>] = Offered(e, p, f, i, j)
      BY OffersOf
    <3>3. Outermost(e, i, j, "OR") # {} /\ ~(i > j \/ ~Balanced(e, i, j))
      BY <1>2, <2>1, <3>1
    <3> QED BY <1>2, <3>2, <3>3 DEF Offered
  <2> HIDE DEF cut
  <2>5. ASSUME NEW a \in Outermost(e, i, j, "OR"), NEW b \in Outermost(e, i, j, "OR"), a < b
        PROVE  Either(f[<<i, a - 1>>], f[<<a + 1, j>>]) = Either(f[<<i, b - 1>>], f[<<b + 1, j>>])
    <3>1. /\ a \in i .. (b - 1) /\ b \in (a + 1) .. j
          /\ Balanced(e, i, b - 1) /\ a \in Outermost(e, i, b - 1, "OR")
          /\ Balanced(e, a + 1, j) /\ b \in Outermost(e, a + 1, j, "OR")
      BY <1>2, <2>3, <2>5, TwoCuts DEF Neutral
    <3>2. /\ b - 1 \in Ends(e) /\ a + 1 \in Starts(e)
          /\ Width(i, b - 1) < Width(i, j) /\ Width(a + 1, j) < Width(i, j)
      BY <2>2, Beside
    <3>3. f[<<i, b - 1>>] = Either(f[<<i, a - 1>>], f[<<a + 1, b - 1>>])
      BY <1>1, <1>2, <3>1, <3>2
    <3>4. f[<<a + 1, j>>] = Either(f[<<a + 1, b - 1>>], f[<<b + 1, j>>])
      BY <1>1, <1>2, <3>1, <3>2
    <3> QED BY <3>3, <3>4, EitherIsEither
  <2>6. cut < k \/ cut = k \/ k < cut
    BY <2>1, <2>2
  <2> QED BY <2>1, <2>4, <2>5, <2>6
<1>3. Inherited(e, B)
  BY <1>1, <1>2 DEF Inherited
<1>4. \A i \in Starts(e), j \in Ends(e) : <<i, j>> \in B
  BY <1>3, PartsBelow
<1> QED
  BY <1>1, <1>4

LEMMA AndAnywhere ==
    ASSUME NEW e, Len(e) \in Nat, NEW p, NEW f, Offers(e, p, f)
    PROVE  \A i \in Starts(e), j \in Ends(e) :
              Balanced(e, i, j) /\ Outermost(e, i, j, "OR") = {} =>
              \A k \in Outermost(e, i, j, "AND") : f[<<i, j>>] = Both(f[<<i, k - 1>>], f[<<k + 1, j>>])
<1> DEFINE Holds(i, j) ==
              Balanced(e, i, j) /\ Outermost(e, i, j, "OR") = {} =>
              \A k \in Outermost(e, i, j, "AND") : f[<<i, j>>] = Both(f[<<i, k - 1>>], f[<<k + 1, j>>])
           B == {s \in Starts(e) \X Ends(e) : Holds(s[1], s[2])}
<1>1. ASSUME NEW i \in Starts(e), NEW j \in Ends(e)
      PROVE  <<i, j>> \in B <=> Holds(i, j)
  OBVIOUS
<1> HIDE DEF B
<1>2. ASSUME NEW i \in Starts(e), NEW j \in Ends(e),
             \A a \in Starts(e), b \in Ends(e) : Width(a, b) < Width(i, j) => <<a, b>> \in B,
             Balanced(e, i, j), Outermost(e, i, j, "OR") = {}, NEW k \in Outermost(e, i, j, "AND")
      PROVE  f[<<i, j>>] = Both(f[<<i, k - 1>>], f[<<k + 1, j>>])
  <2> DEFINE cut == CHOOSE q \in Outermost(e, i, j, "AND") : TRUE
  <2>1. cut \in Outermost(e, i, j, "AND")
    OBVIOUS
  <2>2. ASSUME NEW q \in Outermost(e, i, j, "AND")
        PROVE  q \in i .. j /\ q \in Int
    BY DEF Outermost, Starts, Ends
  <2>3. i \in Int /\ j \in Int /\ i <= j
    BY <2>1, <2>2 DEF Starts, Ends
  <2>4. f[<<i, j>>] = Both(f[<<i, cut - 1>>], f[<<cut + 1, j>>])
    <3>1. ~(i > j)
      BY <2>3
    <3>2. f[<<i, j>>] = Offered(e, p, f, i, j)
      BY OffersOf
    <3>3. Outermost(e, i, j, "AND") # {} /\ ~(i > j \/ ~Balanced(e, i, j))
      BY <1>2, <2>1, <3>1
    <3> QED BY <1>2, <3>2, <3>3 DEF Offered
  <2> HIDE DEF cut
  <2>5. ASSUME NEW a \in Outermost(e, i, j, "AND"), NEW b \in Outermost(e, i, j, "AND"), a < b
        PROVE  Both(f[<<i, a - 1>>], f[<<a + 1, j>>]) = Both(f[<<i, b - 1>>], f[<<b + 1, j>>])
    <3>1. /\ a \in i .. (b - 1) /\ b \in (a + 1) .. j
          /\ Balanced(e, i, b - 1) /\ a \in Outermost(e, i, b - 1, "AND")
          /\ Balanced(e, a + 1, j) /\ b \in Outermost(e, a + 1, j, "AND")
          /\ Outermost(e, i, b - 1, "OR") \subseteq Outermost(e, i, j, "OR")
          /\ Outermost(e, a + 1, j, "OR") \subseteq Outermost(e, i, j, "OR")
      BY <1>2, <2>3, <2>5, TwoCuts DEF Neutral
    <3>2. /\ b - 1 \in Ends(e) /\ a + 1 \in Starts(e)
          /\ Width(i, b - 1) < Width(i, j) /\ Width(a + 1, j) < Width(i, j)
      BY <2>2, Beside
    <3>0. Outermost(e, i, b - 1, "OR") = {} /\ Outermost(e, a + 1, j, "OR") = {}
      BY <1>2, <3>1
    <3>3. f[<<i, b - 1>>] = Both(f[<<i, a - 1>>], f[<<a + 1, b - 1>>])
      BY <1>1, <1>2, <3>0, <3>1, <3>2
    <3>4. f[<<a + 1, j>>] = Both(f[<<a + 1, b - 1>>], f[<<b + 1, j>>])
      BY <1>1, <1>2, <3>0, <3>1, <3>2
    <3> QED BY <3>3, <3>4, BothIsBoth
  <2>6. cut < k \/ cut = k \/ k < cut
    BY <2>1, <2>2
  <2> QED BY <2>1, <2>4, <2>5, <2>6
<1>3. Inherited(e, B)
  BY <1>1, <1>2 DEF Inherited
<1>4. \A i \in Starts(e), j \in Ends(e) : <<i, j>> \in B
  BY <1>3, PartsBelow
<1> QED
  BY <1>1, <1>4

-----------------------------------------------------------------------------
(* What a set of alternatives is worth *)

Dispositions == ALLOWED .. DENIED

Suits(a, d) ==
    /\ a \in SUBSET SUBSET Dispositions /\ d \in Dispositions
    /\ \E x \in a : Meets(x, d)
    /\ \A c \in ALLOWED .. (d - 1) : \A x \in a : ~Meets(x, c)

LEMMA DispositionNumbers == Dispositions = 0 .. 3 /\ ALLOWED = 0 /\ REVIEW = 1
BY DEF Dispositions, ALLOWED, REVIEW, DENIED

LEMMA SuitsOne ==
    ASSUME NEW a, NEW c, NEW d, Suits(a, c), Suits(a, d)
    PROVE  c = d
<1>1. c \in 0 .. 3 /\ d \in 0 .. 3
  BY DispositionNumbers DEF Suits
<1>2. ~(c < d)
  BY <1>1, DispositionNumbers DEF Suits
<1>3. ~(d < c)
  BY <1>1, DispositionNumbers DEF Suits
<1> QED
  BY <1>1, <1>2, <1>3

LEMMA MeetsMore ==
    ASSUME NEW x \in SUBSET Dispositions, NEW c \in Int, NEW d \in Int, c <= d, Meets(x, c)
    PROVE  Meets(x, d)
BY DispositionNumbers DEF Meets

LEMMA EitherSuits ==
    ASSUME NEW a, NEW b, NEW c, NEW d, Suits(a, c), Suits(b, d)
    PROVE  Suits(Either(a, b), Milder(c, d))
<1>1. c \in 0 .. 3 /\ d \in 0 .. 3
  BY DispositionNumbers DEF Suits
<1>2. Either(a, b) = a \cup b
  BY DEF Suits, Either
<1>3. /\ Milder(c, d) \in 0 .. 3 /\ Milder(c, d) <= c /\ Milder(c, d) <= d
      /\ Milder(c, d) = c \/ Milder(c, d) = d
  BY <1>1 DEF Milder
<1>4. \E x \in a \cup b : Meets(x, Milder(c, d))
  BY <1>3 DEF Suits
<1>5. ASSUME NEW q \in 0 .. (Milder(c, d) - 1), NEW x \in a \cup b
      PROVE  ~Meets(x, q)
  <2>1. q \in 0 .. (c - 1) /\ q \in 0 .. (d - 1)
    BY <1>1, <1>3
  <2> QED BY <2>1, DispositionNumbers DEF Suits
<1> QED
  BY <1>2, <1>3, <1>4, <1>5, DispositionNumbers DEF Suits

LEMMA BothSuits ==
    ASSUME NEW a, NEW b, NEW c, NEW d, Suits(a, c), Suits(b, d)
    PROVE  Suits(Both(a, b), Stricter(c, d))
<1>1. c \in 0 .. 3 /\ d \in 0 .. 3 /\ a \in SUBSET SUBSET (0 .. 3) /\ b \in SUBSET SUBSET (0 .. 3)
  BY DispositionNumbers DEF Suits
<1>2. /\ Stricter(c, d) \in 0 .. 3 /\ c <= Stricter(c, d) /\ d <= Stricter(c, d)
      /\ Stricter(c, d) = c \/ Stricter(c, d) = d
  BY <1>1 DEF Stricter
<1>3. \E x \in Both(a, b) : Meets(x, Stricter(c, d))
  <2>1. PICK y \in a : Meets(y, c)
    BY DEF Suits
  <2>2. PICK z \in b : Meets(z, d)
    BY DEF Suits
  <2>3. Meets(y, Stricter(c, d)) /\ Meets(z, Stricter(c, d))
    BY <1>1, <1>2, <2>1, <2>2 DEF Meets
  <2>4. Meets(y \cup z, Stricter(c, d))
    BY <2>3 DEF Meets
  <2>5. y \cup z \in Both(a, b)
    BY BothMember
  <2> QED BY <2>4, <2>5
<1>4. ASSUME NEW q \in 0 .. (Stricter(c, d) - 1), NEW x \in Both(a, b)
      PROVE  ~Meets(x, q)
  <2>1. PICK y \in a, z \in b : x = y \cup z
    BY BothMember
  <2>2. Meets(x, q) => Meets(y, q) /\ Meets(z, q)
    BY <2>1 DEF Meets
  <2>3. q \in 0 .. (c - 1) \/ q \in 0 .. (d - 1)
    BY <1>1, <1>2
  <2> QED BY <2>2, <2>3, DispositionNumbers DEF Suits
<1>5. Both(a, b) \in SUBSET SUBSET (0 .. 3)
  <2>1. ASSUME NEW x \in Both(a, b)
        PROVE  x \in SUBSET (0 .. 3)
    <3>1. PICK y \in a, z \in b : x = y \cup z
      BY BothMember
    <3> QED BY <1>1, <3>1
  <2> QED BY <2>1
<1> QED
  BY <1>2, <1>3, <1>4, <1>5, DispositionNumbers DEF Suits

LEMMA OneSuits ==
    ASSUME NEW d \in Dispositions
    PROVE  Suits({{d}}, d)
<1>1. d \in 0 .. 3
  BY DispositionNumbers
<1> QED
  BY <1>1, DispositionNumbers DEF Suits, Meets

LEMMA ReviewedSuits ==
    ASSUME NEW a, NEW d, Suits(a, d)
    PROVE  Suits({x \cup {REVIEW} : x \in a}, Stricter(d, REVIEW))
<1>1. {x \cup {REVIEW} : x \in a} = Both(a, {{REVIEW}})
  BY DEF Both
<1>2. Suits({{REVIEW}}, REVIEW)
  BY OneSuits, DispositionNumbers
<1>3. Suits(Both(a, {{REVIEW}}), Stricter(d, REVIEW))
  BY <1>2, BothSuits
<1> QED
  BY <1>1, <1>3

LEMMA ListedWorth ==
    ASSUME NEW e, NEW p, Listed(e, p)
    PROVE  ListedAs(e, p) \in Dispositions
<1>1. \/ e \in p.denied
      \/ e \notin p.denied /\ e \in p.review \ p.denied
      \/ e \notin p.denied /\ e \notin p.review /\ e \in p.allowed \ (p.review \cup p.denied)
  BY DEF Listed
<1>2. ListedAs(e, p) \in {DENIED, REVIEW, ALLOWED}
  BY <1>1 DEF ListedAs
<1> QED
  BY <1>2 DEF Dispositions, DENIED, REVIEW, ALLOWED

LEMMA NameWorth ==
    ASSUME NEW n, NEW p
    PROVE  OfName(n, p) \in Dispositions
<1>1. Unlisted(p) \in Dispositions
  BY DEF Unlisted, Dispositions, ALLOWED, NOT_ALLOWED, DENIED
<1> QED
  BY <1>1, ListedWorth DEF OfName

-----------------------------------------------------------------------------
(* What a method has read is an expression of the alternatives.            *)

Clean(e) == \A i \in DOMAIN e : e[i] # Garbled

(* The policy has no exception to the empty name. *)
NoNameless(p) == \A x : ~Listed(<<"", "WITH", x>>, p)

(* A name, or an expression in parentheses *)
Bare(e, p, f, i, j, r) ==
    \/ /\ i = j /\ e[i] \notin Operators
       /\ r.base = <<e[i]>> /\ r.d = OfName(e[i], p)
    \/ /\ i < j /\ e[i] = "(" /\ e[j] = ")"
       /\ r.base = Nameless /\ Suits(f[<<i + 1, j - 1>>], r.d)

ReadsTo(e, p, f, rule, i, r, j) ==
    /\ i <= j /\ j <= Len(e)
    /\ Balanced(e, i, j)
    /\ Suits(f[<<i, j>>], r.d)
    /\ rule # "or" => Outermost(e, i, j, "OR") = {}
    /\ rule \in {"with", "primary"} => Outermost(e, i, j, "AND") = {}
    /\ rule = "primary" => Bare(e, p, f, i, j, r)

Reads(e, p, f, rule, i, r) == r.next # 0 => ReadsTo(e, p, f, rule, i, r, r.next - 1)

LEMMA WrittenOut ==
    ASSUME NEW e, Len(e) \in Nat, NEW p, NEW f, Offers(e, p, f), NEW i \in Nat, NEW j \in Nat,
           i >= 1, i <= j, j <= Len(e)
    PROVE  /\ i \in Starts(e) /\ j \in Ends(e)
           /\ f[<<i, j>>] = Offered(e, p, f, i, j)
<1>1. i \in Starts(e) /\ j \in Ends(e)
  BY DEF Starts, Ends
<1> QED
  BY <1>1, OffersOf

LEMMA ChainReads ==
    ASSUME NEW e, Len(e) \in Nat, NEW p, NEW f, Offers(e, p, f), NEW m, NEW rule \in {"or", "and"},
           NEW i \in Nat, i >= 1,
           Forward(m[<<Operand(rule), i>>], i),
           Reads(e, p, f, Operand(rule), i, m[<<Operand(rule), i>>]),
           \A k \in Nat : i < k /\ i <= Len(e) => /\ Forward(m[<<rule, k>>], k)
                                   /\ Reads(e, p, f, rule, k, m[<<rule, k>>])
    PROVE  Reads(e, p, f, rule, i, Chain(e, m, rule, i))
<1> DEFINE left == m[<<Operand(rule), i>>]
           right == m[<<rule, left.next + 1>>]
           r == Chain(e, m, rule, i)
<1>1. CASE left.next = 0 \/ ~Peek(e, left.next, Separator(rule))
  <2>1. r = left
    BY <1>1 DEF Chain
  <2>2. Operand(rule) # "or" /\ Operand(rule) # "primary"
    BY DEF Operand
  <2>3. rule # "or" => Operand(rule) # "or"
    BY <2>2
  <2> HIDE DEF left, r
  <2>4. Reads(e, p, f, Operand(rule), i, left)
    BY DEF left
  <2> QED BY <2>1, <2>2, <2>4 DEF Reads, ReadsTo, r
<1>2. CASE left.next # 0 /\ Peek(e, left.next, Separator(rule)) /\ right.next = 0
  BY <1>2 DEF Chain, Reads, Error, Parsed
<1>3. CASE left.next # 0 /\ Peek(e, left.next, Separator(rule)) /\ right.next # 0
  <2> DEFINE k == left.next
             j == right.next - 1
  <2>1. k \in Nat /\ i < k /\ k <= Len(e) /\ e[k] = Separator(rule)
    BY <1>3 DEF Forward, Peek
  <2>2. r = Parsed(right.next, Combined(rule, left.d, right.d), Nameless)
    BY <1>3 DEF Chain
  <2>3. k + 1 \in Nat /\ i < k + 1 /\ i <= Len(e)
    BY <2>1
  <2>4. Forward(right, k + 1) /\ Reads(e, p, f, rule, k + 1, right)
    BY <2>3
  <2>5. j \in Nat /\ k + 1 <= j /\ ReadsTo(e, p, f, rule, k + 1, right, j)
    BY <1>3, <2>3, <2>4 DEF Forward, Reads
  <2>6. ReadsTo(e, p, f, Operand(rule), i, left, k - 1)
    BY <1>3 DEF Reads
  <2>7. r.next = right.next /\ r.d = Combined(rule, left.d, right.d)
    BY <2>2 DEF Parsed
  <2> HIDE DEF left, right, r, k, j
  <2>8. /\ j <= Len(e) /\ Balanced(e, i, k - 1) /\ Balanced(e, k + 1, j)
        /\ Suits(f[<<i, k - 1>>], left.d) /\ Suits(f[<<k + 1, j>>], right.d)
    BY <2>5, <2>6 DEF ReadsTo
  <2>9. Turn(e, k) = 0 /\ i \in Int /\ j \in Int /\ k \in i .. j /\ i <= j
    BY <2>1, <2>5 DEF Turn, Separator
  <2>10. Balanced(e, i, j) /\ Depth(e, i, k) = 0
    BY <2>8, <2>9, JoinBalanced
  <2>11. k \in Outermost(e, i, j, Separator(rule))
    BY <2>1, <2>9, <2>10 DEF Outermost
  <2>12. i \in Starts(e) /\ j \in Ends(e)
    BY <2>5, <2>8, <2>9, WrittenOut
  <2>13. CASE rule = "or"
    <3>1. f[<<i, j>>] = Either(f[<<i, k - 1>>], f[<<k + 1, j>>])
      BY <2>10, <2>11, <2>12, <2>13, OrAnywhere DEF Separator
    <3>2. r.d = Milder(left.d, right.d)
      BY <2>7, <2>13 DEF Combined
    <3>3. Suits(f[<<i, j>>], r.d)
      BY <2>8, <3>1, <3>2, EitherSuits
    <3>4. ReadsTo(e, p, f, rule, i, r, j)
      BY <2>8, <2>9, <2>10, <2>13, <3>3 DEF ReadsTo
    <3> QED BY <2>7, <3>4 DEF Reads, r, j
  <2>14. CASE rule = "and"
    <3>1. Outermost(e, i, k - 1, "OR") = {} /\ Outermost(e, k + 1, j, "OR") = {}
      BY <2>5, <2>6, <2>14 DEF ReadsTo, Operand
    <3>2. Outermost(e, i, j, "OR") = {}
      <4>1. e[k] # "OR"
        BY <2>1, <2>14 DEF Separator
      <4>2. Outermost(e, i, j, "OR") =
              Outermost(e, i, k - 1, "OR") \cup Outermost(e, k + 1, j, "OR")
              \cup (IF e[k] = "OR" THEN {k} ELSE {})
        BY <2>9, <2>10, OutermostOfParts
      <4> QED BY <3>1, <4>1, <4>2
    <3>3. f[<<i, j>>] = Both(f[<<i, k - 1>>], f[<<k + 1, j>>])
      BY <2>10, <2>11, <2>12, <2>14, <3>2, AndAnywhere DEF Separator
    <3>4. r.d = Stricter(left.d, right.d)
      BY <2>7, <2>14 DEF Combined
    <3>5. Suits(f[<<i, j>>], r.d)
      BY <2>8, <3>3, <3>4, BothSuits
    <3>6. ReadsTo(e, p, f, rule, i, r, j)
      BY <2>8, <2>9, <2>10, <2>14, <3>2, <3>5 DEF ReadsTo
    <3> QED BY <2>7, <3>6 DEF Reads, r, j
  <2> QED BY <2>13, <2>14
<1> QED
  BY <1>1, <1>2, <1>3

LEMMA PrimaryReads ==
    ASSUME NEW e, Len(e) \in Nat, Clean(e), DOMAIN e = 1 .. Len(e), NEW p, NEW f, Offers(e, p, f), NEW m,
           NEW i \in Nat, i >= 1,
           i <= Len(e) => /\ Forward(m[<<"or", i + 1>>], i + 1)
                          /\ Reads(e, p, f, "or", i + 1, m[<<"or", i + 1>>])
    PROVE  Reads(e, p, f, "primary", i, Primary(e, p, m, i))
<1> DEFINE inner == m[<<"or", i + 1>>]
           r == Primary(e, p, m, i)
<1>1. CASE Peek(e, i, "(") /\ ~(inner.next # 0 /\ Peek(e, inner.next, ")"))
  BY <1>1 DEF Primary, Reads, Error, Parsed
<1>2. CASE Peek(e, i, "(") /\ inner.next # 0 /\ Peek(e, inner.next, ")")
  <2> DEFINE j == inner.next
  <2>1. /\ i <= Len(e) /\ e[i] = "(" /\ j <= Len(e) /\ e[j] = ")"
    BY <1>2 DEF Peek
  <2>2. j \in Nat /\ i + 1 < j /\ ReadsTo(e, p, f, "or", i + 1, inner, j - 1)
    BY <1>2, <2>1 DEF Forward, Reads
  <2>3. r = Parsed(j + 1, inner.d, Nameless)
    BY <1>2 DEF Primary
  <2>4. r.next = j + 1 /\ r.d = inner.d /\ r.base = Nameless
    BY <2>3 DEF Parsed
  <2> HIDE DEF inner, r, j
  <2>5. Balanced(e, i + 1, j - 1) /\ Suits(f[<<i + 1, j - 1>>], r.d)
    BY <2>2, <2>4 DEF ReadsTo
  <2>6. /\ Balanced(e, i, j)
        /\ Outermost(e, i, j, "OR") = {} /\ Outermost(e, i, j, "AND") = {}
    <3>1. i \in Int /\ j \in Int /\ i < j
      BY <2>2
    <3> QED BY <2>1, <2>5, <3>1, WrapBalanced
  <2>7. f[<<i, j>>] = f[<<i + 1, j - 1>>]
    <3>1. f[<<i, j>>] = Offered(e, p, f, i, j)
      BY <2>1, <2>2, WrittenOut
    <3>2. e[j] \in Operators /\ i # j /\ ~(i > j)
      BY <2>1, <2>2 DEF Operators
    <3> QED BY <2>1, <2>6, <3>1, <3>2 DEF Offered
  <2>8. ReadsTo(e, p, f, "primary", i, r, j)
    BY <2>1, <2>2, <2>4, <2>5, <2>6, <2>7 DEF ReadsTo, Bare
  <2>9. r.next - 1 = j
    BY <2>2, <2>4
  <2> QED BY <2>8, <2>9 DEF Reads, r
<1>3. CASE ~Peek(e, i, "(") /\ ~IsName(e, i)
  BY <1>3 DEF Primary, Reads, Error, Parsed
<1>4. CASE ~Peek(e, i, "(") /\ IsName(e, i)
  <2>1. r = Parsed(i + 1, OfName(e[i], p), <<e[i]>>)
    BY <1>4 DEF Primary
  <2>2. r.next = i + 1 /\ r.d = OfName(e[i], p) /\ r.base = <<e[i]>>
    BY <2>1 DEF Parsed
  <2> HIDE DEF r
  <2>3. i <= Len(e) /\ e[i] \notin Operators /\ e[i] # Garbled
    BY <1>4 DEF IsName, Clean
  <2>4. Turn(e, i) = 0 /\ e[i] # "OR" /\ e[i] # "AND"
    BY <2>3 DEF Turn, Operators
  <2>5. Balanced(e, i, i) /\ Outermost(e, i, i, "OR") = {} /\ Outermost(e, i, i, "AND") = {}
    BY <2>4, SingleBalanced
  <2>6. f[<<i, i>>] = {{OfName(e[i], p)}}
    <3>0. i <= i
      OBVIOUS
    <3>1. f[<<i, i>>] = Offered(e, p, f, i, i)
      BY <2>3, <3>0, WrittenOut
    <3>2. ~(i > i) /\ i \in i .. i /\ e[i] \notin Operators \cup {Garbled}
      BY <2>3
    <3> QED BY <2>5, <3>1, <3>2 DEF Offered
  <2>7. Suits(f[<<i, i>>], r.d)
    BY <2>2, <2>6, NameWorth, OneSuits
  <2>8. ReadsTo(e, p, f, "primary", i, r, i)
    BY <2>2, <2>3, <2>5, <2>7 DEF ReadsTo, Bare
  <2>9. r.next - 1 = i
    BY <2>2
  <2> QED BY <2>8, <2>9 DEF Reads, r
<1> QED
  BY <1>1, <1>2, <1>3, <1>4

LEMMA NameThenException ==
    ASSUME NEW a, NEW b, NEW c
    PROVE  <<a>> \o <<b, c>> = <<a, b, c>>
<1> DEFINE S == {a, b, c}
           s == <<a>>
           t == <<b, c>>
           u == <<a, b, c>>
<1>1. s \in Seq(S) /\ t \in Seq(S) /\ u \in Seq(S)
  OBVIOUS
<1>2. /\ Len(s) = 1 /\ Len(t) = 2 /\ Len(u) = 3
      /\ s[1] = a /\ t[1] = b /\ t[2] = c /\ u[1] = a /\ u[2] = b /\ u[3] = c
  OBVIOUS
<1> HIDE DEF s, t, u, S
<1>3. /\ s \o t \in Seq(S)
      /\ Len(s \o t) = Len(s) + Len(t)
      /\ \A i \in 1 .. Len(s) + Len(t) :
            (s \o t)[i] = IF i <= Len(s) THEN s[i] ELSE t[i - Len(s)]
  BY <1>1, ConcatProperties, Zenon
<1>4. \A i \in 1 .. 3 : (s \o t)[i] = IF i <= 1 THEN s[i] ELSE t[i - 1]
  BY <1>2, <1>3
<1>5. (s \o t)[1] = u[1] /\ (s \o t)[2] = u[2] /\ (s \o t)[3] = u[3]
  <2>1. (s \o t)[1] = s[1]
    <3>1. 1 \in 1 .. 3 /\ 1 <= 1
      OBVIOUS
    <3> QED BY <1>4, <3>1
  <2>2. (s \o t)[2] = t[1]
    <3>1. 2 \in 1 .. 3 /\ ~(2 <= 1) /\ 2 - 1 = 1
      OBVIOUS
    <3> QED BY <1>4, <3>1
  <2>3. (s \o t)[3] = t[2]
    <3>1. 3 \in 1 .. 3 /\ ~(3 <= 1) /\ 3 - 1 = 2
      OBVIOUS
    <3> QED BY <1>4, <3>1
  <2> QED BY <1>2, <2>1, <2>2, <2>3
<1>6. \A i \in 1 .. 3 : (s \o t)[i] = u[i]
  <2>1. 1 .. 3 = {1, 2, 3}
    OBVIOUS
  <2> QED BY <1>5, <2>1
<1>7. Len(s \o t) = 3
  BY <1>2, <1>3
<1>8. s \o t = u
  BY <1>1, <1>2, <1>3, <1>6, <1>7, SeqEqual
<1> QED
  BY <1>8 DEF s, t, u

LEMMA ThreeTokens ==
    ASSUME NEW e, NEW i \in Nat
    PROVE  SubSeq(e, i, i + 2) = <<e[i], e[i + 1], e[i + 2]>>
<1> DEFINE S == {e[i], e[i + 1], e[i + 2]}
           n == i + 2
           s == SubSeq(e, i, n)
           u == <<e[i], e[i + 1], e[i + 2]>>
<1>1. /\ u \in Seq(S) /\ Len(u) = 3
      /\ u[1] = e[i] /\ u[2] = e[i + 1] /\ u[3] = e[i + 2]
  OBVIOUS
<1>2. i \in Int /\ n \in Int /\ \A q \in i .. n : e[q] \in S
  <2>1. i .. n = {i, i + 1, i + 2}
    OBVIOUS
  <2> QED BY <2>1
<1>3. n - i + 1 = 3 /\ i <= n
  OBVIOUS
<1> HIDE DEF S, u, n
<1>4. /\ s \in Seq(S)
      /\ Len(s) = IF i <= n THEN n - i + 1 ELSE 0
      /\ \A q \in 1 .. (n - i + 1) : s[q] = e[i + q - 1]
  BY <1>2, SubSeqProperties
<1> HIDE DEF s
<1>5. Len(s) = 3 /\ \A q \in 1 .. 3 : s[q] = u[q]
  <2>1. Len(s) = 3
    BY <1>3, <1>4
  <2>2. \A q \in 1 .. 3 : s[q] = e[i + q - 1]
    BY <1>3, <1>4
  <2>3. i + 1 - 1 = i /\ i + 2 - 1 = i + 1 /\ i + 3 - 1 = i + 2 /\ 1 .. 3 = {1, 2, 3}
    OBVIOUS
  <2> QED BY <1>1, <2>1, <2>2, <2>3
<1>6. s = u
  BY <1>1, <1>4, <1>5, SeqEqual
<1> QED
  BY <1>6 DEF s, u, n

LEMMA WithReads ==
    ASSUME NEW e, Len(e) \in Nat, Clean(e), DOMAIN e = 1 .. Len(e), NEW p, NoNameless(p),
           NEW f, Offers(e, p, f), NEW m, NEW i \in Nat, i >= 1,
           Forward(m[<<"primary", i>>], i),
           Reads(e, p, f, "primary", i, m[<<"primary", i>>])
    PROVE  Reads(e, p, f, "with", i, WithException(e, p, m, i))
<1> DEFINE left == m[<<"primary", i>>]
           x == left.next + 1
           r == WithException(e, p, m, i)
<1>1. CASE left.next = 0 \/ ~Peek(e, left.next, "WITH")
  <2>1. r = left
    BY <1>1 DEF WithException
  <2> QED BY <2>1 DEF Reads, ReadsTo
<1>2. CASE left.next # 0 /\ Peek(e, left.next, "WITH") /\ ~IsName(e, x)
  BY <1>2 DEF WithException, Reads, Error, Parsed
<1>3. CASE left.next # 0 /\ Peek(e, left.next, "WITH") /\ IsName(e, x)
  <2> DEFINE k == left.next - 1
  <2>1. r = Parsed(x + 1, OfException(left.base, e[x], left.d, p), Nameless)
    BY <1>3 DEF WithException
  <2>2. r.next = x + 1 /\ r.d = OfException(left.base, e[x], left.d, p)
    BY <2>1 DEF Parsed
  <2>3. /\ k \in Nat /\ i <= k /\ x = k + 2 /\ left.next = k + 1 /\ ReadsTo(e, p, f, "primary", i, left, k)
    BY <1>3 DEF Forward, Reads
  <2>4. /\ e[k + 1] = "WITH" /\ x \in Nat /\ x <= Len(e) /\ e[x] \notin Operators /\ e[x] # Garbled
    BY <1>3, <2>3 DEF Peek, IsName, Clean
  <2> HIDE DEF left, x, r, k
  <2>5. /\ Balanced(e, i, k)
        /\ Outermost(e, i, k, "OR") = {} /\ Outermost(e, i, k, "AND") = {}
        /\ Bare(e, p, f, i, k, left) /\ Suits(f[<<i, k>>], left.d)
    BY <2>3 DEF ReadsTo
  <2>6. Turn(e, x) = 0 /\ e[x] # "OR" /\ e[x] # "AND" /\ Turn(e, k + 1) = 0
    BY <2>4 DEF Turn, Operators
  <2>7. Balanced(e, x, x) /\ Outermost(e, x, x, "OR") = {} /\ Outermost(e, x, x, "AND") = {}
    BY <2>4, <2>6, SingleBalanced
  <2>8. /\ i \in Int /\ x \in Int /\ k + 1 \in i .. x /\ (k + 1) - 1 = k /\ (k + 1) + 1 = x
    BY <2>3, <2>4
  <2>9. Balanced(e, i, x) /\ Depth(e, i, k + 1) = 0
    BY <2>5, <2>6, <2>7, <2>8, JoinBalanced
  <2>10. Outermost(e, i, x, "OR") = {} /\ Outermost(e, i, x, "AND") = {}
    <3>1. e[k + 1] # "OR" /\ e[k + 1] # "AND"
      BY <2>4
    <3> QED BY <2>5, <2>6, <2>7, <2>8, <2>9, <3>1, OutermostOfParts
  <2>11. f[<<i, x>>] = Offered(e, p, f, i, x)
    BY <2>3, <2>4, WrittenOut
  <2>12. /\ ~(i > x) /\ i # x /\ x - 1 = k + 1 /\ x - 2 = k /\ x - 3 = k - 1
         /\ x \in i .. x /\ i \in i .. x
    BY <2>3, <2>4
  <2>13. Suits(f[<<i, x>>], r.d)
    <3>1. CASE i = k /\ e[i] \notin Operators /\ left.base = <<e[i]>> /\ left.d = OfName(e[i], p)
      <4> DEFINE compound == <<e[i], "WITH", e[x]>>
      <4>1. SubSeq(e, i, x) = compound
        <5>1. x = i + 2 /\ e[i + 1] = "WITH"
          BY <2>3, <2>4, <3>1
        <5> QED BY <5>1, ThreeTokens
      <4>2. <<e[i]>> \o <<"WITH", e[x]>> = compound
        BY NameThenException
      <4>3. e[i] # Garbled
        BY <2>3, <2>4 DEF Clean
      <4> HIDE DEF compound
      <4>4. r.d = IF Listed(compound, p) THEN ListedAs(compound, p)
                                         ELSE Stricter(OfName(e[i], p), REVIEW)
        BY <2>2, <3>1, <4>2 DEF OfException
      <4>5. f[<<i, x>>] = {{r.d}}
        BY <2>4, <2>9, <2>10, <2>11, <2>12, <3>1, <4>1, <4>3, <4>4 DEF Offered
      <4>6. r.d \in Dispositions
        <5>1. Stricter(OfName(e[i], p), REVIEW) \in Dispositions
          BY NameWorth, DispositionNumbers DEF Stricter
        <5> QED BY <4>4, <5>1, ListedWorth
      <4> QED BY <4>5, <4>6, OneSuits
    <3>2. CASE i < k /\ e[i] = "(" /\ e[k] = ")" /\ left.base = Nameless /\ Suits(f[<<i + 1, k - 1>>], left.d)
      <4>1. Nameless \o <<"WITH", e[x]>> = <<"", "WITH", e[x]>>
        BY NameThenException DEF Nameless
      <4>2. r.d = Stricter(left.d, REVIEW)
        BY <2>2, <3>2, <4>1 DEF OfException, NoNameless
      <4>3. f[<<i, x>>] = {a \cup {REVIEW} : a \in f[<<i + 1, k - 1>>]}
        <5>1. i # k /\ e[x - 1] = "WITH" /\ e[x - 2] = ")"
          BY <2>4, <2>12, <3>2
        <5> QED BY <2>4, <2>9, <2>10, <2>11, <2>12, <3>2, <5>1 DEF Offered
      <4> QED BY <3>2, <4>2, <4>3, ReviewedSuits
    <3> QED BY <2>5, <3>1, <3>2 DEF Bare
  <2>14. i <= x
    BY <2>12
  <2>15. ReadsTo(e, p, f, "with", i, r, x)
    BY <2>4, <2>9, <2>10, <2>13, <2>14 DEF ReadsTo
  <2>16. r.next - 1 = x
    BY <2>2, <2>4
  <2> QED BY <2>15, <2>16 DEF Reads, r
<1> QED
  BY <1>1, <1>2, <1>3

LEMMA ParserReads ==
    ASSUME NEW e, Len(e) \in Nat, Clean(e), DOMAIN e = 1 .. Len(e), NEW p, NoNameless(p),
           NEW f, Offers(e, p, f), NEW m, Parser(e, p, m)
    PROVE  \A rule \in Rules, i \in Nat : i >= 1 => Reads(e, p, f, rule, i, m[<<rule, i>>])
<1> DEFINE Holds(rule, i) == i >= 1 => Reads(e, p, f, rule, i, m[<<rule, i>>])
           B == {s \in Calls : Holds(s[1], s[2])}
<1>1. ASSUME NEW rule \in Rules, NEW i \in Nat
      PROVE  <<rule, i>> \in B <=> Holds(rule, i)
  BY DEF Calls
<1>0. \A rule \in Rules, i \in Nat : Forward(m[<<rule, i>>], i)
  BY ParserMovesOn
<1> HIDE DEF B
<1>2. ASSUME NEW rule \in Rules, NEW i \in Nat,
             \A q \in Rules, k \in Nat : Rank(e, q, k) < Rank(e, rule, i) => <<q, k>> \in B,
             i >= 1
      PROVE  Reads(e, p, f, rule, i, m[<<rule, i>>])
  <2>1. m[<<rule, i>>] = Returned(e, p, m, rule, i)
    BY ParserReturns
  <2>2. ASSUME NEW q \in Rules, Height(q) < Height(rule)
        PROVE  Reads(e, p, f, q, i, m[<<q, i>>])
    <3>1. Rank(e, q, i) < Rank(e, rule, i)
      BY <2>2, LowerIsLower
    <3> QED BY <1>1, <1>2, <3>1
  <2>3. ASSUME NEW q \in Rules, NEW k \in Nat, i < k, i <= Len(e)
        PROVE  Reads(e, p, f, q, k, m[<<q, k>>])
    <3>1. Rank(e, q, k) < Rank(e, rule, i) /\ k >= 1
      BY <1>2, <2>3, LaterIsLower
    <3> QED BY <1>1, <1>2, <3>1
  <2>4. CASE rule \in {"or", "and"}
    <3>1. Operand(rule) \in Rules /\ Height(Operand(rule)) < Height(rule)
      BY <2>4 DEF Operand, Rules, Height
    <3>2. Reads(e, p, f, Operand(rule), i, m[<<Operand(rule), i>>])
      BY <2>2, <3>1
    <3>3. Reads(e, p, f, rule, i, Chain(e, m, rule, i))
      BY <1>0, <1>2, <2>3, <2>4, <3>1, <3>2, ChainReads
    <3> QED BY <2>1, <2>4, <3>3 DEF Returned
  <2>5. CASE rule = "with"
    <3>1. "primary" \in Rules /\ Height("primary") < Height(rule)
      BY <2>5 DEF Rules, Height
    <3>2. Reads(e, p, f, "with", i, WithException(e, p, m, i))
      BY <1>0, <1>2, <2>2, <3>1, WithReads
    <3> QED BY <2>1, <2>5, <3>2 DEF Returned
  <2>6. CASE rule = "primary"
    <3>1. "or" \in Rules /\ i + 1 \in Nat /\ i < i + 1
      BY DEF Rules
    <3>2. Reads(e, p, f, "primary", i, Primary(e, p, m, i))
      BY <1>0, <1>2, <2>3, <3>1, PrimaryReads
    <3> QED BY <2>1, <2>6, <3>2 DEF Returned
  <2> QED BY <2>4, <2>5, <2>6 DEF Rules
<1>3. Hereditary(e, B)
  BY <1>1, <1>2 DEF Hereditary
<1>4. \A rule \in Rules, i \in Nat : <<rule, i>> \in B
  BY <1>3, CallsBelow
<1> QED
  BY <1>1, <1>4

-----------------------------------------------------------------------------
(* Whatever has alternatives, the parser reads.                             *)

(* How the alternatives of an expression come from those of its parts *)
Chained(e, f, i, j, token) ==
    \A k \in Outermost(e, i, j, token) : f[<<i, k - 1>>] # {} /\ f[<<k + 1, j>>] # {}

Plain(e, f, i, j) ==
    \/ i = j /\ e[i] \notin Operators \cup {Garbled}
    \/ /\ e[j - 1] = "WITH" /\ e[j] \notin Operators \cup {Garbled}
       /\ i = j - 2 /\ e[i] \notin Operators \cup {Garbled}
    \/ /\ e[j - 1] = "WITH" /\ e[j] \notin Operators \cup {Garbled}
       /\ e[i] = "(" /\ e[j - 2] = ")" /\ i < j - 2 /\ f[<<i + 1, j - 3>>] # {}
    \/ i < j /\ e[i] = "(" /\ e[j] = ")" /\ f[<<i + 1, j - 1>>] # {}

LEMMA OfferedShape ==
    ASSUME NEW e, Len(e) \in Nat, NEW p, NEW f, Offers(e, p, f), NEW i \in Starts(e), NEW j \in Ends(e),
           f[<<i, j>>] # {}
    PROVE  /\ i \in Nat /\ j \in Nat /\ i >= 1 /\ i <= j /\ j <= Len(e) /\ Balanced(e, i, j)
           /\ Outermost(e, i, j, "OR") # {} => Chained(e, f, i, j, "OR")
           /\ Outermost(e, i, j, "OR") = {} => Chained(e, f, i, j, "AND")
           /\ Outermost(e, i, j, "OR") = {} /\ Outermost(e, i, j, "AND") = {} => Plain(e, f, i, j)
<1>1. f[<<i, j>>] = Offered(e, p, f, i, j)
  BY OffersOf
<1>2. ~(i > j) /\ Balanced(e, i, j)
  BY <1>1 DEF Offered
<1>3. i \in Nat /\ j \in Nat /\ i >= 1 /\ i <= j /\ j <= Len(e)
  BY <1>2 DEF Starts, Ends
<1>4. ASSUME NEW k \in Outermost(e, i, j, "OR")
      PROVE  f[<<i, k - 1>>] # {} /\ f[<<k + 1, j>>] # {}
  <2>1. f[<<i, j>>] = Either(f[<<i, k - 1>>], f[<<k + 1, j>>])
    BY <1>2, OrAnywhere
  <2> QED BY <2>1 DEF Either
<1>5. ASSUME Outermost(e, i, j, "OR") = {}, NEW k \in Outermost(e, i, j, "AND")
      PROVE  f[<<i, k - 1>>] # {} /\ f[<<k + 1, j>>] # {}
  <2>1. f[<<i, j>>] = Both(f[<<i, k - 1>>], f[<<k + 1, j>>])
    BY <1>2, <1>5, AndAnywhere
  <2> QED BY <2>1 DEF Both
<1>6. ASSUME Outermost(e, i, j, "OR") = {}, Outermost(e, i, j, "AND") = {}
      PROVE  Plain(e, f, i, j)
  <2>0. i \in i .. j /\ j \in i .. j
    BY <1>3
  <2>1. CASE i = j
    <3>1. e[i] \notin Operators \cup {Garbled}
      BY <1>1, <1>2, <1>6, <2>0, <2>1 DEF Offered
    <3> QED BY <2>1, <3>1 DEF Plain
  <2>2. CASE i # j /\ e[j - 1] = "WITH" /\ e[j] \notin Operators \cup {Garbled} /\ i = j - 2
                   /\ e[i] \notin Operators \cup {Garbled}
    BY <2>2 DEF Plain
  <2>3. CASE i # j /\ e[j - 1] = "WITH" /\ e[j] \notin Operators \cup {Garbled}
             /\ ~(i = j - 2 /\ e[i] \notin Operators \cup {Garbled})
    <3>1. f[<<i, j>>] = IF e[i] = "(" /\ e[j - 2] = ")" THEN {a \cup {REVIEW} : a \in f[<<i + 1, j - 3>>]}
                        ELSE {}
      BY <1>1, <1>2, <1>6, <2>0, <2>3 DEF Offered
    <3>2. e[i] = "(" /\ e[j - 2] = ")" /\ f[<<i + 1, j - 3>>] # {}
      BY <3>1
    <3>3. i # j - 1 /\ i # j - 2
      BY <2>3, <3>2
    <3>4. i < j - 2
      BY <1>3, <2>3, <3>3
    <3> QED BY <2>3, <3>2, <3>4 DEF Plain
  <2>4. CASE i # j /\ ~(e[j - 1] = "WITH" /\ e[j] \notin Operators \cup {Garbled})
    <3>1. f[<<i, j>>] = IF e[i] = "(" /\ e[j] = ")" THEN f[<<i + 1, j - 1>>] ELSE {}
      BY <1>1, <1>2, <1>6, <2>0, <2>4 DEF Offered
    <3>2. i < j
      BY <1>3, <2>4
    <3> QED BY <3>1, <3>2 DEF Plain
  <2> QED BY <2>1, <2>2, <2>3, <2>4
<1> QED
  BY <1>2, <1>3, <1>4, <1>5, <1>6 DEF Chained

Rest(e, j, tokens) == \A t \in tokens : ~Peek(e, j + 1, t)

Whole(e, f, m, i, j) ==
    f[<<i, j>>] # {} =>
      /\ Rest(e, j, {"WITH"}) /\ Outermost(e, i, j, "OR") = {} /\ Outermost(e, i, j, "AND") = {}
           => m[<<"with", i>>].next = j + 1
      /\ Rest(e, j, {"WITH", "AND"}) /\ Outermost(e, i, j, "OR") = {}
           => m[<<"and", i>>].next = j + 1
      /\ Rest(e, j, {"WITH", "AND", "OR"})
           => m[<<"or", i>>].next = j + 1

First(e, i, j, token, k) ==
    k \in i .. j /\ k \in Outermost(e, i, j, token) /\ Outermost(e, i, k - 1, token) = {}

(* The first operator outside parentheses *)
LEMMA FirstOutermost ==
    ASSUME NEW e, NEW i \in Int, NEW j \in Int, NEW token \in Neutral, Outermost(e, i, j, token) # {}
    PROVE  \E k : First(e, i, j, token, k)
<1> DEFINE S == Outermost(e, i, j, token)
<1>1. S \subseteq i .. j /\ S # {}
  BY DEF Outermost
<1>2. \E k \in S : \A q \in S : k <= q
  <2> HIDE DEF S
  <2> DEFINE T == {q - i : q \in S}
  <2>1. T \subseteq Nat /\ T # {}
    <3>1. ASSUME NEW q \in S
          PROVE  q - i \in Nat
      BY <1>1
    <3> QED BY <1>1, <3>1
  <2>2. PICK n \in T : \A q \in T : n <= q
    BY <2>1, LeastNumber
  <2>3. PICK k \in S : n = k - i
    OBVIOUS
  <2>4. ASSUME NEW q \in S
        PROVE  k <= q
    <3>1. q - i \in T /\ q \in Int /\ k \in Int
      BY <1>1
    <3> QED BY <2>2, <2>3, <3>1
  <2> QED BY <2>4
<1>3. PICK k \in S : \A q \in S : k <= q
  BY <1>2
<1>4. k \in i .. j
  BY <1>1
<1>5. ASSUME NEW q \in Outermost(e, i, k - 1, token)
      PROVE  FALSE
  <2>1. q \in S /\ q < k /\ q \in Int
    BY <1>4 DEF Outermost
  <2> QED BY <1>3, <1>4, <2>1
<1> QED
  BY <1>3, <1>4, <1>5 DEF First

LEMMA PartOfPart ==
    ASSUME NEW e, NEW i \in Int, NEW j \in Int, NEW token \in Neutral, NEW k \in Outermost(e, i, j, token),
           NEW t
    PROVE  /\ e[k] = token /\ k \in i .. j /\ k \in Int
           /\ Outermost(e, i, k - 1, t) \subseteq Outermost(e, i, j, t)
           /\ Outermost(e, k + 1, j, t) \subseteq Outermost(e, i, j, t)
<1>1. k \in i .. j /\ k \in Int /\ e[k] = token /\ Depth(e, i, k) = 0 /\ Turn(e, k) = 0
  BY DEF Outermost, Turn, Neutral
<1>2. Outermost(e, i, j, t) = Outermost(e, i, k - 1, t) \cup Outermost(e, k + 1, j, t)
                                \cup (IF e[k] = t THEN {k} ELSE {})
  BY <1>1, OutermostOfParts
<1> QED
  BY <1>1, <1>2

(* A chain reads its first operand, the operator, and the rest. *)
LEMMA ChainGoesOn ==
    ASSUME NEW e, Len(e) \in Nat, NEW m, NEW rule \in {"or", "and"}, NEW i \in Nat, NEW k \in Nat, NEW j \in Nat,
           m[<<Operand(rule), i>>].next = k, 1 <= k, k <= Len(e), e[k] = Separator(rule),
           m[<<rule, k + 1>>].next = j + 1
    PROVE  Chain(e, m, rule, i).next = j + 1
<1>1. k # 0 /\ j + 1 # 0 /\ Peek(e, k, Separator(rule))
  BY DEF Peek
<1>2. Chain(e, m, rule, i) =
        Parsed(m[<<rule, k + 1>>].next,
               Combined(rule, m[<<Operand(rule), i>>].d, m[<<rule, k + 1>>].d), Nameless)
  BY <1>1 DEF Chain
<1> QED
  BY <1>2 DEF Parsed

LEMMA ChainStops ==
    ASSUME NEW e, NEW m, NEW rule, NEW i, NEW j,
           m[<<Operand(rule), i>>].next = j + 1, ~Peek(e, j + 1, Separator(rule))
    PROVE  Chain(e, m, rule, i).next = j + 1
BY DEF Chain

LEMMA NameReads ==
    ASSUME NEW e, NEW p, NEW m, Parser(e, p, m), NEW i \in Nat, i <= Len(e), e[i] \notin Operators
    PROVE  m[<<"primary", i>>].next = i + 1
<1>1. m[<<"primary", i>>] = Returned(e, p, m, "primary", i)
  BY ParserReturns DEF Rules
<1>2. ~Peek(e, i, "(") /\ IsName(e, i)
  BY DEF Peek, IsName, Operators
<1>3. Returned(e, p, m, "primary", i) = Parsed(i + 1, OfName(e[i], p), <<e[i]>>)
  BY <1>2 DEF Returned, Primary
<1> QED
  BY <1>1, <1>3 DEF Parsed

LEMMA ParenthesesRead ==
    ASSUME NEW e, NEW p, NEW m, Parser(e, p, m), NEW i \in Nat, NEW j \in Nat,
           i < j, j <= Len(e), i <= Len(e), e[i] = "(", e[j] = ")", m[<<"or", i + 1>>].next = j
    PROVE  m[<<"primary", i>>].next = j + 1
<1>1. m[<<"primary", i>>] = Returned(e, p, m, "primary", i)
  BY ParserReturns DEF Rules
<1>2. Peek(e, i, "(") /\ j # 0 /\ Peek(e, j, ")")
  BY DEF Peek
<1>3. Returned(e, p, m, "primary", i) = Parsed(j + 1, m[<<"or", i + 1>>].d, Nameless)
  BY <1>2 DEF Returned, Primary
<1> QED
  BY <1>1, <1>3 DEF Parsed

LEMMA WithoutException ==
    ASSUME NEW e, NEW p, NEW m, Parser(e, p, m), NEW i \in Nat, NEW j,
           m[<<"primary", i>>].next = j + 1, Rest(e, j, {"WITH"})
    PROVE  m[<<"with", i>>].next = j + 1
<1>1. m[<<"with", i>>] = Returned(e, p, m, "with", i)
  BY ParserReturns DEF Rules
<1>2. Returned(e, p, m, "with", i) = m[<<"primary", i>>]
  BY DEF Returned, WithException, Rest
<1> QED
  BY <1>1, <1>2

LEMMA ExceptionReads ==
    ASSUME NEW e, NEW p, NEW m, Parser(e, p, m), NEW i \in Nat, NEW j \in Nat,
           m[<<"primary", i>>].next = j - 1, j - 1 > 0, j <= Len(e), Len(e) \in Nat,
           e[j - 1] = "WITH", e[j] \notin Operators
    PROVE  m[<<"with", i>>].next = j + 1
<1> DEFINE left == m[<<"primary", i>>]
<1>1. m[<<"with", i>>] = Returned(e, p, m, "with", i)
  BY ParserReturns DEF Rules
<1>2. left.next # 0 /\ Peek(e, left.next, "WITH") /\ left.next + 1 = j /\ IsName(e, j)
  BY DEF Peek, IsName
<1> HIDE DEF left
<1>3. WithException(e, p, m, i) = Parsed(j + 1, OfException(left.base, e[j], left.d, p), Nameless)
  BY <1>2 DEF WithException, left
<1>4. Returned(e, p, m, "with", i).next = j + 1
  BY <1>3 DEF Returned, Parsed
<1> QED
  BY <1>1, <1>4

LEMMA ParserReadsAll ==
    ASSUME NEW e, Len(e) \in Nat, NEW p, NEW f, Offers(e, p, f), NEW m, Parser(e, p, m)
    PROVE  \A i \in Starts(e), j \in Ends(e) : Whole(e, f, m, i, j)
<1> DEFINE B == {s \in Starts(e) \X Ends(e) : Whole(e, f, m, s[1], s[2])}
<1>1. ASSUME NEW i \in Starts(e), NEW j \in Ends(e)
      PROVE  <<i, j>> \in B <=> Whole(e, f, m, i, j)
  OBVIOUS
<1> HIDE DEF B
<1>2. ASSUME NEW i \in Starts(e), NEW j \in Ends(e),
             \A a \in Starts(e), b \in Ends(e) : Width(a, b) < Width(i, j) => <<a, b>> \in B,
             f[<<i, j>>] # {}
      PROVE  Whole(e, f, m, i, j)
  <2>0. \A a \in Starts(e), b \in Ends(e) : Width(a, b) < Width(i, j) => Whole(e, f, m, a, b)
    BY <1>1, <1>2
  <2>1. /\ i \in Nat /\ j \in Nat /\ i >= 1 /\ i <= j /\ j <= Len(e)
        /\ i \in Int /\ j \in Int
        /\ Outermost(e, i, j, "OR") # {} => Chained(e, f, i, j, "OR")
        /\ Outermost(e, i, j, "OR") = {} => Chained(e, f, i, j, "AND")
        /\ Outermost(e, i, j, "OR") = {} /\ Outermost(e, i, j, "AND") = {} => Plain(e, f, i, j)
    BY <1>2, OfferedShape
  <2>2. ASSUME NEW a \in Nat, NEW b \in Nat, i < a, a <= j, b < j, f[<<a, b>>] # {}, e[b + 1] = ")"
        PROVE  m[<<"or", a>>].next = b + 1
    <3>1. a \in Starts(e) /\ b \in Ends(e) /\ Width(a, b) < Width(i, j)
      BY <2>1, <2>2 DEF Width, Starts, Ends
    <3>2. Rest(e, b, {"WITH", "AND", "OR"})
      BY <2>2 DEF Rest, Peek
    <3> QED BY <2>0, <2>2, <3>1, <3>2 DEF Whole
  <2>3. ASSUME Rest(e, j, {"WITH"}), Outermost(e, i, j, "OR") = {}, Outermost(e, i, j, "AND") = {}
        PROVE  m[<<"with", i>>].next = j + 1
    <3>1. CASE i = j /\ e[i] \notin Operators \cup {Garbled}
      <4>1. m[<<"primary", i>>].next = j + 1
        BY <2>1, <3>1, NameReads
      <4> QED BY <2>1, <2>3, <4>1, WithoutException
    <3>2. CASE /\ e[j - 1] = "WITH" /\ e[j] \notin Operators \cup {Garbled}
               /\ i = j - 2 /\ e[i] \notin Operators \cup {Garbled}
      <4>1. i <= Len(e) /\ i + 1 = j - 1 /\ j - 1 > 0
        BY <2>1, <3>2
      <4>2. m[<<"primary", i>>].next = j - 1
        BY <2>1, <3>2, <4>1, NameReads
      <4>3. e[j] \notin Operators /\ e[j - 1] = "WITH"
        BY <3>2
      <4> QED BY <2>1, <4>1, <4>2, <4>3, ExceptionReads
    <3>3. CASE /\ e[j - 1] = "WITH" /\ e[j] \notin Operators \cup {Garbled}
               /\ e[i] = "(" /\ e[j - 2] = ")" /\ i < j - 2 /\ f[<<i + 1, j - 3>>] # {}
      <4>1. /\ i + 1 \in Nat /\ j - 3 \in Nat /\ i < i + 1 /\ i + 1 <= j /\ j - 3 < j /\ (j - 3) + 1 = j - 2
            /\ j - 2 \in Nat /\ j - 2 <= Len(e) /\ i <= Len(e) /\ (j - 2) + 1 = j - 1 /\ j - 1 > 0
        BY <2>1, <3>3
      <4>2. m[<<"or", i + 1>>].next = j - 2
        BY <2>2, <3>3, <4>1
      <4>3. m[<<"primary", i>>].next = j - 1
        BY <2>1, <3>3, <4>1, <4>2, ParenthesesRead
      <4>4. e[j] \notin Operators /\ e[j - 1] = "WITH"
        BY <3>3
      <4> QED BY <2>1, <4>1, <4>3, <4>4, ExceptionReads
    <3>4. CASE i < j /\ e[i] = "(" /\ e[j] = ")" /\ f[<<i + 1, j - 1>>] # {}
      <4>1. /\ i + 1 \in Nat /\ j - 1 \in Nat /\ i < i + 1 /\ i + 1 <= j /\ j - 1 < j /\ (j - 1) + 1 = j
            /\ i <= Len(e)
        BY <2>1, <3>4
      <4>2. m[<<"or", i + 1>>].next = j
        BY <2>2, <3>4, <4>1
      <4>3. m[<<"primary", i>>].next = j + 1
        BY <2>1, <3>4, <4>1, <4>2, ParenthesesRead
      <4> QED BY <2>1, <2>3, <4>3, WithoutException
    <3> QED BY <2>1, <2>3, <3>1, <3>2, <3>3, <3>4 DEF Plain
  <2>4. ASSUME NEW rule \in {"or", "and"}, Rest(e, j, {Separator(rule)}),
               m[<<Operand(rule), i>>].next = j + 1
        PROVE  m[<<rule, i>>].next = j + 1
    <3>1. m[<<rule, i>>] = Chain(e, m, rule, i)
      BY <2>1, ParserReturns DEF Rules, Returned
    <3> QED BY <2>4, <3>1, ChainStops DEF Rest
  <2>5. ASSUME NEW rule \in {"or", "and"}, NEW k \in i .. j, e[k] = Separator(rule),
               m[<<Operand(rule), i>>].next = k, m[<<rule, k + 1>>].next = j + 1
        PROVE  m[<<rule, i>>].next = j + 1
    <3>1. m[<<rule, i>>] = Chain(e, m, rule, i)
      BY <2>1, ParserReturns DEF Rules, Returned
    <3>2. k \in Nat /\ 1 <= k /\ k <= Len(e)
      BY <2>1
    <3> QED BY <2>1, <2>5, <3>1, <3>2, ChainGoesOn
  <2>6. ASSUME Rest(e, j, {"WITH", "AND"}), Outermost(e, i, j, "OR") = {}
        PROVE  m[<<"and", i>>].next = j + 1
    <3>1. CASE Outermost(e, i, j, "AND") = {}
      <4>1. Rest(e, j, {"WITH"}) /\ Rest(e, j, {Separator("and")})
        BY <2>6 DEF Rest, Separator
      <4>2. m[<<Operand("and"), i>>].next = j + 1
        BY <2>3, <2>6, <3>1, <4>1 DEF Operand
      <4> QED BY <2>4, <4>1, <4>2
    <3>2. CASE Outermost(e, i, j, "AND") # {}
      <4>0. "AND" \in Neutral /\ i \in Int /\ j \in Int
        BY <2>1 DEF Neutral
      <4> PICK k : First(e, i, j, "AND", k)
        BY <3>2, <4>0, FirstOutermost
      <4>1. k \in i .. j /\ k \in Outermost(e, i, j, "AND") /\ Outermost(e, i, k - 1, "AND") = {}
        BY DEF First
      <4>2. f[<<i, k - 1>>] # {} /\ f[<<k + 1, j>>] # {}
        BY <2>1, <2>6, <4>1 DEF Chained
      <4>3. /\ k - 1 \in Ends(e) /\ k + 1 \in Starts(e)
            /\ Width(i, k - 1) < Width(i, j) /\ Width(k + 1, j) < Width(i, j)
        BY <4>1, Beside
      <4>4. e[k] = "AND" /\ Outermost(e, i, k - 1, "OR") = {} /\ Outermost(e, k + 1, j, "OR") = {}
        BY <2>1, <2>6, <4>1, PartOfPart DEF Neutral
      <4>5. k - 1 + 1 = k
        BY <2>1, <4>1
      <4>6. Rest(e, k - 1, {"WITH"})
        BY <4>4, <4>5 DEF Rest, Peek
      <4>7. m[<<"with", i>>].next = k
        <5>1. Whole(e, f, m, i, k - 1)
          BY <2>0, <4>3
        <5> QED BY <4>1, <4>2, <4>4, <4>5, <4>6, <5>1 DEF Whole
      <4>8. m[<<"and", k + 1>>].next = j + 1
        <5>1. Whole(e, f, m, k + 1, j)
          BY <2>0, <4>3
        <5> QED BY <2>6, <4>2, <4>4, <5>1 DEF Whole
      <4>9. Operand("and") = "with" /\ Separator("and") = "AND"
        BY DEF Operand, Separator
      <4> QED BY <2>5, <4>1, <4>4, <4>7, <4>8, <4>9
    <3> QED BY <3>1, <3>2
  <2>7. ASSUME Rest(e, j, {"WITH", "AND", "OR"})
        PROVE  m[<<"or", i>>].next = j + 1
    <3>1. CASE Outermost(e, i, j, "OR") = {}
      <4>1. Rest(e, j, {"WITH", "AND"}) /\ Rest(e, j, {Separator("or")})
        BY <2>7 DEF Rest, Separator
      <4>2. m[<<Operand("or"), i>>].next = j + 1
        BY <2>6, <3>1, <4>1 DEF Operand
      <4> QED BY <2>4, <4>1, <4>2
    <3>2. CASE Outermost(e, i, j, "OR") # {}
      <4>0. "OR" \in Neutral /\ i \in Int /\ j \in Int
        BY <2>1 DEF Neutral
      <4> PICK k : First(e, i, j, "OR", k)
        BY <3>2, <4>0, FirstOutermost
      <4>1. k \in i .. j /\ k \in Outermost(e, i, j, "OR") /\ Outermost(e, i, k - 1, "OR") = {}
        BY DEF First
      <4>2. f[<<i, k - 1>>] # {} /\ f[<<k + 1, j>>] # {}
        BY <2>1, <3>2, <4>1 DEF Chained
      <4>3. /\ k - 1 \in Ends(e) /\ k + 1 \in Starts(e)
            /\ Width(i, k - 1) < Width(i, j) /\ Width(k + 1, j) < Width(i, j)
        BY <4>1, Beside
      <4>4. e[k] = "OR"
        BY <2>1, <4>1, PartOfPart DEF Neutral
      <4>5. k - 1 + 1 = k
        BY <2>1, <4>1
      <4>6. Rest(e, k - 1, {"WITH", "AND"})
        BY <4>4, <4>5 DEF Rest, Peek
      <4>7. m[<<"and", i>>].next = k
        <5>1. Whole(e, f, m, i, k - 1)
          BY <2>0, <4>3
        <5> QED BY <4>1, <4>2, <4>5, <4>6, <5>1 DEF Whole
      <4>8. m[<<"or", k + 1>>].next = j + 1
        <5>1. Whole(e, f, m, k + 1, j)
          BY <2>0, <4>3
        <5> QED BY <2>7, <4>2, <5>1 DEF Whole
      <4>9. Operand("or") = "and" /\ Separator("or") = "OR"
        BY DEF Operand, Separator
      <4> QED BY <2>5, <4>1, <4>4, <4>7, <4>8, <4>9
    <3> QED BY <3>1, <3>2
  <2> QED BY <2>3, <2>6, <2>7 DEF Whole
<1>3. Inherited(e, B)
  <2>1. ASSUME NEW i \in Starts(e), NEW j \in Ends(e),
               \A a \in Starts(e), b \in Ends(e) : Width(a, b) < Width(i, j) => <<a, b>> \in B
        PROVE  <<i, j>> \in B
    <3>1. CASE f[<<i, j>>] = {}
      BY <1>1, <3>1 DEF Whole
    <3>2. CASE f[<<i, j>>] # {}
      BY <1>1, <1>2, <2>1, <3>2
    <3> QED BY <3>1, <3>2
  <2> QED BY <2>1 DEF Inherited
<1>4. \A i \in Starts(e), j \in Ends(e) : <<i, j>> \in B
  BY <1>3, PartsBelow
<1> QED
  BY <1>1, <1>4

(* Nothing that is no token has alternatives. *)
LEMMA OfferedIsClean ==
    ASSUME NEW e, Len(e) \in Nat, NEW p, NEW f, Offers(e, p, f)
    PROVE  \A i \in Starts(e), j \in Ends(e) : f[<<i, j>>] # {} => \A k \in i .. j : e[k] # Garbled
<1> DEFINE Holds(i, j) == f[<<i, j>>] # {} => \A k \in i .. j : e[k] # Garbled
           B == {s \in Starts(e) \X Ends(e) : Holds(s[1], s[2])}
<1>1. ASSUME NEW i \in Starts(e), NEW j \in Ends(e)
      PROVE  <<i, j>> \in B <=> Holds(i, j)
  OBVIOUS
<1> HIDE DEF B
<1>2. ASSUME NEW i \in Starts(e), NEW j \in Ends(e),
             \A a \in Starts(e), b \in Ends(e) : Width(a, b) < Width(i, j) => <<a, b>> \in B,
             f[<<i, j>>] # {}, NEW k \in i .. j
      PROVE  e[k] # Garbled
  <2>0. \A a \in Starts(e), b \in Ends(e) : Width(a, b) < Width(i, j) => Holds(a, b)
    BY <1>1, <1>2
  <2>1. /\ i \in Nat /\ j \in Nat /\ i >= 1 /\ i <= j /\ j <= Len(e)
        /\ i \in Int /\ j \in Int
        /\ Outermost(e, i, j, "OR") # {} => Chained(e, f, i, j, "OR")
        /\ Outermost(e, i, j, "OR") = {} => Chained(e, f, i, j, "AND")
        /\ Outermost(e, i, j, "OR") = {} /\ Outermost(e, i, j, "AND") = {} => Plain(e, f, i, j)
    BY <1>2, OfferedShape
  <2>2. Garbled \notin Operators /\ Garbled \notin Neutral
    BY DEF Garbled, Operators, Neutral
  <2>3. ASSUME NEW token \in Neutral, Chained(e, f, i, j, token), Outermost(e, i, j, token) # {}
        PROVE  e[k] # Garbled
    <3>1. PICK c \in Outermost(e, i, j, token) : TRUE
      BY <2>3
    <3>2. c \in i .. j /\ e[c] = token
      BY DEF Outermost
    <3>3. f[<<i, c - 1>>] # {} /\ f[<<c + 1, j>>] # {}
      BY <2>3 DEF Chained
    <3>4. /\ c - 1 \in Ends(e) /\ c + 1 \in Starts(e)
          /\ Width(i, c - 1) < Width(i, j) /\ Width(c + 1, j) < Width(i, j)
      BY <3>2, Beside
    <3>5. (\A q \in i .. (c - 1) : e[q] # Garbled) /\ (\A q \in (c + 1) .. j : e[q] # Garbled)
      BY <2>0, <3>3, <3>4
    <3>6. k \in i .. (c - 1) \/ k = c \/ k \in (c + 1) .. j
      BY <2>1, <3>2
    <3> QED BY <2>2, <3>2, <3>5, <3>6
  <2>4. ASSUME NEW a \in Nat, NEW b \in Nat, i < a, a <= j, b < j, f[<<a, b>>] # {}
        PROVE  \A q \in a .. b : e[q] # Garbled
    <3>1. a \in Starts(e) /\ b \in Ends(e) /\ Width(a, b) < Width(i, j)
      BY <2>1, <2>4 DEF Width, Starts, Ends
    <3> QED BY <2>0, <2>4, <3>1
  <2>5. CASE Plain(e, f, i, j)
    <3>1. CASE i = j /\ e[i] \notin Operators \cup {Garbled}
      BY <2>1, <3>1
    <3>2. CASE /\ e[j - 1] = "WITH" /\ e[j] \notin Operators \cup {Garbled}
               /\ i = j - 2 /\ e[i] \notin Operators \cup {Garbled}
      <4>1. k = i \/ k = j - 1 \/ k = j
        BY <2>1, <3>2
      <4> QED BY <2>2, <3>2, <4>1 DEF Neutral
    <3>3. CASE /\ e[j - 1] = "WITH" /\ e[j] \notin Operators \cup {Garbled}
               /\ e[i] = "(" /\ e[j - 2] = ")" /\ i < j - 2 /\ f[<<i + 1, j - 3>>] # {}
      <4>1. /\ i + 1 \in Nat /\ j - 3 \in Nat /\ i < i + 1 /\ i + 1 <= j /\ j - 3 < j
            /\ k = i \/ k \in (i + 1) .. (j - 3) \/ k = j - 2 \/ k = j - 1 \/ k = j
        BY <2>1, <3>3
      <4>2. \A q \in (i + 1) .. (j - 3) : e[q] # Garbled
        BY <2>4, <3>3, <4>1
      <4> QED BY <2>2, <3>3, <4>1, <4>2 DEF Operators, Neutral
    <3>4. CASE i < j /\ e[i] = "(" /\ e[j] = ")" /\ f[<<i + 1, j - 1>>] # {}
      <4>1. /\ i + 1 \in Nat /\ j - 1 \in Nat /\ i < i + 1 /\ i + 1 <= j /\ j - 1 < j
            /\ k = i \/ k \in (i + 1) .. (j - 1) \/ k = j
        BY <2>1, <3>4
      <4>2. \A q \in (i + 1) .. (j - 1) : e[q] # Garbled
        BY <2>4, <3>4, <4>1
      <4> QED BY <2>2, <3>4, <4>1, <4>2 DEF Operators
    <3> QED BY <2>5, <3>1, <3>2, <3>3, <3>4 DEF Plain
  <2> QED BY <2>1, <2>3, <2>5 DEF Neutral
<1>3. Inherited(e, B)
  BY <1>1, <1>2 DEF Inherited
<1>4. \A i \in Starts(e), j \in Ends(e) : <<i, j>> \in B
  BY <1>3, PartsBelow
<1> QED
  BY <1>1, <1>4

-----------------------------------------------------------------------------
(* What the parser makes of an expression is what its alternatives are      *)
(* worth: min() over the alternatives of max() over their obligations, and  *)
(* INVALID exactly where there are none.                                    *)
THEOREM EvaluateIsWorth ==
    ASSUME NEW S, NEW e \in Seq(S), NEW p, NoNameless(p)
    PROVE  Evaluate(e, p) = Worth(e, p)
<1>1. Len(e) \in Nat /\ DOMAIN e = 1 .. Len(e)
  OBVIOUS
<1>2. CASE e \in Blanks \/ Listed(e, p)
  BY <1>2 DEF Evaluate, Worth
<1>3. CASE e \notin Blanks /\ ~Listed(e, p)
  <2> DEFINE f == CHOOSE g : Offers(e, p, g)
             m == CHOOSE g : Parser(e, p, g)
             r == m[<<"or", 1>>]
             A == f[<<1, Len(e)>>]
  <2>1. Offers(e, p, f) /\ Parser(e, p, m)
    BY <1>1, OffersExist, ParserExists
  <2>2. Alternatives(e, p) = A /\ Parse(e, p) = r
    BY AlternativesAreOffered, ParseIsParser
  <2> HIDE DEF f, m
  <2>3. 1 \in Starts(e) /\ Len(e) \in Ends(e)
    BY <1>1 DEF Starts, Ends
  <2>4. Len(e) # 0
    <3>1. e # <<>>
      BY <1>3 DEF Blanks
    <3> QED BY <3>1, EmptySeq
  <2>5. CASE A = {}
    <3>1. Worth(e, p) = INVALID
      BY <1>3, <2>2, <2>5 DEF Worth
    <3>2. ASSUME Clean(e), r.next = Len(e) + 1
          PROVE  FALSE
      <4>1. Reads(e, p, f, "or", 1, r)
        BY <1>1, <2>1, <3>2, ParserReads DEF Rules
      <4>2. r.next # 0 /\ r.next - 1 = Len(e)
        BY <1>1, <3>2
      <4>3. Suits(A, r.d)
        BY <4>1, <4>2 DEF Reads, ReadsTo
      <4> QED BY <2>5, <4>3 DEF Suits
    <3>3. Evaluate(e, p) = INVALID
      <4>1. CASE Clean(e)
        <5>1. r.next # Len(e) + 1
          BY <3>2, <4>1
        <5> QED BY <1>3, <2>2, <4>1, <5>1 DEF Evaluate, Clean
      <4>2. CASE ~Clean(e)
        BY <1>3, <4>2 DEF Evaluate, Clean
      <4> QED BY <4>1, <4>2
    <3> QED BY <3>1, <3>3
  <2>6. CASE A # {}
    <3>1. Clean(e)
      BY <1>1, <2>1, <2>3, <2>6, OfferedIsClean DEF Clean
    <3>2. r.next = Len(e) + 1
      <4>1. Whole(e, f, m, 1, Len(e))
        BY <1>1, <2>1, <2>3, ParserReadsAll
      <4>2. Rest(e, Len(e), {"WITH", "AND", "OR"})
        BY <1>1 DEF Rest, Peek
      <4> QED BY <2>6, <4>1, <4>2 DEF Whole
    <3>3. Reads(e, p, f, "or", 1, r)
      BY <1>1, <2>1, <3>1, ParserReads DEF Rules
    <3>4. r.next # 0 /\ r.next - 1 = Len(e)
      BY <1>1, <3>2
    <3>5. Suits(A, r.d)
      BY <3>3, <3>4 DEF Reads, ReadsTo
    <3>6. Evaluate(e, p) = r.d
      BY <1>3, <2>2, <3>1, <3>2 DEF Evaluate, Clean
    <3> DEFINE Fitting(d) == /\ \E a \in A : Meets(a, d)
                          /\ \A c \in ALLOWED .. (d - 1) : \A a \in A : ~Meets(a, c)
    <3>7. Worth(e, p) = CHOOSE d \in ALLOWED .. DENIED : Fitting(d)
      BY <1>3, <2>2, <2>6 DEF Worth
    <3>8. r.d \in ALLOWED .. DENIED /\ Fitting(r.d) /\ A \in SUBSET SUBSET Dispositions
      BY <3>5 DEF Suits, Dispositions
    <3>9. ASSUME NEW d \in ALLOWED .. DENIED, Fitting(d)
          PROVE  d = r.d
      <4>1. Suits(A, d)
        BY <3>8, <3>9 DEF Suits, Dispositions
      <4> QED BY <3>5, <4>1, SuitsOne
    <3> HIDE DEF Fitting, A, r
    <3> QED BY <3>6, <3>7, <3>8, <3>9
  <2> QED BY <2>5, <2>6
<1> QED
  BY <1>2, <1>3

-----------------------------------------------------------------------------
(* Lists, and what FlattenSeq makes of a list of lists *)

LEMMA ListFacts ==
    ASSUME NEW s, IsList(s)
    PROVE  /\ Len(s) \in Nat /\ DOMAIN s = 1 .. Len(s) /\ s \in Seq(Range(s))
           /\ \A i \in DOMAIN s : s[i] \in Range(s)
           /\ \A x \in Range(s) : \E i \in DOMAIN s : s[i] = x
BY DEF IsList, Range

LEMMA SeqIsList ==
    ASSUME NEW S, NEW s \in Seq(S)
    PROVE  IsList(s) /\ Range(s) \subseteq S
<1>1. Len(s) \in Nat /\ DOMAIN s = 1 .. Len(s) /\ s \in [1 .. Len(s) -> S]
  BY LenProperties
<1>2. \A k \in 1 .. Len(s) : s[k] \in Range(s)
  BY <1>1 DEF Range
<1>3. s \in Seq(Range(s))
  BY <1>1, <1>2, AsSeq
<1> QED
  BY <1>1, <1>3 DEF IsList, Range

(* A function on the places of a list is one. *)
LEMMA EachIsList ==
    ASSUME NEW s, IsList(s), NEW f, f = [i \in DOMAIN s |-> f[i]]
    PROVE  IsList(f) /\ DOMAIN f = DOMAIN s /\ Len(f) = Len(s)
<1>1. Len(s) \in Nat /\ DOMAIN f = 1 .. Len(s)
  BY ListFacts
<1>2. \A k \in 1 .. Len(s) : f[k] \in Range(f)
  BY <1>1 DEF Range
<1>3. f = [k \in 1 .. Len(s) |-> f[k]]
  BY <1>1
<1>4. f \in Seq(Range(f)) /\ Len(f) = Len(s)
  BY <1>1, <1>2, <1>3, AsSeq
<1> QED
  BY <1>4 DEF IsList

LEMMA JoinedLists ==
    ASSUME NEW S, NEW s \in Seq(S), NEW t \in Seq(S)
    PROVE  s \o t \in Seq(S) /\ Range(s \o t) = Range(s) \cup Range(t)
BY ConcatProperties, RangeConcatenation

(* The lists s[1] .. s[i] in one *)
FlattenStep(s, f, i) == IF i = 1 THEN s[i] ELSE f[i - 1] \o s[i]
Flattens(s, n, f) == f = [i \in 1 .. n |-> FlattenStep(s, f, i)]

LEMMA FlattenedIs ==
    ASSUME NEW s, Len(s) # 0
    PROVE  FlattenSeq(s) = (CHOOSE f : Flattens(s, Len(s), f))[Len(s)]
BY DEF FlattenSeq, Flattens, FlattenStep

Flattenable(s, n) == \E f : Flattens(s, n, f)

LEMMA FlattenExists ==
    ASSUME NEW s
    PROVE  \A n \in Nat : Flattenable(s, n)
<1> DEFINE B == {n \in Nat : Flattenable(s, n)}
<1>1. ASSUME NEW n \in Nat, 0 .. (n - 1) \subseteq B
      PROVE  n \in B
  <2>1. CASE n = 0
    <3>1. Flattens(s, 0, [i \in 1 .. 0 |-> 0])
      BY DEF Flattens
    <3> QED BY <2>1, <3>1 DEF Flattenable
  <2>2. CASE n # 0
    <3>1. n - 1 \in 0 .. (n - 1)
      BY <2>2
    <3>2. PICK f : Flattens(s, n - 1, f)
      BY <1>1, <3>1 DEF Flattenable
    <3> DEFINE g == [i \in 1 .. n |-> FlattenStep(s, f, i)]
    <3>3. ASSUME NEW i \in 1 .. n
          PROVE  FlattenStep(s, f, i) = FlattenStep(s, g, i)
      <4>1. CASE i = 1
        BY <4>1 DEF FlattenStep
      <4>2. CASE i # 1
        <5>1. i - 1 \in 1 .. (n - 1) /\ i - 1 \in 1 .. n
          BY <4>2
        <5>2. f[i - 1] = FlattenStep(s, f, i - 1)
          BY <3>2, <5>1 DEF Flattens
        <5>3. f[i - 1] = g[i - 1]
          BY <5>1, <5>2
        <5> QED BY <4>2, <5>3 DEF FlattenStep
      <4> QED BY <4>1, <4>2
    <3>4. g = [i \in 1 .. n |-> FlattenStep(s, g, i)]
      BY <3>3
    <3> HIDE DEF g
    <3>5. Flattens(s, n, g)
      BY <3>4 DEF Flattens
    <3> QED BY <3>5 DEF Flattenable
  <2> QED BY <2>1, <2>2
<1>2. Nat \subseteq B
  <2> HIDE DEF B
  <2> QED BY <1>1, NumbersBelow
<1> QED
  BY <1>2

(* What a list of lists contains, up to the n-th *)
Within(s, n) == UNION {Range(s[i]) : i \in 1 .. n}

LEMMA FlattenParts ==
    ASSUME NEW s, IsList(s), \A i \in DOMAIN s : IsList(s[i]), NEW f, Flattens(s, Len(s), f)
    PROVE  \A i \in 1 .. Len(s) : IsList(f[i]) /\ Range(f[i]) = Within(s, i)
<1> DEFINE S == UNION {Range(s[i]) : i \in DOMAIN s}
           n == Len(s)
<1>1. n \in Nat /\ DOMAIN s = 1 .. n
  BY ListFacts
<1>2. ASSUME NEW i \in 1 .. n PROVE s[i] \in Seq(S)
  <2>1. s[i] \in Seq(Range(s[i])) /\ Range(s[i]) \subseteq S
    BY <1>1, <1>2, ListFacts
  <2> QED BY <2>1, SeqMonotonic
<1> DEFINE Right(i) == f[i] \in Seq(S) /\ Range(f[i]) = Within(s, i)
           B == {i \in Nat : i \in 1 .. n => Right(i)}
<1> HIDE DEF S
<1>3. ASSUME NEW i \in Nat, 0 .. (i - 1) \subseteq B, i \in 1 .. n
      PROVE  Right(i)
  <2>1. f[i] = FlattenStep(s, f, i)
    BY <1>3 DEF Flattens
  <2>2. CASE i = 1
    <3>1. Within(s, i) = Range(s[i])
      BY <2>2 DEF Within
    <3> QED BY <1>2, <1>3, <2>1, <2>2, <3>1 DEF FlattenStep
  <2>3. CASE i # 1
    <3>1. i - 1 \in 0 .. (i - 1) /\ i - 1 \in 1 .. n /\ 1 .. i = 1 .. (i - 1) \cup {i}
      BY <1>3, <2>3
    <3>2. Right(i - 1)
      BY <1>3, <3>1
    <3>3. Within(s, i) = Within(s, i - 1) \cup Range(s[i])
      BY <3>1 DEF Within
    <3>4. f[i] = f[i - 1] \o s[i]
      BY <2>1, <2>3 DEF FlattenStep
    <3>5. s[i] \in Seq(S)
      BY <1>2, <1>3
    <3> QED BY <3>2, <3>3, <3>4, <3>5, JoinedLists
  <2> QED BY <2>2, <2>3
<1>4. Nat \subseteq B
  <2>1. \A i \in Nat : 0 .. (i - 1) \subseteq B => i \in B
    BY <1>3
  <2> HIDE DEF B
  <2> QED BY <2>1, NumbersBelow
<1>5. ASSUME NEW i \in 1 .. n PROVE Right(i)
  BY <1>1, <1>4
<1> QED
  BY <1>5, SeqIsList

LEMMA FlattenedLast ==
    ASSUME NEW s, IsList(s), Len(s) # 0
    PROVE  \E f : Flattens(s, Len(s), f) /\ FlattenSeq(s) = f[Len(s)]
<1> DEFINE f == CHOOSE g : Flattens(s, Len(s), g)
<1>1. Flattens(s, Len(s), f)
  BY ListFacts, FlattenExists DEF Flattenable
<1>2. FlattenSeq(s) = f[Len(s)]
  BY FlattenedIs
<1> QED
  BY <1>1, <1>2

LEMMA FlattenedNone ==
    ASSUME NEW s, IsList(s), Len(s) = 0
    PROVE  s = <<>> /\ FlattenSeq(s) = <<>> /\ DOMAIN s = {}
BY ListFacts, EmptySeq DEF FlattenSeq

LEMMA Flattened ==
    ASSUME NEW s, IsList(s), \A i \in DOMAIN s : IsList(s[i])
    PROVE  /\ IsList(FlattenSeq(s))
           /\ Range(FlattenSeq(s)) = UNION {Range(s[i]) : i \in DOMAIN s}
<1>1. CASE Len(s) = 0
  BY <1>1, FlattenedNone, EmptySeq DEF IsList, Range
<1>2. CASE Len(s) # 0
  <2>1. PICK f : Flattens(s, Len(s), f) /\ FlattenSeq(s) = f[Len(s)]
    BY <1>2, FlattenedLast
  <2>2. Len(s) \in 1 .. Len(s) /\ DOMAIN s = 1 .. Len(s)
    BY <1>2, ListFacts
  <2> QED BY <2>1, <2>2, FlattenParts DEF Within
<1> QED
  BY <1>1, <1>2

(* A finite set is the range of the list that is made of it. *)
LEMMA ListOfSet ==
    ASSUME NEW S, IsFiniteSet(S)
    PROVE  /\ IsList(SetToSeq(S)) /\ Range(SetToSeq(S)) \subseteq S
           /\ DOMAIN SetToSeq(S) = 1 .. Cardinality(S)
<1> DEFINE n == Cardinality(S)
           f == SetToSeq(S)
<1>1. n \in Nat
  BY FS_CardinalityType
<1>2. \E g \in [1 .. n -> S] : IsInjective(g)
  BY FS_CountingElements, FS_NatBijection, <1>1 DEF IsInjective, ExistsBijection, Bijection, Injection
<1>3. f \in [1 .. n -> S]
  BY <1>2 DEF SetToSeq
<1> HIDE DEF f
<1>4. f \in Seq(S)
  BY <1>1, <1>3
<1> QED
  BY <1>3, <1>4, SeqIsList DEF f

-----------------------------------------------------------------------------
(* The walk over the components of an SBOM *)

(* Components have their number before the ones inside them. *)
Nested(part) ==
    /\ IsList(part)
    /\ \A c \in DOMAIN part : part[c].components \in Seq({n \in DOMAIN part : n > c})

NextPending(part, q) == part[Head(q)].components \o Tail(q)

(* If the walk succeeds one step later it succeeds now. *)
Backwards(part, K) ==
    /\ <<>> \in K
    /\ \A q \in Seq(DOMAIN part) : q # <<>> /\ NextPending(part, q) \in K => q \in K

LEMMA HeadTailJoined ==
    ASSUME NEW S, NEW s \in Seq(S), NEW t \in Seq(S), s # <<>>
    PROVE  /\ s \o t # <<>> /\ Head(s \o t) = Head(s) /\ Tail(s \o t) = Tail(s) \o t
           /\ Head(s) \in S /\ Tail(s) \in Seq(S) /\ Len(Tail(s)) = Len(s) - 1
           /\ s = <<Head(s)>> \o Tail(s)
<1>1. /\ Len(s) \in Nat /\ Len(s) >= 1 /\ Len(t) \in Nat
      /\ s \o t \in Seq(S) /\ Len(s \o t) = Len(s) + Len(t)
      /\ \A i \in 1 .. Len(s) + Len(t) :
            (s \o t)[i] = IF i <= Len(s) THEN s[i] ELSE t[i - Len(s)]
  BY ConcatProperties, EmptySeq, LenProperties
<1>2. s \o t # <<>>
  BY <1>1, EmptySeq
<1>3. Head(s) = s[1] /\ Head(s \o t) = (s \o t)[1]
  BY <1>1, <1>2
<1>4. /\ Head(s) \in S /\ Tail(s) \in Seq(S) /\ Len(Tail(s)) = Len(s) - 1
      /\ \A i \in 1 .. Len(Tail(s)) : Tail(s)[i] = s[i + 1]
  BY HeadTailProperties
<1>5. /\ Tail(s \o t) \in Seq(S) /\ Len(Tail(s \o t)) = Len(s) + Len(t) - 1
      /\ \A i \in 1 .. Len(Tail(s \o t)) : Tail(s \o t)[i] = (s \o t)[i + 1]
  BY <1>1, <1>2, HeadTailProperties
<1>6. /\ Tail(s) \o t \in Seq(S) /\ Len(Tail(s) \o t) = Len(s) - 1 + Len(t)
      /\ \A i \in 1 .. Len(s) - 1 + Len(t) :
            (Tail(s) \o t)[i] = IF i <= Len(s) - 1 THEN Tail(s)[i] ELSE t[i - (Len(s) - 1)]
  BY <1>4, ConcatProperties
<1>7. ASSUME NEW i \in 1 .. Len(Tail(s) \o t)
      PROVE  Tail(s \o t)[i] = (Tail(s) \o t)[i]
  <2>1. i \in 1 .. Len(Tail(s \o t)) /\ i + 1 \in 1 .. Len(s) + Len(t)
        /\ i \in 1 .. Len(s) - 1 + Len(t) /\ i + 1 - Len(s) = i - (Len(s) - 1)
        /\ (i + 1 <= Len(s) <=> i <= Len(s) - 1)
    BY <1>1, <1>5, <1>6
  <2>2. Tail(s \o t)[i] = IF i + 1 <= Len(s) THEN s[i + 1] ELSE t[i + 1 - Len(s)]
    BY <1>1, <1>5, <2>1
  <2>3. CASE i <= Len(s) - 1
    <3>1. i \in 1 .. Len(Tail(s))
      BY <1>1, <1>4, <2>1, <2>3
    <3> QED BY <1>4, <1>6, <2>1, <2>2, <2>3, <3>1
  <2>4. CASE ~(i <= Len(s) - 1)
    BY <1>6, <2>1, <2>2, <2>4
  <2> QED BY <2>3, <2>4
<1>8. Tail(s \o t) = Tail(s) \o t
  <2>1. Len(Tail(s \o t)) = Len(Tail(s) \o t)
    BY <1>1, <1>5, <1>6
  <2> QED BY <1>5, <1>6, <1>7, <2>1, SeqEqual
<1>9. s = <<Head(s)>> \o Tail(s)
  BY <1>4
<1> QED
  BY <1>1, <1>2, <1>3, <1>4, <1>8, <1>9

LEMMA WalkInduction ==
    ASSUME NEW part, Nested(part), NEW K, Backwards(part, K)
    PROVE  Seq(DOMAIN part) \subseteq K
<1> DEFINE D == DOMAIN part
           n == Len(part)
           From(k) == {c \in D : c > n - k}
           Goes(k) == \A s \in Seq(From(k)), t \in K \cap Seq(D) : s \o t \in K
           B == {k \in Nat : Goes(k)}
<1>1. n \in Nat /\ D = 1 .. n
  BY ListFacts DEF Nested
<1>2. ASSUME NEW k \in Nat PROVE From(k) \subseteq D
  OBVIOUS
<1> HIDE DEF D
<1>3. ASSUME NEW k \in Nat, 0 .. (k - 1) \subseteq B
      PROVE  Goes(k)
  <2>1. CASE k = 0
    <3>1. From(k) = {}
      BY <1>1, <2>1
    <3>2. ASSUME NEW s \in Seq(From(k)), NEW t \in K \cap Seq(D)
          PROVE  s \o t \in K
      <4>1. s = <<>>
        BY <3>1
      <4>2. s \o t = t
        BY <4>1, ConcatEmptySeq
      <4> QED BY <4>2
    <3> QED BY <3>2
  <2>2. CASE k # 0
    <3>1. k - 1 \in 0 .. (k - 1) /\ k - 1 \in Nat
      BY <2>2
    <3>2. Goes(k - 1)
      BY <1>3, <3>1
    <3> DEFINE Fine(s) == \A t \in K \cap Seq(D) : s \o t \in K
               L == {l \in Nat : \A s \in Seq(From(k)) : Len(s) = l => Fine(s)}
    <3>3. ASSUME NEW l \in Nat, 0 .. (l - 1) \subseteq L, NEW s \in Seq(From(k)), Len(s) = l,
                 NEW t \in K \cap Seq(D)
          PROVE  s \o t \in K
      <4>1. CASE s = <<>>
        <5>1. s \o t = t
          BY <4>1, ConcatEmptySeq
        <5> QED BY <5>1
      <4>2. CASE s # <<>>
        <5> DEFINE h == Head(s)
                   u == Tail(s) \o t
                   inside == part[h].components
        <5>1. s \in Seq(D)
          BY <1>2, SeqMonotonic
        <5>2. /\ s \o t # <<>> /\ Head(s \o t) = h /\ Tail(s \o t) = u /\ h \in D
              /\ s \o t \in Seq(D) /\ u \in Seq(D)
          BY <4>2, <5>1, HeadTailJoined, ConcatProperties
        <5>3. h \in From(k) /\ Tail(s) \in Seq(From(k)) /\ Len(Tail(s)) = l - 1
          BY <3>3, <4>2, HeadTailProperties
        <5>4. l - 1 \in 0 .. (l - 1) /\ l - 1 \in Nat
          <6>1. Len(Tail(s)) \in Nat
            BY <5>3, LenProperties
          <6> QED BY <5>3, <6>1
        <5>5. u \in K
          <6>1. l - 1 \in L
            BY <3>3, <5>4
          <6> QED BY <5>3, <6>1
        <5>6. inside \in Seq(From(k - 1))
          <6>1. inside \in Seq({m \in D : m > h})
            BY <5>2 DEF Nested, D
          <6>2. {m \in D : m > h} \subseteq From(k - 1)
            BY <1>1, <3>1, <5>3
          <6> HIDE DEF h, inside, From
          <6> QED BY <6>1, <6>2, SeqMonotonic
        <5>7. inside \o u \in K
          BY <3>2, <5>2, <5>5, <5>6
        <5>8. NextPending(part, s \o t) = inside \o u
          BY <5>2 DEF NextPending
        <5> QED BY <5>2, <5>7, <5>8 DEF Backwards, D
      <4> QED BY <4>1, <4>2
    <3>4. Nat \subseteq L
      <4>1. \A l \in Nat : 0 .. (l - 1) \subseteq L => l \in L
        BY <3>3
      <4> HIDE DEF L
      <4> QED BY <4>1, NumbersBelow
    <3>5. ASSUME NEW s \in Seq(From(k)) PROVE Fine(s)
      <4>1. Len(s) \in Nat
        BY LenProperties
      <4> QED BY <3>4, <4>1
    <3> QED BY <3>5
  <2> QED BY <2>1, <2>2
<1>4. Nat \subseteq B
  <2>1. \A k \in Nat : 0 .. (k - 1) \subseteq B => k \in B
    BY <1>3
  <2> HIDE DEF B
  <2> QED BY <2>1, NumbersBelow
<1>5. From(n) = D /\ Goes(n)
  <2>1. From(n) = D
    BY <1>1
  <2>2. n \in B
    BY <1>1, <1>4
  <2> QED BY <2>1, <2>2
<1>6. <<>> \in K \cap Seq(D)
  BY EmptySeq DEF Backwards
<1>7. ASSUME NEW s \in Seq(D) PROVE s \in K
  <2>1. s \o <<>> \in K
    BY <1>5, <1>6
  <2> QED BY <2>1, ConcatEmptySeq
<1> QED
  BY <1>7 DEF D

FlatStep(part, f, q) == IF q = <<>> THEN <<>> ELSE <<Head(q)>> \o f[NextPending(part, q)]
Flats(part, f) == f = [q \in Seq(DOMAIN part) |-> FlatStep(part, f, q)]

LEMMA ComponentsIs ==
    ASSUME NEW part, NEW roots
    PROVE  Components(part, roots) = (CHOOSE f : Flats(part, f))[roots]
BY DEF Components, Flats, FlatStep, NextPending

(* A solution for some stacks, with all that come after them *)
Partly(part, g) ==
    /\ DOMAIN g \subseteq Seq(DOMAIN part)
    /\ g = [q \in DOMAIN g |-> g[q]]
    /\ \A q \in DOMAIN g : /\ q # <<>> => NextPending(part, q) \in DOMAIN g
                           /\ g[q] = FlatStep(part, g, q)

Solvable(part, q) == \E g : Partly(part, g) /\ q \in DOMAIN g
Settled(part, q) ==
    \A g, h : Partly(part, g) /\ Partly(part, h) /\ q \in DOMAIN g /\ q \in DOMAIN h => g[q] = h[q]

LEMMA WalkSettled ==
    ASSUME NEW part, Nested(part)
    PROVE  \A q \in Seq(DOMAIN part) : Settled(part, q)
<1> DEFINE D == DOMAIN part
           K == {q \in Seq(D) : Settled(part, q)}
<1>1. <<>> \in K
  BY EmptySeq DEF Settled, Partly, FlatStep
<1>2. ASSUME NEW q \in Seq(D), q # <<>>, NextPending(part, q) \in K
      PROVE  Settled(part, q)
  <2> SUFFICES ASSUME NEW g, NEW h, Partly(part, g), Partly(part, h), q \in DOMAIN g, q \in DOMAIN h
               PROVE  g[q] = h[q]
    BY DEF Settled
  <2>1. NextPending(part, q) \in DOMAIN g /\ NextPending(part, q) \in DOMAIN h
    BY <1>2 DEF Partly
  <2>2. g[NextPending(part, q)] = h[NextPending(part, q)]
    BY <1>2, <2>1 DEF Settled
  <2>3. g[q] = FlatStep(part, g, q) /\ h[q] = FlatStep(part, h, q)
    BY DEF Partly
  <2> QED BY <2>2, <2>3 DEF FlatStep
<1>3. Backwards(part, K)
  BY <1>1, <1>2 DEF Backwards
<1> HIDE DEF K
<1>4. Seq(D) \subseteq K
  BY <1>3, WalkInduction
<1> QED
  BY <1>4 DEF K

LEMMA WalkSolvable ==
    ASSUME NEW part, Nested(part)
    PROVE  \A q \in Seq(DOMAIN part) : Solvable(part, q)
<1> DEFINE D == DOMAIN part
           K == {q \in Seq(D) : Solvable(part, q)}
<1>1. Solvable(part, <<>>)
  <2> DEFINE g == [q \in {<<>>} |-> <<>>]
  <2>1. Partly(part, g)
    BY EmptySeq DEF Partly, FlatStep
  <2>2. <<>> \in DOMAIN g
    OBVIOUS
  <2> HIDE DEF g
  <2> QED BY <2>1, <2>2 DEF Solvable
<1>2. ASSUME NEW q \in Seq(D), q # <<>>, NextPending(part, q) \in K
      PROVE  Solvable(part, q)
  <2> DEFINE next == NextPending(part, q)
  <2>1. PICK g : Partly(part, g) /\ next \in DOMAIN g
    BY <1>2 DEF Solvable
  <2>2. CASE q \in DOMAIN g
    BY <2>1, <2>2 DEF Solvable
  <2>3. CASE q \notin DOMAIN g
    <3> DEFINE h == [r \in DOMAIN g \cup {q} |-> IF r = q THEN <<Head(q)>> \o g[next] ELSE g[r]]
    <3> HIDE DEF next
    <3>1. DOMAIN h = DOMAIN g \cup {q} /\ \A r \in DOMAIN g : h[r] = g[r]
      BY <2>3
    <3>2. h[q] = <<Head(q)>> \o h[next]
      BY <2>1, <2>3
    <3>3. h = [r \in DOMAIN h |-> h[r]]
      OBVIOUS
    <3> HIDE DEF h
    <3>4. ASSUME NEW r \in DOMAIN h
          PROVE  /\ r # <<>> => NextPending(part, r) \in DOMAIN h
                 /\ h[r] = FlatStep(part, h, r)
      <4>1. CASE r = q
        <5>1. NextPending(part, r) = next
          BY <4>1 DEF next
        <5> QED BY <1>2, <2>1, <3>1, <3>2, <4>1, <5>1 DEF FlatStep
      <4>2. CASE r \in DOMAIN g
        <5>1. /\ r # <<>> => NextPending(part, r) \in DOMAIN g
              /\ g[r] = FlatStep(part, g, r)
          BY <2>1, <4>2 DEF Partly
        <5>2. CASE r = <<>>
          BY <3>1, <4>2, <5>1, <5>2 DEF FlatStep
        <5>3. CASE r # <<>>
          <6>1. NextPending(part, r) \in DOMAIN g
            BY <5>1, <5>3
          <6>2. h[NextPending(part, r)] = g[NextPending(part, r)]
            BY <3>1, <6>1
          <6> QED BY <3>1, <4>2, <5>1, <5>3, <6>1, <6>2 DEF FlatStep
        <5> QED BY <5>2, <5>3
      <4> QED BY <3>1, <4>1, <4>2
    <3>5. DOMAIN h \subseteq Seq(DOMAIN part)
      BY <2>1, <3>1 DEF Partly
    <3>6. Partly(part, h)
      BY <3>3, <3>4, <3>5 DEF Partly
    <3> QED BY <3>1, <3>6 DEF Solvable
  <2> QED BY <2>2, <2>3
<1>3. Backwards(part, K)
  BY <1>1, <1>2, EmptySeq DEF Backwards
<1> HIDE DEF K
<1>4. Seq(D) \subseteq K
  BY <1>3, WalkInduction
<1> QED
  BY <1>4 DEF K

LEMMA NextIsStack ==
    ASSUME NEW part, Nested(part), NEW q \in Seq(DOMAIN part), q # <<>>
    PROVE  /\ Head(q) \in DOMAIN part /\ Tail(q) \in Seq(DOMAIN part)
           /\ part[Head(q)].components \in Seq(DOMAIN part)
           /\ NextPending(part, q) \in Seq(DOMAIN part)
           /\ Range(q) = {Head(q)} \cup Range(Tail(q))
           /\ Range(NextPending(part, q)) = Range(part[Head(q)].components) \cup Range(Tail(q))
<1> DEFINE D == DOMAIN part
           inside == part[Head(q)].components
<1>1. Head(q) \in D /\ Tail(q) \in Seq(D)
  BY HeadTailProperties
<1>2. inside \in Seq({n \in D : n > Head(q)}) /\ {n \in D : n > Head(q)} \subseteq D
  BY <1>1 DEF Nested
<1>3. inside \in Seq(D)
  <2> HIDE DEF inside
  <2> QED BY <1>2, SeqMonotonic
<1>4. /\ NextPending(part, q) \in Seq(D)
      /\ Range(NextPending(part, q)) = Range(inside) \cup Range(Tail(q))
  <2> HIDE DEF inside, D
  <2>1. NextPending(part, q) = inside \o Tail(q)
    BY DEF NextPending, inside
  <2>2. /\ inside \o Tail(q) \in Seq(D)
        /\ Range(inside \o Tail(q)) = Range(inside) \cup Range(Tail(q))
    BY <1>1, <1>3, JoinedLists, Zenon
  <2> QED BY <2>1, <2>2
<1>5. Range(q) = {Head(q)} \cup Range(Tail(q))
  <2>1. q = <<Head(q)>> \o Tail(q)
    BY HeadTailJoined, EmptySeq
  <2>2. <<Head(q)>> \in Seq(D) /\ Range(<<Head(q)>>) = {Head(q)}
    BY <1>1 DEF Range
  <2> DEFINE one == <<Head(q)>>
  <2> HIDE DEF one, D
  <2>3. one \in Seq(D)
    BY <2>2 DEF one
  <2>4. Range(one \o Tail(q)) = Range(one) \cup Range(Tail(q))
    BY <1>1, <2>3, JoinedLists, Zenon
  <2> QED BY <2>1, <2>2, <2>4 DEF one
<1> QED
  BY <1>1, <1>3, <1>4, <1>5

LEMMA WalkExists ==
    ASSUME NEW part, Nested(part)
    PROVE  \E f : Flats(part, f)
<1> DEFINE D == DOMAIN part
           At(q) == CHOOSE g : Partly(part, g) /\ q \in DOMAIN g
           f == [q \in Seq(D) |-> At(q)[q]]
<1>1. ASSUME NEW q \in Seq(D)
      PROVE  Partly(part, At(q)) /\ q \in DOMAIN At(q)
  BY WalkSolvable DEF Solvable
<1> HIDE DEF At
<1>2. ASSUME NEW q \in Seq(D)
      PROVE  f[q] = FlatStep(part, f, q)
  <2>1. f[q] = FlatStep(part, At(q), q)
    BY <1>1 DEF Partly
  <2>2. CASE q = <<>>
    BY <2>1, <2>2 DEF FlatStep
  <2>3. CASE q # <<>>
    <3> DEFINE next == NextPending(part, q)
    <3>1. next \in DOMAIN At(q) /\ next \in Seq(D)
      BY <1>1, <2>3, NextIsStack DEF Partly
    <3>2. f[next] = At(next)[next]
      BY <3>1
    <3>3. At(next)[next] = At(q)[next]
      <4>1. Settled(part, next)
        BY <3>1, WalkSettled
      <4>2. Partly(part, At(next)) /\ next \in DOMAIN At(next) /\ Partly(part, At(q))
        BY <1>1, <3>1
      <4> QED BY <3>1, <4>1, <4>2 DEF Settled
    <3> QED BY <2>1, <2>3, <3>2, <3>3 DEF FlatStep
  <2> QED BY <2>2, <2>3
<1>3. f = [q \in Seq(D) |-> FlatStep(part, f, q)]
  BY <1>2
<1> HIDE DEF f
<1>4. Flats(part, f)
  BY <1>3 DEF Flats
<1> QED
  BY <1>4

(* What the walk over a stack returns has the stack, and is closed: with a *)
(* component it has those inside it.                                       *)
Closed(part, S) == \A c \in S : Range(part[c].components) \subseteq S
Complete(part, f, q) ==
    f[q] \in Seq(DOMAIN part) /\ Range(q) \subseteq Range(f[q]) /\ Closed(part, Range(f[q]))

LEMMA WalkComplete ==
    ASSUME NEW part, Nested(part), NEW f, Flats(part, f)
    PROVE  \A q \in Seq(DOMAIN part) : Complete(part, f, q)
<1> DEFINE D == DOMAIN part
           K == {q \in Seq(D) : Complete(part, f, q)}
<1>1. <<>> \in Seq(D) /\ Complete(part, f, <<>>)
  <2>1. <<>> \in Seq(D)
    BY EmptySeq
  <2>2. f[<<>>] = <<>>
    BY <2>1 DEF Flats, FlatStep
  <2>3. Range(<<>>) = {}
    BY DEF Range
  <2> QED BY <2>1, <2>2, <2>3 DEF Complete, Closed
<1>2. ASSUME NEW q \in Seq(D), q # <<>>, NextPending(part, q) \in K
      PROVE  Complete(part, f, q)
  <2> DEFINE h == Head(q)
             rest == f[NextPending(part, q)]
  <2>1. f[q] = <<h>> \o rest
    BY <1>2 DEF Flats, FlatStep
  <2>2. Complete(part, f, NextPending(part, q))
    BY <1>2
  <2>3. /\ h \in D /\ Range(q) = {h} \cup Range(Tail(q))
        /\ Range(NextPending(part, q)) = Range(part[h].components) \cup Range(Tail(q))
    BY <1>2, NextIsStack
  <2>4. f[q] \in Seq(D) /\ Range(f[q]) = {h} \cup Range(rest)
    <3>1. <<h>> \in Seq(D) /\ Range(<<h>>) = {h}
      BY <2>3 DEF Range
    <3> DEFINE one == <<h>>
    <3>2. rest \in Seq(D) /\ one \in Seq(D)
      BY <2>2, <3>1 DEF Complete
    <3> HIDE DEF one, rest
    <3>3. one \o rest \in Seq(D) /\ Range(one \o rest) = Range(one) \cup Range(rest)
      BY <3>2, JoinedLists, Zenon
    <3> QED BY <2>1, <3>1, <3>3 DEF one
  <2>5. Range(NextPending(part, q)) \subseteq Range(rest) /\ Closed(part, Range(rest))
    BY <2>2 DEF Complete
  <2> HIDE DEF h, rest
  <2>6. Closed(part, Range(f[q]))
    BY <2>3, <2>4, <2>5 DEF Closed
  <2> QED BY <2>3, <2>4, <2>5, <2>6 DEF Complete
<1>3. Backwards(part, K)
  BY <1>1, <1>2 DEF Backwards
<1> HIDE DEF K
<1>4. Seq(D) \subseteq K
  BY <1>3, WalkInduction
<1> QED
  BY <1>4 DEF K

LEMMA ComponentsComplete ==
    ASSUME NEW part, Nested(part), NEW roots \in Seq(DOMAIN part)
    PROVE  /\ Components(part, roots) \in Seq(DOMAIN part)
           /\ Range(roots) \subseteq Range(Components(part, roots))
           /\ Closed(part, Range(Components(part, roots)))
<1> DEFINE f == CHOOSE g : Flats(part, g)
<1>1. Flats(part, f)
  BY WalkExists
<1> HIDE DEF f
<1>2. Complete(part, f, roots)
  BY <1>1, WalkComplete
<1>3. Components(part, roots) = f[roots]
  BY ComponentsIs DEF f
<1> QED
  BY <1>2, <1>3 DEF Complete

(* The components the parser looks at are all there are, however deep. *)
LEMMA AllComponentsWalked ==
    ASSUME NEW d, IsTree(d.parts, d.subject \o d.roots),
           d.subject \in Seq(DOMAIN d.parts), d.roots \in Seq(DOMAIN d.parts)
    PROVE  /\ AllComponents(d) \in Seq(DOMAIN d.parts)
           /\ Range(AllComponents(d)) = DOMAIN d.parts
<1> DEFINE part == d.parts
           D == DOMAIN part
           tops == d.subject \o d.roots
           s == Components(part, d.subject)
           t == Components(part, d.roots)
           R == Range(s) \cup Range(t)
<1>1. Nested(part)
  BY DEF Nested, IsTree
<1>2. /\ s \in Seq(D) /\ Range(d.subject) \subseteq Range(s) /\ Closed(part, Range(s))
      /\ t \in Seq(D) /\ Range(d.roots) \subseteq Range(t) /\ Closed(part, Range(t))
  BY <1>1, ComponentsComplete
<1>3. AllComponents(d) = s \o t
  BY DEF AllComponents
<1>4. Range(tops) = Range(d.subject) \cup Range(d.roots)
  BY JoinedLists
<1>5. \A c \in D : \/ c \in Range(tops)
                   \/ \E b \in D : c \in Range(part[b].components)
  BY DEF IsTree
<1> HIDE DEF s, t, part, tops
<1>6. s \o t \in Seq(D) /\ Range(s \o t) = R
  <2> HIDE DEF D
  <2>1. s \in Seq(D) /\ t \in Seq(D)
    BY <1>2
  <2> QED BY <2>1, JoinedLists, Zenon
<1>7. Closed(part, R) /\ Range(tops) \subseteq R
  BY <1>2, <1>4 DEF Closed
<1> DEFINE B == {n \in Nat : n \in D => n \in R}
<1>8. ASSUME NEW n \in Nat, 0 .. (n - 1) \subseteq B, n \in D, n \notin Range(tops)
      PROVE  n \in R
  <2>1. PICK b \in D : n \in Range(part[b].components)
    BY <1>5, <1>8
  <2>2. n > b /\ b \in Nat
    <3>1. part[b].components \in Seq({m \in D : m > b})
      BY <1>1 DEF Nested
    <3>2. Range(part[b].components) \subseteq {m \in D : m > b}
      BY <3>1, SeqIsList
    <3>3. D = 1 .. Len(part) /\ Len(part) \in Nat
      BY <1>1, ListFacts DEF Nested
    <3> QED BY <2>1, <3>2, <3>3
  <2>3. b \in 0 .. (n - 1)
    BY <2>2
  <2>4. b \in R
    BY <1>8, <2>1, <2>3
  <2> QED BY <1>7, <2>1, <2>4 DEF Closed
<1>9. Nat \subseteq B
  <2>1. \A n \in Nat : 0 .. (n - 1) \subseteq B => n \in B
    BY <1>7, <1>8
  <2> HIDE DEF B
  <2> QED BY <2>1, NumbersBelow
<1>10. D \subseteq R
  <2>1. D \subseteq Nat
    BY <1>1, ListFacts DEF Nested
  <2> QED BY <1>9, <2>1
<1>11. R \subseteq D
  BY <1>2, SeqIsList
<1> QED
  BY <1>3, <1>6, <1>10, <1>11 DEF part

-----------------------------------------------------------------------------
(* The licences of a report and those among its findings *)

LicensesAmong(findings) ==
    {f.license : f \in {g \in Range(findings) : IsInventory(g)}}

LEMMA LicensesAreAmong ==
    ASSUME NEW kind, NEW d
    PROVE  LicensesIn(ScanOf(kind, d)) = LicensesAmong(Finds(kind, d))
BY DEF LicensesIn, LicensesAmong, ScanOf

(* The same, but for licences that say nothing *)
Alike(a, b) == a = b \/ (a \in Blanks /\ b \in Blanks)
Answered(A, B) == \A a \in A : IsList(a) /\ \E b \in B : Alike(a, b)
Agreeing(A, B) == Answered(A, B) /\ Answered(B, A)

NoLicense(findings) == \A i \in DOMAIN findings : ~IsInventory(findings[i])

LEMMA NoneAmong ==
    ASSUME NEW findings, NoLicense(findings)
    PROVE  LicensesAmong(findings) = {}
BY DEF NoLicense, LicensesAmong, Range

LEMMA AlikeThemselves ==
    ASSUME NEW A, \A a \in A : IsList(a)
    PROVE  Agreeing(A, A)
BY DEF Agreeing, Answered, Alike

LEMMA CategoryOfIssue ==
    ASSUME NEW c, NEW s
    PROVE  /\ Issue(c, s).category = c /\ Issue(c, s).license = <<>>
           /\ IsInventory(Issue(c, s)) <=> c = "license"
BY DEF Issue, IsInventory

LEMMA LicenseOfDetected ==
    ASSUME NEW e
    PROVE  /\ LicenseDetected(e).category = "license" /\ LicenseDetected(e).license = e
           /\ IsInventory(LicenseDetected(e))
BY DEF LicenseDetected, IsInventory

LEMMA NormalizedLicenses ==
    ASSUME NEW d, WellFormed(d), NormalizedAccepts(d)
    PROVE  Agreeing(LicensesAmong(NormalizedFinds(d)), Expressions("normalized", d))
<1> DEFINE F(f) == [category |-> f.category, severity |-> SeverityParse(f.severity),
                    license |-> f.license, dependency |-> f.dependency]
           all == NormalizedFinds(d)
           B == Expressions("normalized", d)
<1>1. all = [i \in DOMAIN d.findings |-> F(d.findings[i])]
  BY DEF NormalizedFinds, Each
<1>2. \A f : /\ F(f).license = f.license
             /\ IsInventory(F(f)) <=> f.category = "license" \/ f.dependency
  BY DEF IsInventory
<1>3. B = {d.findings[k].license : k \in {n \in DOMAIN d.findings :
              d.findings[n].category = "license" \/ d.findings[n].dependency}}
  BY DEF Expressions
<1>4. \A i \in DOMAIN d.findings : IsList(d.findings[i].license)
  BY DEF WellFormed, NormalizedAccepts, Every
<1> HIDE DEF F, all
<1>5. LicensesAmong(all) = B
  BY <1>1, <1>2, <1>3 DEF LicensesAmong, Range
<1>6. \A e \in B : IsList(e)
  BY <1>3, <1>4
<1> HIDE DEF B
<1> QED
  BY <1>5, <1>6, AlikeThemselves DEF all, B

LEMMA TrivyLicenses ==
    ASSUME NEW d, WellFormed(d), TrivyAccepts(d)
    PROVE  Agreeing(LicensesAmong(TrivyFinds(d)), Expressions("trivy", d))
<1> DEFINE lists == [k \in DOMAIN d.Results |->
                        [j \in DOMAIN d.Results[k].items |-> TrivyItem(d.Results[k].items[j])]]
           all == TrivyFinds(d)
           B == Expressions("trivy", d)
<1>1. all = FlattenSeq(lists)
  BY DEF TrivyFinds, Each
<1>2. B = UNION {{d.Results[k].items[j].license :
                     j \in {n \in DOMAIN d.Results[k].items : d.Results[k].items[n].category = "license"}}
                  : k \in DOMAIN d.Results}
  BY DEF Expressions
<1>3. /\ IsList(d.Results)
      /\ \A k \in DOMAIN d.Results :
            /\ IsList(d.Results[k].items)
            /\ \A j \in DOMAIN d.Results[k].items : IsList(d.Results[k].items[j].license)
  BY DEF WellFormed, TrivyAccepts, Every
<1>4. IsList(lists) /\ DOMAIN lists = DOMAIN d.Results
  BY <1>3, EachIsList
<1>5. ASSUME NEW k \in DOMAIN lists
      PROVE  /\ IsList(lists[k]) /\ DOMAIN lists[k] = DOMAIN d.Results[k].items
             /\ \A j \in DOMAIN lists[k] : lists[k][j] = TrivyItem(d.Results[k].items[j])
  BY <1>3, EachIsList
<1>6. \A x : /\ IsInventory(TrivyItem(x)) <=> x.category = "license"
             /\ x.category = "license" => TrivyItem(x).license = x.license
  BY CategoryOfIssue, LicenseOfDetected DEF TrivyItem
<1> HIDE DEF lists, all
<1>7. Range(all) = UNION {Range(lists[k]) : k \in DOMAIN lists}
  BY <1>1, <1>4, <1>5, Flattened
<1>8. LicensesAmong(all) \subseteq B
  <2> SUFFICES ASSUME NEW f \in Range(all), IsInventory(f)
               PROVE  f.license \in B
    BY DEF LicensesAmong
  <2>1. PICK k \in DOMAIN lists : f \in Range(lists[k])
    BY <1>7
  <2>2. PICK j \in DOMAIN lists[k] : f = lists[k][j]
    BY <2>1 DEF Range
  <2> QED BY <1>2, <1>4, <1>5, <1>6, <2>2
<1>9. B \subseteq LicensesAmong(all)
  <2> SUFFICES ASSUME NEW k \in DOMAIN d.Results, NEW j \in DOMAIN d.Results[k].items,
                      d.Results[k].items[j].category = "license"
               PROVE  d.Results[k].items[j].license \in LicensesAmong(all)
    BY <1>2
  <2> DEFINE f == lists[k][j]
  <2>1. f = TrivyItem(d.Results[k].items[j]) /\ f \in Range(lists[k]) /\ k \in DOMAIN lists
    BY <1>4, <1>5 DEF Range
  <2>2. f \in Range(all)
    BY <1>7, <2>1
  <2>3. IsInventory(f) /\ f.license = d.Results[k].items[j].license
    BY <1>6, <2>1
  <2> HIDE DEF f
  <2> QED BY <2>2, <2>3 DEF LicensesAmong
<1>10. \A e \in B : IsList(e)
  BY <1>2, <1>3
<1> HIDE DEF B
<1> QED
  BY <1>8, <1>9, <1>10, AlikeThemselves DEF all, B

(* A list of lists of findings that are no licences *)
LEMMA NoneInAny ==
    ASSUME NEW s, IsList(s), \A i \in DOMAIN s : IsList(s[i]) /\ NoLicense(s[i])
    PROVE  NoLicense(FlattenSeq(s))
<1>1. Range(FlattenSeq(s)) = UNION {Range(s[i]) : i \in DOMAIN s}
  BY Flattened
<1>2. ASSUME NEW x \in Range(FlattenSeq(s))
      PROVE  ~IsInventory(x)
  BY <1>1 DEF NoLicense, Range
<1> QED
  BY <1>2 DEF NoLicense, Range

LEMMA PlainFindings ==
    ASSUME NEW d
    PROVE  NoLicense(SemgrepFinds(d)) /\ NoLicense(RuffFinds(d)) /\ NoLicense(<<>>)
<1>1. NoLicense(SemgrepFinds(d))
  BY CategoryOfIssue DEF NoLicense, SemgrepFinds, Each
<1>2. NoLicense(RuffFinds(d))
  BY CategoryOfIssue DEF NoLicense, RuffFinds, Each
<1>3. NoLicense(<<>>)
  BY DEF NoLicense
<1> QED
  BY <1>1, <1>2, <1>3

(* The cases of a report, those inside suites inside included or not *)
LEMMA CasesAreLists ==
    ASSUME NEW d, WellFormed(d), "suites" \in DOMAIN d
    PROVE  IsList(Cases(d)) /\ IsList(FlattenSeq(Each(LAMBDA s : s.inner, d.suites)))
<1>1. IsList(d.suites) /\ \A k \in DOMAIN d.suites : IsList(d.suites[k].cases) /\ IsList(d.suites[k].inner)
  BY DEF WellFormed, Every
<1> DEFINE own == [k \in DOMAIN d.suites |-> d.suites[k].cases]
           inner == [k \in DOMAIN d.suites |-> d.suites[k].inner]
<1>2. Cases(d) = FlattenSeq(own) /\ FlattenSeq(Each(LAMBDA s : s.inner, d.suites)) = FlattenSeq(inner)
  BY DEF Cases, Each
<1>3. /\ IsList(own) /\ \A k \in DOMAIN own : IsList(own[k])
      /\ IsList(inner) /\ \A k \in DOMAIN inner : IsList(inner[k])
  BY <1>1, EachIsList
<1> HIDE DEF own, inner
<1> QED
  BY <1>2, <1>3, Flattened

LEMMA JUnitFindings ==
    ASSUME NEW d, WellFormed(d), JUnitAccepts(d)
    PROVE  NoLicense(JUnitFinds(d))
<1> DEFINE cases == Cases(d)
           lists == [k \in DOMAIN cases |-> IF Broken(cases[k]) THEN <<Issue("test", 3)>> ELSE <<>>]
<1>1. JUnitFinds(d) = FlattenSeq(lists)
  BY DEF JUnitFinds, Each
<1>2. IsList(cases)
  BY CasesAreLists DEF JUnitAccepts
<1> HIDE DEF cases
<1>3. IsList(lists) /\ DOMAIN lists = DOMAIN cases
  BY <1>2, EachIsList
<1>4. ASSUME NEW k \in DOMAIN lists PROVE IsList(lists[k]) /\ NoLicense(lists[k])
  <2> DEFINE x == Issue("test", 3)
  <2>1. lists[k] \in {<<x>>, <<>>} /\ ~IsInventory(x)
    BY <1>3, CategoryOfIssue
  <2> HIDE DEF x, lists
  <2>2. CASE lists[k] = <<x>>
    <3>1. <<x>> \in Seq({x})
      OBVIOUS
    <3>2. IsList(<<x>>)
      BY <3>1, SeqIsList, Zenon
    <3>3. NoLicense(<<x>>)
      BY <2>1 DEF NoLicense
    <3> QED BY <2>2, <3>2, <3>3
  <2>3. CASE lists[k] = <<>>
    <3>1. <<>> \in Seq({x})
      OBVIOUS
    <3>2. IsList(<<>>)
      BY <3>1, SeqIsList, Zenon
    <3>3. NoLicense(<<>>)
      BY DEF NoLicense
    <3> QED BY <2>3, <3>2, <3>3
  <2> QED BY <2>1, <2>2, <2>3
<1> HIDE DEF lists
<1> QED
  BY <1>1, <1>3, <1>4, NoneInAny

LEMMA PipAuditFindings ==
    ASSUME NEW d, WellFormed(d), PipAuditAccepts(d)
    PROVE  NoLicense(PipAuditFinds(d))
<1> DEFINE s == Dependencies(d)
           lists == [k \in DOMAIN s |-> [j \in DOMAIN s[k].vulns |-> Issue("sca", 3)]]
<1>1. PipAuditFinds(d) = FlattenSeq(lists)
  BY DEF PipAuditFinds, Each
<1>2. IsList(s) /\ \A k \in DOMAIN s : IsList(s[k].vulns)
  BY DEF WellFormed, PipAuditAccepts, Every
<1> HIDE DEF s
<1>3. IsList(lists) /\ DOMAIN lists = DOMAIN s
  BY <1>2, EachIsList
<1>4. ASSUME NEW k \in DOMAIN lists PROVE IsList(lists[k]) /\ NoLicense(lists[k])
  BY <1>2, EachIsList, CategoryOfIssue DEF NoLicense
<1> HIDE DEF lists
<1> QED
  BY <1>1, <1>3, <1>4, NoneInAny

LEMMA SarifFindings ==
    ASSUME NEW d, WellFormed(d), SarifAccepts(d)
    PROVE  NoLicense(SarifFinds(d))
<1> DEFINE s == d.runs
           lists == [k \in DOMAIN s |-> [j \in DOMAIN s[k].results |->
                        Issue("sast", ResultSeverity(s[k], s[k].results[j]))]]
<1>1. SarifFinds(d) = FlattenSeq(lists)
  BY DEF SarifFinds, Each
<1>2. IsList(s) /\ \A k \in DOMAIN s : IsList(s[k].results)
  BY DEF WellFormed, SarifAccepts, Every
<1> HIDE DEF s
<1>3. IsList(lists) /\ DOMAIN lists = DOMAIN s
  BY <1>2, EachIsList
<1>4. ASSUME NEW k \in DOMAIN lists PROVE IsList(lists[k]) /\ NoLicense(lists[k])
  BY <1>2, EachIsList, CategoryOfIssue DEF NoLicense
<1> HIDE DEF lists
<1> QED
  BY <1>1, <1>3, <1>4, NoneInAny

LEMMA InstancesListed ==
    ASSUME NEW a, IsList(a.instances)
    PROVE  IsList(SetToSeq(Instances(a))) /\ 1 \in DOMAIN SetToSeq(Instances(a))
<1>1. IsFiniteSet(DOMAIN a.instances)
  BY ListFacts, FS_Interval
<1>2. IsFiniteSet({a.instances[i].identity : i \in DOMAIN a.instances})
  <2> DEFINE g == [i \in DOMAIN a.instances |-> a.instances[i].identity]
             T == {a.instances[i].identity : i \in DOMAIN a.instances}
  <2>1. g \in Surjection(DOMAIN a.instances, T)
    BY DEF Surjection
  <2> QED BY <1>1, <2>1, FS_Surjection
<1>3. IsFiniteSet(Instances(a))
  BY <1>2, FS_Singleton DEF Instances
<1>4. Instances(a) # {}
  <2>1. CASE a.instances = <<>>
    BY <2>1 DEF Instances
  <2>2. CASE a.instances # <<>>
    <3>1. 1 \in DOMAIN a.instances
      BY <2>2, ListFacts, EmptySeq
    <3> QED BY <2>2, <3>1 DEF Instances
  <2> QED BY <2>1, <2>2
<1>5. 1 \in 1 .. Cardinality(Instances(a))
  BY <1>3, <1>4, FS_EmptySet, FS_CardinalityType
<1> QED
  BY <1>3, <1>5, ListOfSet

LEMMA ZapFindings ==
    ASSUME NEW d, WellFormed(d), ZapAccepts(d)
    PROVE  NoLicense(ZapFinds(d))
<1> DEFINE s == d.site
           Places(a) == [x \in DOMAIN SetToSeq(Instances(a)) |-> Issue("dast", a.risk)]
           Alerts(k) == [j \in DOMAIN s[k].alerts |-> Places(s[k].alerts[j])]
           lists == [k \in DOMAIN s |-> FlattenSeq(Alerts(k))]
<1>1. ZapFinds(d) = FlattenSeq(lists)
  BY DEF ZapFinds, Each
<1>2. IsList(s) /\ \A k \in DOMAIN s :
         /\ IsList(s[k].alerts)
         /\ \A j \in DOMAIN s[k].alerts : IsList(s[k].alerts[j].instances)
  BY DEF WellFormed, ZapAccepts, Every
<1> HIDE DEF s
<1>3. ASSUME NEW a, IsList(a.instances)
      PROVE  IsList(Places(a)) /\ NoLicense(Places(a))
  <2>1. IsList(SetToSeq(Instances(a)))
    BY <1>3, InstancesListed
  <2> QED BY <2>1, EachIsList, CategoryOfIssue DEF NoLicense
<1> HIDE DEF Places
<1>4. ASSUME NEW k \in DOMAIN s
      PROVE  IsList(Alerts(k)) /\ \A j \in DOMAIN Alerts(k) : IsList(Alerts(k)[j]) /\ NoLicense(Alerts(k)[j])
  BY <1>2, <1>3, EachIsList
<1> HIDE DEF Alerts
<1>5. IsList(lists) /\ DOMAIN lists = DOMAIN s
  BY <1>2, EachIsList
<1>6. ASSUME NEW k \in DOMAIN lists PROVE IsList(lists[k]) /\ NoLicense(lists[k])
  <2>1. lists[k] = FlattenSeq(Alerts(k))
    OBVIOUS
  <2>2. IsList(FlattenSeq(Alerts(k))) /\ NoLicense(FlattenSeq(Alerts(k)))
    BY <1>4, <1>5, Flattened, NoneInAny
  <2> QED BY <2>1, <2>2
<1> HIDE DEF lists
<1> QED
  BY <1>1, <1>5, <1>6, NoneInAny

LEMMA LicensesOfParts ==
    ASSUME NEW d, NEW c, IsList(d.parts[c].licenses),
           \A j \in DOMAIN d.parts[c].licenses : IsList(d.parts[c].licenses[j])
    PROVE  /\ IsList(LicensesOf(d, c)) /\ \A e \in Range(LicensesOf(d, c)) : IsList(e)
           /\ d.parts[c].licenses # <<>> => LicensesOf(d, c) = d.parts[c].licenses
           /\ d.parts[c].licenses = <<>> =>
                 Range(LicensesOf(d, c)) = IF c \in Range(d.subject) THEN {} ELSE {<<"UNKNOWN">>}
<1>1. IsList(<<>>) /\ Range(<<>>) = {}
  BY EmptySeq DEF IsList, Range
<1>2. IsList(<<"UNKNOWN">>)
  <2>1. <<"UNKNOWN">> \in Seq({"UNKNOWN"})
    OBVIOUS
  <2> QED BY <2>1, SeqIsList
<1> DEFINE none == <<"UNKNOWN">>
<1>3. IsList(<<none>>) /\ Range(<<none>>) = {none}
  <2> HIDE DEF none
  <2>1. <<none>> \in Seq({none}) /\ Range(<<none>>) = {none}
    BY DEF Range
  <2> QED BY <2>1, SeqIsList
<1>4. CASE d.parts[c].licenses # <<>>
  BY <1>4, ListFacts DEF LicensesOf
<1>5. CASE d.parts[c].licenses = <<>> /\ c \in Range(d.subject)
  BY <1>1, <1>5 DEF LicensesOf
<1>6. CASE d.parts[c].licenses = <<>> /\ c \notin Range(d.subject)
  <2>1. LicensesOf(d, c) = <<none>>
    BY <1>6 DEF LicensesOf
  <2>2. IsList(none)
    BY <1>2
  <2> HIDE DEF none
  <2>3. /\ IsList(LicensesOf(d, c)) /\ Range(LicensesOf(d, c)) = {none}
        /\ \A e \in Range(LicensesOf(d, c)) : IsList(e)
    BY <1>3, <2>1, <2>2
  <2> QED BY <1>6, <2>3 DEF none
<1> QED
  BY <1>4, <1>5, <1>6

LEMMA MaxOfOne ==
    ASSUME NEW n \in Nat
    PROVE  Max({1, n}) \in Nat /\ 1 \in 1 .. Max({1, n})
<1>1. CASE n <= 1
  <2>1. \A x \in {1, n} : 1 >= x
    BY <1>1
  <2> QED BY <2>1 DEF Max
<1>2. CASE ~(n <= 1)
  <2>1. \A x \in {1, n} : n >= x
    BY <1>2
  <2> QED BY <1>2, <2>1 DEF Max
<1> QED
  BY <1>1, <1>2

VulnerabilityLists(d) ==
    [k \in DOMAIN d.vulnerabilities |->
        [i \in 1 .. Max({1, Len(d.vulnerabilities[k].affects)}) |->
            Issue("sca", VulnerabilitySeverity(d.vulnerabilities[k]))]]
LicenseLists(d) ==
    LET all == AllComponents(d)
    IN  [k \in DOMAIN all |->
            [j \in DOMAIN LicensesOf(d, all[k]) |-> LicenseDetected(LicensesOf(d, all[k])[j])]]

LEMMA VulnerabilitiesAreNone ==
    ASSUME NEW d, IsList(d.vulnerabilities),
           \A k \in DOMAIN d.vulnerabilities : IsList(d.vulnerabilities[k].affects)
    PROVE  /\ IsList(FlattenSeq(VulnerabilityLists(d)))
           /\ NoLicense(FlattenSeq(VulnerabilityLists(d)))
<1> DEFINE s == d.vulnerabilities
           lists == VulnerabilityLists(d)
<1>1. IsList(lists) /\ DOMAIN lists = DOMAIN s
  BY EachIsList DEF VulnerabilityLists
<1>2. ASSUME NEW k \in DOMAIN lists PROVE IsList(lists[k]) /\ NoLicense(lists[k])
  <2> DEFINE n == Max({1, Len(s[k].affects)})
             f == lists[k]
  <2>1. n \in Nat
    BY <1>1, ListFacts, MaxOfOne
  <2>2. f = [i \in 1 .. n |-> Issue("sca", VulnerabilitySeverity(s[k]))]
    BY <1>1 DEF VulnerabilityLists
  <2> HIDE DEF n, f
  <2>3. DOMAIN f = 1 .. n /\ f = [i \in 1 .. n |-> f[i]] /\ \A i \in 1 .. n : f[i] \in Range(f)
    BY <2>2 DEF Range
  <2>4. f \in Seq(Range(f))
    BY <2>1, <2>3, AsSeq
  <2> QED BY <2>2, <2>4, CategoryOfIssue DEF IsList, NoLicense, f
<1> HIDE DEF lists
<1> QED
  BY <1>1, <1>2, Flattened, NoneInAny DEF lists

LEMMA CycloneDXLicenses ==
    ASSUME NEW d, WellFormed(d), CycloneDXAccepts(d)
    PROVE  Agreeing(LicensesAmong(CycloneDXFinds(d)), Expressions("cyclonedx", d))
<1> DEFINE part == d.parts
           D == DOMAIN part
           all == AllComponents(d)
           lists == LicenseLists(d)
           first == FlattenSeq(lists)
           second == FlattenSeq(VulnerabilityLists(d))
           A == LicensesAmong(CycloneDXFinds(d))
           B == Expressions("cyclonedx", d)
<1>1. /\ IsTree(d.parts, d.subject \o d.roots)
      /\ d.subject \in Seq(DOMAIN d.parts) /\ d.roots \in Seq(DOMAIN d.parts)
      /\ \A c \in D : IsList(part[c].licenses) /\ \A j \in DOMAIN part[c].licenses : IsList(part[c].licenses[j])
      /\ IsList(d.vulnerabilities)
      /\ \A k \in DOMAIN d.vulnerabilities : IsList(d.vulnerabilities[k].affects)
  BY DEF WellFormed, CycloneDXAccepts, Every
<1>2. IsList(all) /\ Range(all) = D
  <2>1. all \in Seq(D) /\ Range(all) = D
    BY <1>1, AllComponentsWalked
  <2> HIDE DEF all, D
  <2> QED BY <2>1, SeqIsList
<1>3. ASSUME NEW c \in D
      PROVE  /\ IsList(LicensesOf(d, c)) /\ \A e \in Range(LicensesOf(d, c)) : IsList(e)
             /\ part[c].licenses # <<>> => LicensesOf(d, c) = part[c].licenses
             /\ part[c].licenses = <<>> =>
                   Range(LicensesOf(d, c)) = IF c \in Range(d.subject) THEN {} ELSE {<<"UNKNOWN">>}
  BY <1>1, LicensesOfParts
<1>4. CycloneDXFinds(d) = first \o second
  BY DEF CycloneDXFinds, Each, LicenseLists, VulnerabilityLists
<1>5. IsList(second) /\ NoLicense(second)
  BY <1>1, VulnerabilitiesAreNone
<1>6. /\ IsList(lists) /\ DOMAIN lists = DOMAIN all
      /\ \A k \in DOMAIN lists :
            lists[k] = [j \in DOMAIN LicensesOf(d, all[k]) |-> LicenseDetected(LicensesOf(d, all[k])[j])]
  BY <1>2, EachIsList DEF LicenseLists
<1> HIDE DEF part, D, all, lists
<1>7. ASSUME NEW k \in DOMAIN lists
      PROVE  all[k] \in D /\ IsList(lists[k]) /\ DOMAIN lists[k] = DOMAIN LicensesOf(d, all[k])
  <2>1. all[k] \in D
    BY <1>2, <1>6, ListFacts
  <2> QED BY <1>3, <1>6, <2>1, EachIsList
<1>8. IsList(first) /\ Range(first) = UNION {Range(lists[k]) : k \in DOMAIN lists}
  BY <1>6, <1>7, Flattened
<1> HIDE DEF first, second
<1>9. Range(first \o second) = Range(first) \cup Range(second)
  <2> DEFINE S == Range(first) \cup Range(second)
  <2>1. first \in Seq(Range(first)) /\ second \in Seq(Range(second))
    BY <1>5, <1>8, ListFacts
  <2>2. first \in Seq(S) /\ second \in Seq(S)
    BY <2>1, SeqMonotonic
  <2> HIDE DEF S
  <2> QED BY <2>2, JoinedLists, Zenon
<1>10. A = UNION {Range(LicensesOf(d, c)) : c \in D}
  <2>1. ASSUME NEW a \in A
        PROVE  \E c \in D : a \in Range(LicensesOf(d, c))
    <3>1. PICK f \in Range(first) \cup Range(second) : IsInventory(f) /\ a = f.license
      BY <1>4, <1>9 DEF LicensesAmong
    <3>2. f \in Range(first)
      BY <1>5, <3>1 DEF NoLicense, Range
    <3>3. PICK k \in DOMAIN lists : f \in Range(lists[k])
      BY <1>8, <3>2
    <3>4. PICK j \in DOMAIN LicensesOf(d, all[k]) : f = LicenseDetected(LicensesOf(d, all[k])[j])
      BY <1>6, <1>7, <3>3 DEF Range
    <3>5. a = LicensesOf(d, all[k])[j]
      BY <3>1, <3>4, LicenseOfDetected
    <3> QED BY <1>7, <3>5 DEF Range
  <2>2. ASSUME NEW c \in D, NEW a \in Range(LicensesOf(d, c))
        PROVE  a \in A
    <3>1. PICK k \in DOMAIN all : all[k] = c
      BY <1>2, ListFacts
    <3>2. PICK j \in DOMAIN LicensesOf(d, c) : a = LicensesOf(d, c)[j]
      BY <2>2 DEF Range
    <3>3. LicenseDetected(a) \in Range(lists[k]) /\ k \in DOMAIN lists
      BY <1>6, <1>7, <3>1, <3>2 DEF Range
    <3>4. LicenseDetected(a) \in Range(first \o second)
      BY <1>8, <1>9, <3>3
    <3> QED BY <1>4, <3>4, LicenseOfDetected DEF LicensesAmong
  <2> HIDE DEF A
  <2> QED BY <2>1, <2>2
<1>11. B = UNION {IF part[c].licenses # <<>> THEN Range(part[c].licenses)
                  ELSE IF c \in Range(d.subject) THEN {} ELSE {<<>>} : c \in D}
  BY DEF Expressions, part, D
<1>12. IsList(<<>>) /\ <<>> \in Blanks /\ <<"UNKNOWN">> \in Blanks
  BY EmptySeq DEF IsList, Range, Blanks
<1> HIDE DEF A, B
<1>13. Answered(A, B)
  <2> SUFFICES ASSUME NEW a \in A PROVE IsList(a) /\ \E b \in B : Alike(a, b)
    BY DEF Answered
  <2>1. PICK c \in D : a \in Range(LicensesOf(d, c))
    BY <1>10
  <2>2. IsList(a)
    BY <1>3, <2>1
  <2>3. CASE part[c].licenses # <<>>
    <3>1. a \in Range(part[c].licenses)
      BY <1>3, <2>1, <2>3
    <3>2. a \in B
      BY <1>11, <2>3, <3>1
    <3> QED BY <2>2, <3>2 DEF Alike
  <2>4. CASE part[c].licenses = <<>>
    <3>1. a = <<"UNKNOWN">> /\ c \notin Range(d.subject)
      BY <1>3, <2>1, <2>4
    <3>2. <<>> \in B
      BY <1>11, <2>4, <3>1
    <3>3. Alike(a, <<>>)
      BY <1>12, <3>1 DEF Alike
    <3> QED BY <2>2, <3>2, <3>3
  <2> QED BY <2>3, <2>4
<1>14. Answered(B, A)
  <2> SUFFICES ASSUME NEW b \in B PROVE IsList(b) /\ \E a \in A : Alike(b, a)
    BY DEF Answered
  <2>1. PICK c \in D : b \in IF part[c].licenses # <<>> THEN Range(part[c].licenses)
                             ELSE IF c \in Range(d.subject) THEN {} ELSE {<<>>}
    BY <1>11
  <2>2. CASE part[c].licenses # <<>>
    <3>1. b \in Range(LicensesOf(d, c))
      BY <1>3, <2>1, <2>2
    <3>2. b \in A /\ IsList(b)
      BY <1>3, <1>10, <3>1
    <3> QED BY <3>2 DEF Alike
  <2>3. CASE part[c].licenses = <<>>
    <3>1. b = <<>> /\ c \notin Range(d.subject)
      BY <2>1, <2>3
    <3>2. <<"UNKNOWN">> \in Range(LicensesOf(d, c))
      BY <1>3, <2>3, <3>1
    <3>3. <<"UNKNOWN">> \in A
      BY <1>10, <3>2
    <3>4. Alike(b, <<"UNKNOWN">>)
      BY <1>12, <3>1 DEF Alike
    <3> QED BY <1>12, <3>1, <3>3, <3>4
  <2> QED BY <2>2, <2>3
<1> QED
  BY <1>13, <1>14 DEF Agreeing, A, B

(* Every report that is accepted *)
LEMMA LicensesAgree ==
    ASSUME NEW kind, NEW d, WellFormed(d), Accepts(kind, d)
    PROVE  Agreeing(LicensesIn(ScanOf(kind, d)), Expressions(kind, d))
<1>1. LicensesIn(ScanOf(kind, d)) = LicensesAmong(Finds(kind, d))
  BY LicensesAreAmong
<1>2. Agreeing({}, {})
  BY AlikeThemselves
<1>3. CASE kind = "normalized"
  BY <1>1, <1>3, NormalizedLicenses DEF Accepts, Finds
<1>4. CASE kind = "trivy"
  BY <1>1, <1>4, TrivyLicenses DEF Accepts, Finds
<1>5. CASE kind = "cyclonedx"
  BY <1>1, <1>5, CycloneDXLicenses DEF Accepts, Finds
<1>6. CASE kind \notin {"normalized", "trivy", "cyclonedx"}
  <2>1. Expressions(kind, d) = {}
    BY <1>6 DEF Expressions
  <2>2. CASE kind = "semgrep"
    BY <1>1, <1>2, <2>1, <2>2, PlainFindings, NoneAmong DEF Finds
  <2>3. CASE kind = "ruff"
    BY <1>1, <1>2, <2>1, <2>3, PlainFindings, NoneAmong DEF Finds
  <2>4. CASE kind = "junit"
    BY <1>1, <1>2, <2>1, <2>4, JUnitFindings, NoneAmong DEF Finds, Accepts
  <2>5. CASE kind = "coverage"
    BY <1>1, <1>2, <2>1, <2>5, PlainFindings, NoneAmong DEF Finds
  <2>6. CASE kind = "pip-audit"
    BY <1>1, <1>2, <2>1, <2>6, PipAuditFindings, NoneAmong DEF Finds, Accepts
  <2>7. CASE kind = "zap"
    BY <1>1, <1>2, <2>1, <2>7, ZapFindings, NoneAmong DEF Finds, Accepts
  <2>8. CASE kind = "sarif"
    BY <1>1, <1>2, <2>1, <2>8, SarifFindings, NoneAmong DEF Finds, Accepts
  <2>9. kind \in {"semgrep", "ruff", "junit", "coverage", "pip-audit", "zap", "sarif"}
    BY <1>6 DEF Accepts
  <2> QED BY <2>2, <2>3, <2>4, <2>5, <2>6, <2>7, <2>8, <2>9
<1> QED
  BY <1>3, <1>4, <1>5, <1>6

-----------------------------------------------------------------------------
(* Every path that was told is copied or still to be copied. *)

CopiedInv ==
    /\ reader # Idle => reader.path = Head(todo)
    /\ \A p \in Told : p \in Paths /\ (copies[p] # NoCopy \/ p \in Range(todo))

LEMMA CopiedInit == Init => CopiedInv
<1> SUFFICES ASSUME Init PROVE CopiedInv
  OBVIOUS
<1>1. todo = <<PolicyPath>> /\ reports = <<>> /\ attestations = <<>> /\ reader = Idle
  BY DEF Init, SnapshotInit
<1>2. Told = {PolicyPath} /\ Range(todo) = {PolicyPath}
  BY <1>1 DEF Told, Range
<1> QED
  BY <1>1, <1>2, IntakeAssumption DEF CopiedInv

LEMMA HeadOrTail ==
    ASSUME NEW S, NEW s \in Seq(S), s # <<>>
    PROVE  Range(s) = {Head(s)} \cup Range(Tail(s))
<1>1. Head(s) \in S /\ Tail(s) \in Seq(S) /\ s = <<Head(s)>> \o Tail(s)
  BY HeadTailJoined, EmptySeq
<1> DEFINE one == <<Head(s)>>
<1>2. one \in Seq(S) /\ Range(one) = {Head(s)}
  BY <1>1 DEF Range
<1> HIDE DEF one
<1>3. Range(one \o Tail(s)) = Range(one) \cup Range(Tail(s))
  <2>1. one \in Seq(S) /\ Tail(s) \in Seq(S)
    BY <1>1, <1>2
  <2> QED BY <2>1, JoinedLists, Zenon
<1> QED
  BY <1>1, <1>2, <1>3 DEF one

LEMMA CopiedStep ==
    ASSUME IntakeInv, BudgetInv, CopiedInv, [Next]_vars
    PROVE  CopiedInv'
<1>1. BudgetInv' /\ IntakeInv'
  BY BudgetStep, IntakeStep
<1>2. CASE Open
  <2>1. /\ todo # <<>> /\ reader' = [path |-> Head(todo), inode |-> disk[Head(todo)]]
        /\ copies' = [copies EXCEPT ![Head(todo)] = <<>>] /\ UNCHANGED <<todo, reports, attestations>>
    BY <1>2 DEF Open, OpenSource, service
  <2>2. Told' = Told
    BY <2>1 DEF Told
  <2>3. <<>> # NoCopy
    BY SnapshotsAssumption, EmptySeq
  <2> QED BY <2>1, <2>2, <2>3 DEF CopiedInv, BudgetInv, SnapshotTyped
<1>3. CASE CopyMore
  <2>1. /\ reader # Idle /\ UNCHANGED <<reader, todo, reports, attestations>>
        /\ \E c : copies' = [copies EXCEPT ![reader.path] = c]
    BY <1>3 DEF CopyMore, CopyChunk, service
  <2>2. Told' = Told /\ copies'[reader.path] # NoCopy
    BY <1>1, <2>1 DEF Told, BudgetInv, SnapshotTyped
  <2> QED BY <2>1, <2>2 DEF CopiedInv, BudgetInv, SnapshotTyped
<1>4. CASE CopyEnds
  <2>1. /\ reader # Idle /\ reader' = Idle /\ todo' = Tail(todo)
        /\ UNCHANGED <<copies, reports, attestations>>
    BY <1>4 DEF CopyEnds, EndOfFile
  <2>2. Told' = Told
    BY <2>1 DEF Told
  <2>3. todo # <<>> /\ todo \in Seq(Paths) /\ reader.path = Head(todo) /\ copies[reader.path] # NoCopy
    BY <2>1 DEF IntakeInv, OnlyTold, BudgetInv, SnapshotTyped, CopiedInv
  <2>4. Range(todo) = {Head(todo)} \cup Range(todo')
    BY <2>1, <2>3, HeadOrTail
  <2> QED BY <2>1, <2>2, <2>3, <2>4 DEF CopiedInv
<1>5. CASE CopyRefused
  <2>1. UNCHANGED <<todo, reports, attestations>>
    BY <1>5 DEF CopyRefused, Refuse
  <2>2. Told' = Told
    BY <2>1 DEF Told
  <2>3. CASE UNCHANGED snapshotVars
    BY <2>1, <2>2, <2>3 DEF CopiedInv, snapshotVars
  <2>4. CASE Overflow
    <3>1. reader # Idle /\ reader' = Idle /\ copies' = [copies EXCEPT ![reader.path] = NoCopy]
      BY <2>4 DEF Overflow
    <3>2. todo # <<>> /\ todo \in Seq(Paths) /\ reader.path = Head(todo)
      BY <3>1 DEF IntakeInv, OnlyTold, BudgetInv, SnapshotTyped, CopiedInv
    <3>3. reader.path \in Range(todo)
      BY <3>2, HeadOrTail
    <3> QED BY <2>1, <2>2, <3>1, <3>3 DEF CopiedInv, BudgetInv, SnapshotTyped
  <2> QED BY <1>5, <2>3, <2>4 DEF CopyRefused
<1>6. CASE ListReports \/ ListAttestations
  <2>1. /\ reader = Idle /\ todo = <<>> /\ UNCHANGED <<copies, reader>>
        /\ todo' \in Seq(Paths)
    BY <1>1, <1>6 DEF ListReports, ListAttestations, CopiedAll, snapshotVars, BudgetInv, SnapshotTyped
  <2>2. Range(todo) = {} /\ Range(todo') \subseteq Paths
    BY <2>1, SeqIsList DEF Range
  <2>3. Told' \subseteq Told \cup Range(todo')
    <3>1. CASE UNCHANGED <<reports, attestations>>
      BY <3>1 DEF Told
    <3>2. CASE reports' = ReportEntries /\ todo' = Each(LAMBDA r : r.path, ReportEntries)
               /\ UNCHANGED attestations
      <4>1. \A i \in DOMAIN reports' : reports'[i].path \in Range(todo')
        BY <3>2 DEF Each, Range
      <4> QED BY <3>2, <4>1 DEF Told
    <3>3. CASE attestations' = todo' /\ UNCHANGED reports
      <4>1. \A i \in DOMAIN attestations' : attestations'[i] \in Range(todo')
        BY <3>3 DEF Range
      <4> QED BY <3>3, <4>1 DEF Told
    <3> QED BY <1>6, <3>1, <3>2, <3>3 DEF ListReports, ListAttestations, Refuse
  <2> QED BY <2>1, <2>2, <2>3 DEF CopiedInv
<1>7. CASE ParseReport \/ LoadPolicy \/ BindAttestations \/ Judge \/ Archive \/ Others \/ UNCHANGED vars
  <2>1. UNCHANGED <<copies, reader, todo, reports, attestations>>
    BY <1>7 DEF ParseReport, LoadPolicy, BindAttestations, Judge, Archive, Others, Refuse, vars,
                service, snapshotVars
  <2>2. Told' = Told
    BY <2>1 DEF Told
  <2> QED BY <2>1, <2>2 DEF CopiedInv
<1> QED
  BY <1>2, <1>3, <1>4, <1>5, <1>6, <1>7 DEF Next

(* When all is copied, what was told has its blocks. *)
LEMMA ToldIsCopied ==
    ASSUME BudgetInv, CopiedInv, CopiedAll, NEW p \in Told
    PROVE  p \in Paths /\ copies[p] \in Seq(Blocks)
<1>1. Range(todo) = {}
  BY DEF CopiedAll, Range
<1> QED
  BY <1>1 DEF CopiedInv, BudgetInv, SnapshotTyped

-----------------------------------------------------------------------------
(* Only what parses well is judged, and it is judged by the policy. *)

LEMMA DocumentsWellFormed ==
    ASSUME NEW b \in Seq(Blocks)
    PROVE  /\ WellFormed(DocumentOf(b))
           /\ "allowed" \in DOMAIN DocumentOf(b) => Stripped(DocumentOf(b))
<1>1. WellFormed(Unreadable) /\ "allowed" \notin DOMAIN Unreadable
  BY DEF WellFormed, Unreadable, NormalizedKeys
<1>2. CASE DocumentOf(b) = Unreadable
  BY <1>1, <1>2
<1>3. CASE DocumentOf(b) # Unreadable
  <2>1. b # <<>> /\ DocumentOf(b) = b[1].doc
    BY <1>3 DEF DocumentOf
  <2>2. b[1] \in Blocks
    <3>1. Len(b) \in Nat \ {0}
      BY <2>1, EmptySeq
    <3> QED BY <3>1, ElementOfSeq
  <2> QED BY <2>1, <2>2, DocumentsAssumption
<1> QED
  BY <1>2, <1>3

AcceptedScan(i) ==
    /\ Accepts(scans[i].result.kind, DocumentOf(scans[i].digest))
    /\ scans[i].digest \in Seq(Blocks)

JudgedInv ==
    /\ \A i \in DOMAIN scans : AcceptedScan(i)
    /\ pc \in After => "allowed" \in DOMAIN policy
    /\ pc \in {"archive", "done"} =>
          objections = Objections(UNION {LicensesIn(scans[i].result) : i \in DOMAIN scans}, policy)

LEMMA JudgedInit == Init => JudgedInv
BY DEF Init, JudgedInv, After

LEMMA JudgedParse ==
    ASSUME IntakeInv, BudgetInv, CopiedInv, JudgedInv, ParseReport
    PROVE  JudgedInv'
<1> DEFINE k == Len(scans) + 1
           entry == reports[k]
           d == DocumentOf(Input(entry.path))
           x == [path |-> entry.path, provenance |-> NoProvenance, digest |-> Input(entry.path),
                 result |-> ScanOf(Kind(entry), d)]
<1>1. pc = "copy_attestations" /\ CopiedAll /\ Len(scans) < Len(reports)
  BY DEF ParseReport
<1>2. CASE Refuse
  BY <1>2 DEF Refuse, JudgedInv, AcceptedScan, After
<1>3. CASE /\ Accepts(Kind(entry), d) /\ scans' = Append(scans, x)
           /\ UNCHANGED <<request, pc, todo, reports, attestations, policy, objections, archive>>
  <2>1. PICK S : scans \in Seq(S)
    BY DEF IntakeInv, ScansRight
  <2>2. DOMAIN scans' = 1 .. k /\ scans'[k] = x /\ \A i \in DOMAIN scans : scans'[i] = scans[i]
    <3> HIDE DEF x
    <3> QED BY <1>3, <2>1, Appended
  <2>3. Len(scans) \in Nat /\ DOMAIN scans = 1 .. Len(scans)
    BY <2>1, LenProperties
  <2>4. k \in DOMAIN reports
    BY <1>1, <2>3 DEF IntakeInv, ScansRight
  <2>5. copies[entry.path] \in Seq(Blocks)
    <3>1. entry.path \in Told
      BY <2>4 DEF Told
    <3> QED BY <1>1, <3>1, ToldIsCopied
  <2>6. x.digest = copies[entry.path] /\ x.result.kind = Kind(entry)
    BY DEF Input, ScanOf
  <2>7. Accepts(x.result.kind, DocumentOf(x.digest)) /\ x.digest \in Seq(Blocks)
    BY <1>3, <2>5, <2>6 DEF Input
  <2> HIDE DEF x
  <2>8. ASSUME NEW i \in DOMAIN scans' PROVE AcceptedScan(i)'
    <3>1. CASE i = k
      BY <2>2, <2>7, <3>1 DEF AcceptedScan
    <3>2. CASE i # k
      <4>1. i \in DOMAIN scans /\ scans'[i] = scans[i]
        BY <2>2, <2>3, <3>2
      <4> QED BY <4>1 DEF JudgedInv, AcceptedScan
    <3> QED BY <3>1, <3>2
  <2> QED BY <1>1, <1>3, <2>8 DEF JudgedInv, After
<1> QED
  BY <1>2, <1>3 DEF ParseReport

LEMMA JudgedBind ==
    ASSUME IntakeInv, JudgedInv, BindAttestations
    PROVE  JudgedInv'
<1>1. pc = "bind"
  BY DEF BindAttestations
<1>2. CASE Refuse
  BY <1>2 DEF Refuse, JudgedInv, AcceptedScan, After
<1>3. CASE /\ scans' = [i \in DOMAIN scans |->
                            IF scans[i].digest \in Attested
                               THEN [scans[i] EXCEPT !.provenance = scans[i].digest]
                               ELSE scans[i]]
           /\ pc' = "judge" /\ UNCHANGED policy
  <2>1. ASSUME NEW i \in DOMAIN scans' PROVE AcceptedScan(i)'
    <3>1. i \in DOMAIN scans /\ ScanRight(i) /\ AcceptedScan(i)
      BY <1>3 DEF IntakeInv, ScansRight, JudgedInv
    <3>2. scans'[i].digest = scans[i].digest /\ scans'[i].result = scans[i].result
      BY <1>3, <3>1 DEF ScanRight, Shape
    <3> QED BY <3>1, <3>2 DEF AcceptedScan
  <2> QED BY <1>1, <1>3, <2>1 DEF JudgedInv, After
<1> QED
  BY <1>2, <1>3 DEF BindAttestations

LEMMA JudgedStep ==
    ASSUME IntakeInv, BudgetInv, CopiedInv, JudgedInv, [Next]_vars
    PROVE  JudgedInv'
<1>1. CASE /\ UNCHANGED <<scans, policy, objections>>
           /\ pc' = pc \/ pc' \in Copying \cup {"refused"}
  BY <1>1 DEF JudgedInv, AcceptedScan, After, Copying
<1>2. CASE Open \/ CopyMore \/ CopyEnds \/ CopyRefused \/ ListReports \/ ListAttestations
           \/ Others \/ UNCHANGED vars
  <2>1. /\ UNCHANGED <<scans, policy, objections>>
        /\ pc' = pc \/ pc' \in Copying \cup {"refused"}
    BY <1>2 DEF Open, CopyMore, CopyEnds, CopyRefused, ListReports, ListAttestations, Others, Refuse,
                service, vars, Copying
  <2> QED BY <1>1, <2>1
<1>3. CASE LoadPolicy
  <2>1. CASE Refuse
    BY <1>1, <2>1 DEF Refuse
  <2>2. CASE "allowed" \in DOMAIN policy' /\ pc' = "bind" /\ UNCHANGED <<scans, objections>>
    BY <2>2 DEF JudgedInv, AcceptedScan
  <2> QED BY <1>3, <2>1, <2>2 DEF LoadPolicy
<1>4. CASE Judge
  BY <1>4 DEF Judge, JudgedInv, AcceptedScan, After
<1>5. CASE Archive
  BY <1>5 DEF Archive, JudgedInv, AcceptedScan, After
<1> QED
  BY <1>2, <1>3, <1>4, <1>5, JudgedParse, JudgedBind DEF Next

(* When the licences are judged, each report was accepted as what it is a     *)
(* complete copy of, under a policy that was complete as well.                *)
THEOREM JudgedInvHolds == Spec => [](CopiedInv /\ JudgedInv)
<1>1. Init => CopiedInv /\ JudgedInv
  BY CopiedInit, JudgedInit
<1>2. IntakeInv /\ BudgetInv /\ CopiedInv /\ JudgedInv /\ [Next]_vars => (CopiedInv /\ JudgedInv)'
  BY CopiedStep, JudgedStep
<1> QED
  BY <1>1, <1>2, IntakeInvHolds, BudgetInvHolds, PTL DEF Spec

LEMMA SameObjections ==
    ASSUME NEW A, NEW B, Agreeing(A, B), NEW p, NoNameless(p)
    PROVE  Objections(A, p) = {Code(Worth(e, p)) : e \in {x \in B : Worth(x, p) # ALLOWED}}
<1>1. ASSUME NEW a, IsList(a) PROVE Evaluate(a, p) = Worth(a, p)
  BY <1>1, EvaluateIsWorth DEF IsList
<1>2. ASSUME NEW a, NEW b, Alike(a, b) PROVE Worth(a, p) = Worth(b, p)
  <2>1. CASE a = b
    BY <2>1
  <2>2. CASE a \in Blanks /\ b \in Blanks
    BY <2>2 DEF Worth
  <2> QED BY <1>2, <2>1, <2>2 DEF Alike
<1>3. ASSUME NEW a \in A, Evaluate(a, p) # ALLOWED
      PROVE  \E b \in B : Worth(b, p) # ALLOWED /\ Code(Evaluate(a, p)) = Code(Worth(b, p))
  <2>1. PICK b \in B : Alike(a, b) /\ IsList(a)
    BY DEF Agreeing, Answered
  <2>2. Evaluate(a, p) = Worth(b, p)
    BY <1>1, <1>2, <2>1
  <2> QED BY <1>3, <2>2
<1>4. ASSUME NEW b \in B, Worth(b, p) # ALLOWED
      PROVE  \E a \in A : Evaluate(a, p) # ALLOWED /\ Code(Evaluate(a, p)) = Code(Worth(b, p))
  <2>1. PICK a \in A : Alike(b, a) /\ IsList(a)
    <3>1. PICK a \in A : Alike(b, a)
      BY DEF Agreeing, Answered
    <3> QED BY <3>1 DEF Agreeing, Answered
  <2>2. Evaluate(a, p) = Worth(b, p)
    BY <1>1, <1>2, <2>1
  <2> QED BY <1>4, <2>1, <2>2
<1>5. Objections(A, p) = {Code(Evaluate(e, p)) : e \in {x \in A : Evaluate(x, p) # ALLOWED}}
  BY DEF Objections
<1> QED
  BY <1>3, <1>4, <1>5

(* licenses.py:112 and the parsers: when a gate has judged, its licence       *)
(* violations are exactly those of the licences in the reports it accepted,   *)
(* of components at any depth of an SBOM, each worth what its alternatives    *)
(* are under the policy that was copied, however reports, policy and          *)
(* expressions look.                                                          *)
THEOREM LicensesAreHonoured == Spec => []LicensesHonoured
<1>1. ASSUME IntakeInv, BudgetInv, CopiedInv, JudgedInv
      PROVE  LicensesHonoured
  <2> SUFFICES ASSUME pc = "done"
               PROVE  objections = {Code(Worth(e, policy)) :
                         e \in {x \in UNION {Expressions(scans[i].result.kind, DocumentOf(scans[i].digest)) :
                                              i \in DOMAIN scans} : Worth(x, policy) # ALLOWED}}
    BY DEF LicensesHonoured
  <2> DEFINE L(i) == LicensesIn(scans[i].result)
             E(i) == Expressions(scans[i].result.kind, DocumentOf(scans[i].digest))
             A == UNION {L(i) : i \in DOMAIN scans}
             B == UNION {E(i) : i \in DOMAIN scans}
  <2>1. ASSUME NEW i \in DOMAIN scans
        PROVE  Agreeing(L(i), E(i))
    <3> DEFINE d == DocumentOf(scans[i].digest)
               kind == scans[i].result.kind
    <3>1. Accepts(kind, d) /\ WellFormed(d)
      BY <1>1, DocumentsWellFormed DEF JudgedInv, AcceptedScan
    <3>2. scans[i].result = ScanOf(kind, d)
      BY <1>1 DEF IntakeInv, ScansRight, ScanRight
    <3> HIDE DEF d, kind
    <3>3. Agreeing(LicensesIn(ScanOf(kind, d)), Expressions(kind, d))
      BY <3>1, LicensesAgree
    <3> QED BY <3>2, <3>3 DEF d, kind
  <2> HIDE DEF L, E
  <2>2. Agreeing(A, B)
    BY <2>1 DEF Agreeing, Answered
  <2>3. policy = DocumentOf(copies[PolicyPath]) /\ "allowed" \in DOMAIN policy /\ CopiedAll
    BY <1>1 DEF IntakeInv, Concluded, Order, JudgedInv, After
  <2>4. copies[PolicyPath] \in Seq(Blocks)
    <3>1. PolicyPath \in Told
      BY DEF Told
    <3> QED BY <1>1, <2>3, <3>1, ToldIsCopied
  <2>5. NoNameless(policy)
    <3>1. Stripped(policy)
      BY <2>3, <2>4, DocumentsWellFormed
    <3>2. ASSUME NEW x, Listed(<<"", "WITH", x>>, policy) PROVE FALSE
      <4> DEFINE e == <<"", "WITH", x>>
      <4>1. e # <<>> /\ e[1] = ""
        OBVIOUS
      <4>2. e \in policy.allowed \cup policy.review \cup policy.denied
        BY <3>2 DEF Listed
      <4> HIDE DEF e
      <4> QED BY <3>1, <4>1, <4>2 DEF Stripped
    <3> QED BY <3>2 DEF NoNameless
  <2>6. objections = Objections(A, policy)
    BY <1>1 DEF JudgedInv, L
  <2> HIDE DEF A, B
  <2>7. objections = {Code(Worth(e, policy)) : e \in {x \in B : Worth(x, policy) # ALLOWED}}
    BY <2>2, <2>5, <2>6, SameObjections
  <2> QED BY <2>7 DEF B, E
<1> QED
  BY <1>1, IntakeInvHolds, BudgetInvHolds, JudgedInvHolds, PTL

-----------------------------------------------------------------------------
(* One list of findings covers another if each element of the other has one  *)
(* here of its own, of its category and no milder.                           *)

NoMilder(f, c) ==
    /\ f.category = c.category
    /\ f.severity \in Int /\ c.severity \in Int /\ f.severity >= c.severity
Covering(s, t, h) == h \in Injection(DOMAIN t, DOMAIN s) /\ \A i \in DOMAIN t : NoMilder(s[h[i]], t[i])
Covers(s, t) == \E h : Covering(s, t, h)

LEMMA CoversCount ==
    ASSUME NEW s, IsList(s), NEW t, Covers(s, t), NEW i \in DOMAIN t
    PROVE  Count(s, t[i].category, t[i].severity) >= Count(t, t[i].category, t[i].severity)
<1> DEFINE c == t[i].category
           n == t[i].severity
           A == {k \in DOMAIN t : t[k].category = c /\ t[k].severity >= n}
           B == {k \in DOMAIN s : s[k].category = c /\ s[k].severity >= n}
<1>1. PICK h : Covering(s, t, h)
  BY DEF Covers
<1> DEFINE g == [k \in A |-> h[k]]
<1>2. n \in Int
  BY <1>1 DEF Covering, NoMilder
<1>3. ASSUME NEW k \in A PROVE h[k] \in B
  BY <1>1, <1>2 DEF Covering, NoMilder, Injection
<1>4. g \in Injection(A, B)
  BY <1>1, <1>3 DEF Covering, Injection, IsInjective
<1>5. IsFiniteSet(B)
  <2>1. IsFiniteSet(DOMAIN s)
    BY ListFacts, FS_Interval
  <2> QED BY <2>1, FS_Subset
<1> HIDE DEF A, B, g
<1>6. /\ IsFiniteSet(A) /\ Cardinality(A) <= Cardinality(B)
      /\ Cardinality(A) \in Nat /\ Cardinality(B) \in Nat
  BY <1>4, <1>5, FS_Injection, FS_CardinalityType
<1> QED
  BY <1>6 DEF Count, A, B

LEMMA CoversSome ==
    ASSUME NEW s, NEW t, IsList(t), Covers(s, t), t # <<>>
    PROVE  s # <<>>
<1>1. 1 \in DOMAIN t
  BY ListFacts, EmptySeq
<1>2. PICK h : Covering(s, t, h)
  BY DEF Covers
<1>3. h[1] \in DOMAIN s
  BY <1>1, <1>2 DEF Covering, Injection
<1> QED
  BY <1>3

LEMMA CoversNothing ==
    ASSUME NEW s
    PROVE  Covers(s, <<>>)
<1> DEFINE h == [i \in {} |-> i]
<1>1. Covering(s, <<>>, h)
  BY DEF Covering, Injection, IsInjective
<1> QED
  BY <1>1 DEF Covers

LEMMA CoversPointwise ==
    ASSUME NEW s, NEW t, DOMAIN s = DOMAIN t, \A i \in DOMAIN t : NoMilder(s[i], t[i])
    PROVE  Covers(s, t)
<1> DEFINE h == [i \in DOMAIN t |-> i]
<1>1. Covering(s, t, h)
  BY DEF Covering, Injection, IsInjective
<1> QED
  BY <1>1 DEF Covers

LEMMA Joined ==
    ASSUME NEW s, IsList(s), NEW t, IsList(t)
    PROVE  /\ IsList(s \o t) /\ Len(s \o t) = Len(s) + Len(t)
           /\ \A i \in 1 .. Len(s) + Len(t) :
                 (s \o t)[i] = IF i <= Len(s) THEN s[i] ELSE t[i - Len(s)]
<1> DEFINE S == Range(s) \cup Range(t)
<1>1. s \in Seq(Range(s)) /\ t \in Seq(Range(t)) /\ Range(s) \subseteq S /\ Range(t) \subseteq S
  BY DEF IsList
<1> HIDE DEF S
<1>2. s \in Seq(S) /\ t \in Seq(S)
  BY <1>1, SeqMonotonic
<1>3. s \o t \in Seq(S)
  BY <1>2, ConcatProperties
<1>4. IsList(s \o t)
  BY <1>3, SeqIsList, Zenon
<1> QED
  BY <1>2, <1>4, ConcatProperties

LEMMA CoversJoined ==
    ASSUME NEW s, NEW t, NEW u, NEW v, IsList(s), IsList(t), IsList(u), IsList(v),
           Covers(s, t), Covers(u, v)
    PROVE  Covers(s \o u, t \o v)
<1>1. PICK f : Covering(s, t, f)
  BY DEF Covers
<1>2. PICK g : Covering(u, v, g)
  BY DEF Covers
<1>3. /\ Len(s) \in Nat /\ DOMAIN s = 1 .. Len(s) /\ Len(t) \in Nat /\ DOMAIN t = 1 .. Len(t)
      /\ Len(u) \in Nat /\ DOMAIN u = 1 .. Len(u) /\ Len(v) \in Nat /\ DOMAIN v = 1 .. Len(v)
  BY ListFacts
<1> DEFINE a == s \o u
           b == t \o v
           m == Len(s)
           n == Len(t)
           h == [i \in 1 .. n + Len(v) |-> IF i <= n THEN f[i] ELSE m + g[i - n]]
<1>4. /\ DOMAIN a = 1 .. m + Len(u) /\ DOMAIN b = 1 .. n + Len(v)
      /\ \A i \in 1 .. m + Len(u) : a[i] = IF i <= m THEN s[i] ELSE u[i - m]
      /\ \A i \in 1 .. n + Len(v) : b[i] = IF i <= n THEN t[i] ELSE v[i - n]
  BY Joined, ListFacts
<1> HIDE DEF a, b
<1>5. ASSUME NEW i \in 1 .. n
      PROVE  h[i] = f[i] /\ f[i] \in 1 .. m /\ NoMilder(a[h[i]], b[i])
  <2>1. i \in 1 .. n + Len(v) /\ i <= n
    BY <1>3
  <2>2. f[i] \in 1 .. m /\ NoMilder(s[f[i]], t[i])
    BY <1>1, <1>3 DEF Covering, Injection
  <2>3. h[i] = f[i]
    BY <2>1
  <2>4. a[f[i]] = s[f[i]] /\ b[i] = t[i]
    BY <1>3, <1>4, <2>1, <2>2
  <2> QED BY <2>2, <2>3, <2>4
<1>6. ASSUME NEW i \in 1 .. n + Len(v), ~(i <= n)
      PROVE  /\ i - n \in 1 .. Len(v) /\ h[i] = m + g[i - n] /\ g[i - n] \in 1 .. Len(u)
             /\ NoMilder(a[h[i]], b[i])
  <2>1. i - n \in 1 .. Len(v)
    BY <1>3, <1>6
  <2>2. g[i - n] \in 1 .. Len(u) /\ NoMilder(u[g[i - n]], v[i - n])
    BY <1>2, <1>3, <2>1 DEF Covering, Injection
  <2>3. h[i] = m + g[i - n]
    BY <1>6
  <2>4. b[i] = v[i - n]
    BY <1>4, <1>6
  <2>5. a[m + g[i - n]] = u[g[i - n]]
    <3> DEFINE k == m + g[i - n]
    <3>1. k \in 1 .. m + Len(u) /\ ~(k <= m) /\ k - m = g[i - n]
      BY <1>3, <2>2
    <3> HIDE DEF k
    <3>2. a[k] = u[k - m]
      BY <1>4, <3>1
    <3> QED BY <3>1, <3>2 DEF k
  <2> QED BY <2>1, <2>2, <2>3, <2>4, <2>5
<1> HIDE DEF h
<1>7. ASSUME NEW i \in 1 .. n + Len(v), NEW j \in 1 .. n + Len(v), h[i] = h[j]
      PROVE  i = j
  <2>1. CASE i <= n /\ j <= n
    <3>1. i \in 1 .. n /\ j \in 1 .. n
      BY <1>3, <2>1
    <3>2. f[i] = f[j]
      BY <1>5, <1>7, <3>1
    <3> QED BY <1>1, <1>3, <3>1, <3>2 DEF Covering, Injection, IsInjective
  <2>2. CASE ~(i <= n) /\ ~(j <= n)
    <3>1. g[i - n] = g[j - n] /\ i - n \in 1 .. Len(v) /\ j - n \in 1 .. Len(v)
      BY <1>3, <1>6, <1>7, <2>2
    <3>2. i - n = j - n
      BY <1>2, <1>3, <3>1 DEF Covering, Injection, IsInjective
    <3> QED BY <1>3, <3>2
  <2>3. CASE i <= n /\ ~(j <= n)
    <3>1. i \in 1 .. n
      BY <1>3, <2>3
    <3>2. h[i] \in 1 .. m /\ h[j] = m + g[j - n] /\ g[j - n] \in 1 .. Len(u)
      BY <1>5, <1>6, <2>3, <3>1
    <3> QED BY <1>3, <1>7, <3>2
  <2>4. CASE ~(i <= n) /\ j <= n
    <3>1. j \in 1 .. n
      BY <1>3, <2>4
    <3>2. h[j] \in 1 .. m /\ h[i] = m + g[i - n] /\ g[i - n] \in 1 .. Len(u)
      BY <1>5, <1>6, <2>4, <3>1
    <3> QED BY <1>3, <1>7, <3>2
  <2> QED BY <2>1, <2>2, <2>3, <2>4
<1>8. ASSUME NEW i \in 1 .. n + Len(v)
      PROVE  h[i] \in DOMAIN a /\ NoMilder(a[h[i]], b[i])
  <2>1. CASE i <= n
    <3>1. i \in 1 .. n
      BY <1>3, <2>1
    <3>2. h[i] \in 1 .. m /\ NoMilder(a[h[i]], b[i])
      BY <1>5, <3>1
    <3> QED BY <1>3, <1>4, <3>2
  <2>2. CASE ~(i <= n)
    <3>1. h[i] = m + g[i - n] /\ g[i - n] \in 1 .. Len(u) /\ NoMilder(a[h[i]], b[i])
      BY <1>6, <2>2
    <3> QED BY <1>3, <1>4, <3>1
  <2> QED BY <2>1, <2>2
<1>9. h \in Injection(DOMAIN b, DOMAIN a)
  <2>1. h = [i \in 1 .. n + Len(v) |-> h[i]]
    BY DEF h
  <2>2. h \in [DOMAIN b -> DOMAIN a]
    BY <1>4, <1>8, <2>1
  <2> QED BY <1>4, <1>7, <2>2 DEF Injection, IsInjective
<1>10. Covering(a, b, h)
  BY <1>4, <1>8, <1>9 DEF Covering
<1> QED
  BY <1>10 DEF Covers, a, b

LEMMA CoversFlattened ==
    ASSUME NEW s, NEW t, IsList(s), IsList(t), DOMAIN s = DOMAIN t,
           \A i \in DOMAIN t : IsList(s[i]) /\ IsList(t[i]) /\ Covers(s[i], t[i])
    PROVE  Covers(FlattenSeq(s), FlattenSeq(t))
<1> DEFINE n == Len(t)
<1>1. n \in Nat /\ DOMAIN t = 1 .. n /\ Len(s) = n
  BY ListFacts
<1>2. CASE n = 0
  BY <1>1, <1>2, FlattenedNone, CoversNothing
<1>3. CASE n # 0
  <2>1. PICK f : Flattens(s, Len(s), f) /\ FlattenSeq(s) = f[Len(s)]
    BY <1>1, <1>3, FlattenedLast
  <2>2. PICK g : Flattens(t, Len(t), g) /\ FlattenSeq(t) = g[Len(t)]
    BY <1>3, FlattenedLast
  <2>3. \A i \in 1 .. n : IsList(f[i]) /\ IsList(g[i])
    <3>1. \A i \in 1 .. Len(s) : IsList(f[i])
      BY <2>1, FlattenParts
    <3>2. \A i \in 1 .. Len(t) : IsList(g[i])
      BY <2>2, FlattenParts
    <3> QED BY <1>1, <3>1, <3>2
  <2> DEFINE B == {i \in Nat : i \in 1 .. n => Covers(f[i], g[i])}
  <2>4. ASSUME NEW i \in Nat, 0 .. (i - 1) \subseteq B, i \in 1 .. n
        PROVE  Covers(f[i], g[i])
    <3>1. f[i] = FlattenStep(s, f, i) /\ g[i] = FlattenStep(t, g, i)
      BY <1>1, <2>1, <2>2, <2>4 DEF Flattens
    <3>2. IsList(s[i]) /\ IsList(t[i]) /\ Covers(s[i], t[i])
      BY <1>1, <2>4
    <3>3. CASE i = 1
      BY <3>1, <3>2, <3>3 DEF FlattenStep
    <3>4. CASE i # 1
      <4>1. i - 1 \in 0 .. (i - 1) /\ i - 1 \in 1 .. n
        BY <1>1, <2>4, <3>4
      <4>2. Covers(f[i - 1], g[i - 1]) /\ IsList(f[i - 1]) /\ IsList(g[i - 1])
        BY <2>3, <2>4, <4>1
      <4>3. f[i] = f[i - 1] \o s[i] /\ g[i] = g[i - 1] \o t[i]
        BY <3>1, <3>4 DEF FlattenStep
      <4>4. Covers(f[i - 1] \o s[i], g[i - 1] \o t[i])
        BY <3>2, <4>2, CoversJoined
      <4> QED BY <4>3, <4>4
    <3> QED BY <3>3, <3>4
  <2>5. Nat \subseteq B
    <3>1. \A i \in Nat : 0 .. (i - 1) \subseteq B => i \in B
      BY <2>4
    <3> HIDE DEF B
    <3> QED BY <3>1, NumbersBelow
  <2>6. Covers(f[n], g[n])
    BY <1>1, <1>3, <2>5
  <2> QED BY <1>1, <2>1, <2>2, <2>6
<1> QED
  BY <1>2, <1>3

(* A list of lists of one element each is the list of these elements. *)
LEMMA FlattenedOnes ==
    ASSUME NEW t, IsList(t)
    PROVE  FlattenSeq([j \in DOMAIN t |-> <<t[j]>>]) = t
<1> DEFINE s == [j \in DOMAIN t |-> <<t[j]>>]
           n == Len(t)
<1> SUFFICES FlattenSeq(s) = t
  OBVIOUS
<1>1. n \in Nat /\ DOMAIN t = 1 .. n
  BY ListFacts
<1>2. IsList(s) /\ Len(s) = n
  BY EachIsList
<1>3. ASSUME NEW j \in 1 .. n
      PROVE  IsList(s[j]) /\ Len(s[j]) = 1 /\ s[j][1] = t[j]
  <2> DEFINE x == t[j]
  <2>1. s[j] = <<x>>
    BY <1>1
  <2> HIDE DEF s, x
  <2>2. <<x>> \in Seq({x}) /\ Len(<<x>>) = 1 /\ <<x>>[1] = x
    OBVIOUS
  <2>3. IsList(<<x>>)
    BY <2>2, SeqIsList, Zenon
  <2> QED BY <2>1, <2>2, <2>3 DEF x
<1> HIDE DEF s
<1>4. CASE n = 0
  BY <1>1, <1>2, <1>4, FlattenedNone, EmptySeq
<1>5. CASE n # 0
  <2>1. PICK f : Flattens(s, n, f) /\ FlattenSeq(s) = f[n]
    BY <1>2, <1>5, FlattenedLast
  <2> DEFINE Right(i) == IsList(f[i]) /\ Len(f[i]) = i /\ \A k \in 1 .. i : f[i][k] = t[k]
             B == {i \in Nat : i \in 1 .. n => Right(i)}
  <2>2. ASSUME NEW i \in Nat, 0 .. (i - 1) \subseteq B, i \in 1 .. n
        PROVE  Right(i)
    <3>1. f[i] = FlattenStep(s, f, i)
      BY <2>1, <2>2 DEF Flattens
    <3>2. CASE i = 1
      BY <1>3, <2>2, <3>1, <3>2 DEF FlattenStep
    <3>3. CASE i # 1
      <4>1. i - 1 \in 0 .. (i - 1) /\ i - 1 \in 1 .. n
        BY <1>1, <2>2, <3>3
      <4>2. Right(i - 1)
        BY <2>2, <4>1
      <4> DEFINE a == f[i - 1]
                 b == s[i]
      <4>3. f[i] = a \o b
        BY <3>1, <3>3 DEF FlattenStep
      <4>4. IsList(a) /\ Len(a) = i - 1 /\ IsList(b) /\ Len(b) = 1 /\ b[1] = t[i]
        BY <1>3, <2>2, <4>2
      <4> HIDE DEF a, b
      <4>5. /\ IsList(a \o b) /\ Len(a \o b) = i
            /\ \A k \in 1 .. i : (a \o b)[k] = IF k <= i - 1 THEN a[k] ELSE b[k - (i - 1)]
        <5>1. /\ IsList(a \o b) /\ Len(a \o b) = Len(a) + Len(b)
              /\ \A k \in 1 .. Len(a) + Len(b) :
                    (a \o b)[k] = IF k <= Len(a) THEN a[k] ELSE b[k - Len(a)]
          BY <4>4, Joined, Zenon
        <5>2. Len(a) + Len(b) = i
          BY <2>2, <4>4
        <5> QED BY <4>4, <5>1, <5>2
      <4>6. ASSUME NEW k \in 1 .. i PROVE (a \o b)[k] = t[k]
        <5>1. CASE k <= i - 1
          <6>1. k \in 1 .. (i - 1)
            BY <2>2, <5>1
          <6> QED BY <4>2, <4>5, <5>1, <6>1 DEF a
        <5>2. CASE ~(k <= i - 1)
          <6>1. k = i /\ k - (i - 1) = 1
            BY <2>2, <5>2
          <6> QED BY <4>4, <4>5, <5>2, <6>1
        <5> QED BY <5>1, <5>2
      <4> QED BY <4>3, <4>5, <4>6
    <3> QED BY <3>2, <3>3
  <2>3. Nat \subseteq B
    <3>1. \A i \in Nat : 0 .. (i - 1) \subseteq B => i \in B
      BY <2>2
    <3> HIDE DEF B
    <3> QED BY <3>1, NumbersBelow
  <2>4. Right(n)
    BY <1>1, <1>5, <2>3
  <2>5. f[n] = t
    <3>1. f[n] \in Seq(Range(f[n])) /\ t \in Seq(Range(t))
      BY <2>4 DEF IsList
    <3>2. f[n] = [k \in 1 .. n |-> f[n][k]] /\ t = [k \in 1 .. n |-> t[k]]
      BY <1>1, <2>4, <3>1, LenProperties
    <3> QED BY <2>4, <3>2
  <2> QED BY <2>1, <2>5
<1> QED
  BY <1>4, <1>5

(* A list of lists covers a list if each of them has something for its place. *)
LEMMA CoversPlaces ==
    ASSUME NEW s, NEW t, IsList(s), IsList(t), DOMAIN s = DOMAIN t,
           \A j \in DOMAIN t : IsList(s[j]) /\ \E k \in DOMAIN s[j] : NoMilder(s[j][k], t[j])
    PROVE  Covers(FlattenSeq(s), t)
<1> DEFINE u == [j \in DOMAIN t |-> <<t[j]>>]
<1>1. IsList(u) /\ DOMAIN u = DOMAIN t
  BY EachIsList
<1>2. ASSUME NEW j \in DOMAIN t
      PROVE  IsList(u[j]) /\ Covers(s[j], u[j])
  <2> DEFINE x == t[j]
  <2>1. u[j] = <<x>>
    OBVIOUS
  <2>2. PICK k \in DOMAIN s[j] : NoMilder(s[j][k], x)
    OBVIOUS
  <2> HIDE DEF u, x
  <2>3. <<x>> \in Seq({x}) /\ DOMAIN <<x>> = {1} /\ <<x>>[1] = x
    OBVIOUS
  <2>4. IsList(<<x>>)
    BY <2>3, SeqIsList, Zenon
  <2> DEFINE h == [i \in {1} |-> k]
             one == <<x>>
  <2> HIDE DEF one
  <2>5. DOMAIN one = {1} /\ one[1] = x
    BY <2>3 DEF one
  <2>6. Covering(s[j], one, h)
    BY <2>2, <2>5 DEF Covering, Injection, IsInjective
  <2> QED BY <2>1, <2>4, <2>6 DEF Covers, one
<1>3. FlattenSeq(u) = t
  BY FlattenedOnes
<1> HIDE DEF u
<1>4. Covers(FlattenSeq(s), FlattenSeq(u))
  BY <1>1, <1>2, CoversFlattened
<1> QED
  BY <1>3, <1>4

-----------------------------------------------------------------------------
(* What each format finds covers what it claims. *)

Kept(s, t) == IsList(s) /\ IsList(t) /\ Covers(s, t)

LEMMA KeptPointwise ==
    ASSUME NEW x, IsList(x), NEW s, NEW t, s = [i \in DOMAIN x |-> s[i]], t = [i \in DOMAIN x |-> t[i]],
           \A i \in DOMAIN x : NoMilder(s[i], t[i])
    PROVE  Kept(s, t)
<1>1. IsList(s) /\ IsList(t) /\ DOMAIN s = DOMAIN t /\ DOMAIN t = DOMAIN x
  BY EachIsList
<1> QED
  BY <1>1, CoversPointwise DEF Kept

LEMMA KeptFlattened ==
    ASSUME NEW x, IsList(x), NEW s, NEW t, s = [i \in DOMAIN x |-> s[i]], t = [i \in DOMAIN x |-> t[i]],
           \A i \in DOMAIN x : Kept(s[i], t[i])
    PROVE  Kept(FlattenSeq(s), FlattenSeq(t))
<1>1. IsList(s) /\ IsList(t) /\ DOMAIN s = DOMAIN t /\ DOMAIN t = DOMAIN x
  BY EachIsList
<1>2. IsList(FlattenSeq(s)) /\ IsList(FlattenSeq(t))
  BY <1>1, Flattened DEF Kept
<1>3. Covers(FlattenSeq(s), FlattenSeq(t))
  BY <1>1, CoversFlattened DEF Kept
<1> QED
  BY <1>2, <1>3 DEF Kept

LEMMA SeverityNumbers ==
    ASSUME NEW text
    PROVE  SeverityParse(text) \in 0 .. 5 /\ OfLevel(text) \in 0 .. 5
BY DEF SeverityParse, OfLevel, UNKNOWN

LEMMA ScoreNumbers ==
    ASSUME NEW score \in Scores, score # NoScore, score # BadScore
    PROVE  /\ OfScore(score, 0) \in 0 .. 5 /\ OfScore(score, 1) \in 0 .. 5
           /\ OfScore(score, 1) >= OfScore(score, 0)
<1>1. score \in 0 .. 100
  BY DEF Scores, NoScore, BadScore
<1>2. CASE score >= 90
  BY <1>1, <1>2 DEF OfScore
<1>3. CASE score \in 70 .. 89
  BY <1>3 DEF OfScore
<1>4. CASE score \in 40 .. 69
  BY <1>4 DEF OfScore
<1>5. CASE score \in 1 .. 39
  BY <1>5 DEF OfScore
<1>6. CASE score = 0
  BY <1>6 DEF OfScore
<1> QED
  BY <1>1, <1>2, <1>3, <1>4, <1>5, <1>6

(* What the words, the levels and the scores mean is what the parsers make of *)
(* them.                                                                      *)
LEMMA WordsMean ==
    ASSUME NEW text
    PROVE  Meaning(Words, text) = SeverityParse(text)
<1>1. /\ DOMAIN Words = 1 .. 5
      /\ Words[1] = {"info", "note"} /\ Words[2] = {"low"} /\ Words[3] = {"medium", "warning"}
      /\ Words[4] = {"high", "error"} /\ Words[5] = {"critical"}
  BY DEF Words
<1>2. ASSUME NEW i \in 1 .. 5, text \in Words[i]
      PROVE  Meaning(Words, text) = i - 1
  <2>1. \A j \in 1 .. 5 : text \in Words[j] => j = i
    BY <1>1, <1>2
  <2>2. (CHOOSE j \in DOMAIN Words : text \in Words[j]) = i
    BY <1>1, <1>2, <2>1
  <2> QED BY <1>1, <1>2, <2>2 DEF Meaning
<1>3. CASE \A i \in 1 .. 5 : text \notin Words[i]
  <2>1. Meaning(Words, text) = UNKNOWN
    BY <1>1, <1>3 DEF Meaning
  <2>2. text \notin {"critical", "high", "error", "medium", "warning", "low", "info", "note"}
    BY <1>1, <1>3
  <2> QED BY <2>1, <2>2 DEF SeverityParse
<1>4. CASE text \in Words[1]
  BY <1>1, <1>2, <1>4 DEF SeverityParse
<1>5. CASE text \in Words[2]
  BY <1>1, <1>2, <1>5 DEF SeverityParse
<1>6. CASE text \in Words[3]
  BY <1>1, <1>2, <1>6 DEF SeverityParse
<1>7. CASE text \in Words[4]
  BY <1>1, <1>2, <1>7 DEF SeverityParse
<1>8. CASE text \in Words[5]
  BY <1>1, <1>2, <1>8 DEF SeverityParse
<1> QED
  BY <1>3, <1>4, <1>5, <1>6, <1>7, <1>8

LEMMA LevelsMean ==
    ASSUME NEW text
    PROVE  Meaning(Levels, text) = OfLevel(text)
<1>1. /\ DOMAIN Levels = 1 .. 4
      /\ Levels[1] = {"none"} /\ Levels[2] = {"note"}
      /\ Levels[3] = {"warning"} /\ Levels[4] = {"error"}
  BY DEF Levels
<1>2. ASSUME NEW i \in 1 .. 4, text \in Levels[i]
      PROVE  Meaning(Levels, text) = i - 1
  <2>1. \A j \in 1 .. 4 : text \in Levels[j] => j = i
    BY <1>1, <1>2
  <2>2. (CHOOSE j \in DOMAIN Levels : text \in Levels[j]) = i
    BY <1>1, <1>2, <2>1
  <2> QED BY <1>1, <1>2, <2>2 DEF Meaning
<1>3. CASE \A i \in 1 .. 4 : text \notin Levels[i]
  <2>1. Meaning(Levels, text) = UNKNOWN
    BY <1>1, <1>3 DEF Meaning
  <2>2. text \notin {"none", "note", "warning", "error"}
    BY <1>1, <1>3
  <2> QED BY <2>1, <2>2 DEF OfLevel
<1>4. CASE text \in Levels[1]
  BY <1>1, <1>2, <1>4 DEF OfLevel
<1>5. CASE text \in Levels[2]
  BY <1>1, <1>2, <1>5 DEF OfLevel
<1>6. CASE text \in Levels[3]
  BY <1>1, <1>2, <1>6 DEF OfLevel
<1>7. CASE text \in Levels[4]
  BY <1>1, <1>2, <1>7 DEF OfLevel
<1> QED
  BY <1>3, <1>4, <1>5, <1>6, <1>7

LEMMA BandIs ==
    ASSUME NEW score \in 0 .. 100
    PROVE  Band(score) = OfScore(score, 0)
<1> DEFINE In(n) == /\ n > 0 => score >= Bounds[n]
                    /\ n < 4 => score < Bounds[n + 1]
           m == OfScore(score, 0)
<1>1. Bounds[1] = 1 /\ Bounds[2] = 40 /\ Bounds[3] = 70 /\ Bounds[4] = 90
  BY DEF Bounds
<1>2. /\ In(0) <=> score < 1
      /\ In(1) <=> score >= 1 /\ score < 40
      /\ In(2) <=> score >= 40 /\ score < 70
      /\ In(3) <=> score >= 70 /\ score < 90
      /\ In(4) <=> score >= 90
  BY <1>1
<1>3. /\ score >= 90 => m = 4
      /\ score >= 70 /\ score < 90 => m = 3
      /\ score >= 40 /\ score < 70 => m = 2
      /\ score >= 1 /\ score < 40 => m = 1
      /\ score < 1 => m = 0
  BY DEF OfScore
<1>4. Band(score) = CHOOSE n \in 0 .. 4 : In(n)
  BY DEF Band
<1> HIDE DEF In, m
<1>5. m \in 0 .. 4 /\ In(m)
  BY <1>2, <1>3
<1>6. \A n \in 0 .. 4 : In(n) => n = m
  BY <1>2, <1>3
<1> QED
  BY <1>4, <1>5, <1>6 DEF m

LEMMA NoMilderIssue ==
    ASSUME NEW c, NEW n \in Int, NEW m \in Int, m >= n
    PROVE  NoMilder(Issue(c, m), Claim(c, n))
BY DEF NoMilder, Issue, Claim

LEMMA NormalizedKept ==
    ASSUME NEW d, WellFormed(d), NormalizedAccepts(d)
    PROVE  Kept(NormalizedFinds(d), Claims("normalized", d))
<1> DEFINE x == d.findings
           s == [i \in DOMAIN x |-> [category |-> x[i].category, severity |-> SeverityParse(x[i].severity),
                                     license |-> x[i].license, dependency |-> x[i].dependency]]
           t == [i \in DOMAIN x |-> Claim(x[i].category, Meaning(Words, x[i].severity))]
<1>1. NormalizedFinds(d) = s /\ Claims("normalized", d) = t
  BY DEF NormalizedFinds, Claims, Each
<1>2. IsList(x)
  BY DEF WellFormed, NormalizedAccepts
<1>3. ASSUME NEW i \in DOMAIN x PROVE NoMilder(s[i], t[i])
  <2> DEFINE n == SeverityParse(x[i].severity)
  <2>1. n \in Int
    BY SeverityNumbers
  <2> HIDE DEF n
  <2>2. s[i].category = x[i].category /\ s[i].severity = n /\ t[i] = Claim(x[i].category, n)
    BY <1>3, WordsMean DEF n
  <2> QED BY <2>1, <2>2 DEF NoMilder, Claim
<1>4. s = [i \in DOMAIN x |-> s[i]] /\ t = [i \in DOMAIN x |-> t[i]]
  OBVIOUS
<1> HIDE DEF x, s, t
<1> QED
  BY <1>1, <1>2, <1>3, <1>4, KeptPointwise

LEMMA SemgrepKept ==
    ASSUME NEW d, WellFormed(d), SemgrepAccepts(d)
    PROVE  Kept(SemgrepFinds(d), Claims("semgrep", d))
<1> DEFINE x == d.results
           s == [i \in DOMAIN x |-> Issue("sast", SeverityParse(x[i].severity))]
           t == [i \in DOMAIN x |-> Claim("sast", Meaning(Words, x[i].severity))]
<1>1. SemgrepFinds(d) = s /\ Claims("semgrep", d) = t
  BY DEF SemgrepFinds, Claims, Each
<1>2. IsList(x)
  BY DEF WellFormed, SemgrepAccepts
<1>3. ASSUME NEW i \in DOMAIN x PROVE NoMilder(s[i], t[i])
  <2> DEFINE n == SeverityParse(x[i].severity)
  <2>1. n \in Int /\ n >= n
    BY SeverityNumbers
  <2>2. s[i] = Issue("sast", n) /\ t[i] = Claim("sast", n)
    BY <1>3, WordsMean
  <2> QED BY <2>1, <2>2, NoMilderIssue
<1>4. s = [i \in DOMAIN x |-> s[i]] /\ t = [i \in DOMAIN x |-> t[i]]
  OBVIOUS
<1> HIDE DEF x, s, t
<1> QED
  BY <1>1, <1>2, <1>3, <1>4, KeptPointwise

LEMMA RuffKept ==
    ASSUME NEW d, WellFormed(d), RuffAccepts(d)
    PROVE  Kept(RuffFinds(d), Claims("ruff", d))
<1> DEFINE x == d.list
           s == [i \in DOMAIN x |-> Issue("lint", IF x[i].family \in {"E", "F", "S", "B"} THEN 2 ELSE 1)]
           t == [i \in DOMAIN x |-> Claim("lint", 1)]
<1>1. RuffFinds(d) = s /\ Claims("ruff", d) = t
  BY DEF RuffFinds, Claims, Each
<1>2. IsList(x)
  BY DEF WellFormed, RuffAccepts, Dependencies
<1>3. ASSUME NEW i \in DOMAIN x PROVE NoMilder(s[i], t[i])
  BY NoMilderIssue
<1>4. s = [i \in DOMAIN x |-> s[i]] /\ t = [i \in DOMAIN x |-> t[i]]
  OBVIOUS
<1> HIDE DEF x, s, t
<1> QED
  BY <1>1, <1>2, <1>3, <1>4, KeptPointwise

LEMMA TrivyKept ==
    ASSUME NEW d, WellFormed(d), TrivyAccepts(d)
    PROVE  Kept(TrivyFinds(d), Claims("trivy", d))
<1> DEFINE x == d.Results
           Worst(y) == Claim(y.category, IF y.category = "license" THEN 0 ELSE Meaning(Words, y.severity))
           s == [k \in DOMAIN x |-> [i \in DOMAIN x[k].items |-> TrivyItem(x[k].items[i])]]
           t == [k \in DOMAIN x |-> [i \in DOMAIN x[k].items |-> Worst(x[k].items[i])]]
<1>1. TrivyFinds(d) = FlattenSeq(s) /\ Claims("trivy", d) = FlattenSeq(t)
  BY DEF TrivyFinds, Claims, Each
<1>2. IsList(x) /\ \A k \in DOMAIN x : IsList(x[k].items)
  BY DEF WellFormed, TrivyAccepts, Every
<1>3. ASSUME NEW y PROVE NoMilder(TrivyItem(y), Worst(y))
  <2>1. CASE y.category = "license"
    BY <2>1 DEF TrivyItem, LicenseDetected, NoMilder, Claim
  <2>2. CASE y.category # "license"
    <3> DEFINE n == SeverityParse(y.severity)
    <3>1. n \in Int /\ n >= n
      BY SeverityNumbers
    <3>2. TrivyItem(y) = Issue(y.category, n) /\ Worst(y) = Claim(y.category, n)
      BY <2>2, WordsMean DEF TrivyItem
    <3> QED BY <3>1, <3>2, NoMilderIssue
  <2> QED BY <2>1, <2>2
<1> HIDE DEF Worst, x
<1>4. ASSUME NEW k \in DOMAIN x PROVE Kept(s[k], t[k])
  <2> DEFINE u == s[k]
             v == t[k]
             y == x[k].items
  <2>1. u = [i \in DOMAIN y |-> TrivyItem(y[i])] /\ v = [i \in DOMAIN y |-> Worst(y[i])]
    OBVIOUS
  <2>2. IsList(y)
    BY <1>2
  <2> HIDE DEF u, v, y
  <2>3. u = [i \in DOMAIN y |-> u[i]] /\ v = [i \in DOMAIN y |-> v[i]]
    BY <2>1
  <2>4. \A i \in DOMAIN y : NoMilder(u[i], v[i])
    BY <1>3, <2>1
  <2>5. Kept(u, v)
    BY <2>2, <2>3, <2>4, KeptPointwise
  <2> QED BY <2>5 DEF u, v
<1>5. s = [k \in DOMAIN x |-> s[k]] /\ t = [k \in DOMAIN x |-> t[k]]
  OBVIOUS
<1> HIDE DEF s, t
<1> QED
  BY <1>1, <1>2, <1>4, <1>5, KeptFlattened

LEMMA PipAuditKept ==
    ASSUME NEW d, WellFormed(d), PipAuditAccepts(d)
    PROVE  Kept(PipAuditFinds(d), Claims("pip-audit", d))
<1> DEFINE x == Dependencies(d)
           s == [k \in DOMAIN x |-> [i \in DOMAIN x[k].vulns |-> Issue("sca", 3)]]
           t == [k \in DOMAIN x |-> [i \in DOMAIN x[k].vulns |-> Claim("sca", 3)]]
<1>1. PipAuditFinds(d) = FlattenSeq(s) /\ Claims("pip-audit", d) = FlattenSeq(t)
  BY DEF PipAuditFinds, Claims, Each
<1>2. IsList(x) /\ \A k \in DOMAIN x : IsList(x[k].vulns)
  BY DEF WellFormed, PipAuditAccepts, Every
<1>3. NoMilder(Issue("sca", 3), Claim("sca", 3))
  BY NoMilderIssue
<1> HIDE DEF x
<1>4. ASSUME NEW k \in DOMAIN x PROVE Kept(s[k], t[k])
  <2> DEFINE u == s[k]
             v == t[k]
             y == x[k].vulns
  <2>1. u = [i \in DOMAIN y |-> Issue("sca", 3)] /\ v = [i \in DOMAIN y |-> Claim("sca", 3)]
    OBVIOUS
  <2>2. IsList(y)
    BY <1>2
  <2> HIDE DEF u, v, y
  <2>3. u = [i \in DOMAIN y |-> u[i]] /\ v = [i \in DOMAIN y |-> v[i]]
    BY <2>1
  <2>4. \A i \in DOMAIN y : NoMilder(u[i], v[i])
    BY <1>3, <2>1
  <2>5. Kept(u, v)
    BY <2>2, <2>3, <2>4, KeptPointwise
  <2> QED BY <2>5 DEF u, v
<1>5. s = [k \in DOMAIN x |-> s[k]] /\ t = [k \in DOMAIN x |-> t[k]]
  OBVIOUS
<1> HIDE DEF s, t
<1> QED
  BY <1>1, <1>2, <1>4, <1>5, KeptFlattened

LEMMA MaxAlone ==
    ASSUME NEW n \in Int
    PROVE  Max({n}) = n
BY DEF Max

(* What a result and its rule say, if they say something, is what the parser *)
(* takes.                                                                    *)
LEMMA SaidIs ==
    ASSUME NEW run, NEW y, IsList(run.rules), IsInjective(Each(LAMBDA x : x.id, run.rules))
    PROVE  /\ ScoreOf(run, y) # NoScore => SarifStated(run, y) = {Band(ScoreOf(run, y))}
           /\ ScoreOf(run, y) = NoScore => SarifStated(run, y) = {Meaning(Levels, LevelOf(run, y))}
<1> DEFINE found == {i \in DOMAIN run.rules : run.rules[i].id = y.rule}
           rule == RuleOf(run, y.rule)
           scores == Said(y.score, {run.rules[i].score : i \in found}, NoScore)
           levels == Said(y.level, {run.rules[i].level : i \in found}, "")
<1>1. SarifStated(run, y) = IF scores # {} THEN {Band(n) : n \in scores}
                            ELSE {Meaning(Levels, l) : l \in IF levels # {} THEN levels ELSE {"warning"}}
  BY DEF SarifStated
<1>2. CASE found = {}
  <2>1. rule.level = "" /\ rule.score = NoScore
    BY <1>2 DEF RuleOf
  <2>2. scores = {y.score} \ {NoScore} /\ levels = {y.level} \ {""}
    BY <1>2 DEF Said
  <2> HIDE DEF rule, scores, levels
  <2>3. CASE y.score # NoScore
    <3>1. scores = {y.score} /\ ScoreOf(run, y) = y.score
      BY <2>2, <2>3 DEF ScoreOf
    <3> QED BY <1>1, <2>3, <3>1
  <2>4. CASE y.score = NoScore
    <3>1. scores = {} /\ ScoreOf(run, y) = NoScore
      BY <2>1, <2>2, <2>4 DEF ScoreOf, rule
    <3>2. levels = (IF y.level # "" THEN {y.level} ELSE {})
      BY <2>2
    <3>3. LevelOf(run, y) = IF y.level # "" THEN y.level ELSE "warning"
      BY <2>1 DEF LevelOf, rule
    <3> QED BY <1>1, <3>1, <3>2, <3>3
  <2> QED BY <2>3, <2>4
<1>3. CASE found # {}
  <2>1. PICK j \in found : rule = run.rules[j]
    BY <1>3 DEF RuleOf
  <2>2. found = {j}
    BY <2>1 DEF IsInjective, Each
  <2>3. /\ {run.rules[i].score : i \in found} = {rule.score}
        /\ {run.rules[i].level : i \in found} = {rule.level}
    BY <2>1, <2>2
  <2>4. /\ scores = (IF y.score # NoScore THEN {y.score} ELSE {rule.score}) \ {NoScore}
        /\ levels = (IF y.level # "" THEN {y.level} ELSE {rule.level}) \ {""}
    BY <2>3 DEF Said
  <2>5. /\ ScoreOf(run, y) = IF y.score # NoScore THEN y.score ELSE rule.score
        /\ LevelOf(run, y) = IF y.level # "" THEN y.level
                             ELSE IF rule.level # "" THEN rule.level ELSE "warning"
    BY DEF ScoreOf, LevelOf
  <2> HIDE DEF rule, scores, levels
  <2>6. scores = IF ScoreOf(run, y) # NoScore THEN {ScoreOf(run, y)} ELSE {}
    BY <2>4, <2>5
  <2>7. (IF levels # {} THEN levels ELSE {"warning"}) = {LevelOf(run, y)}
    BY <2>4, <2>5
  <2> QED BY <1>1, <2>6, <2>7
<1> QED
  BY <1>2, <1>3

LEMMA ResultKept ==
    ASSUME NEW run, NEW y, IsList(run.rules), IsInjective(Each(LAMBDA x : x.id, run.rules)),
           y.score \in Scores, \A i \in DOMAIN run.rules : run.rules[i].score \in Scores,
           ScoreOf(run, y) # BadScore
    PROVE  /\ ResultSeverity(run, y) \in Int /\ Max(SarifStated(run, y)) \in Int
           /\ ResultSeverity(run, y) >= Max(SarifStated(run, y))
<1> DEFINE score == ScoreOf(run, y)
           level == LevelOf(run, y)
<1>1. RuleOf(run, y.rule).score \in Scores
  <2> DEFINE found == {j \in DOMAIN run.rules : run.rules[j].id = y.rule}
  <2>1. CASE found = {}
    BY <2>1 DEF RuleOf, Scores, NoScore, BadScore
  <2>2. CASE found # {}
    <3>1. PICK j \in DOMAIN run.rules : RuleOf(run, y.rule) = run.rules[j]
      BY <2>2 DEF RuleOf
    <3> QED BY <3>1
  <2> QED BY <2>1, <2>2
<1>2. score \in Scores
  BY <1>1 DEF ScoreOf
<1>3. /\ score # NoScore => SarifStated(run, y) = {Band(score)}
      /\ score = NoScore => SarifStated(run, y) = {Meaning(Levels, level)}
  BY SaidIs
<1>4. ResultSeverity(run, y) = IF score # NoScore THEN OfScore(score, 1) ELSE OfLevel(level)
  BY DEF ResultSeverity
<1>5. score # BadScore
  OBVIOUS
<1> HIDE DEF score, level
<1>6. CASE score # NoScore
  <2>1. score \in 0 .. 100
    BY <1>2, <1>5, <1>6 DEF Scores, NoScore, BadScore
  <2>2. OfScore(score, 0) \in Int /\ OfScore(score, 1) \in Int /\ OfScore(score, 1) >= OfScore(score, 0)
    BY <1>2, <1>5, <1>6, ScoreNumbers
  <2>3. Max(SarifStated(run, y)) = OfScore(score, 0)
    BY <1>3, <1>6, <2>1, <2>2, BandIs, MaxAlone
  <2> QED BY <1>4, <1>6, <2>2, <2>3
<1>7. CASE score = NoScore
  <2>1. OfLevel(level) \in Int /\ OfLevel(level) >= OfLevel(level)
    BY SeverityNumbers
  <2>2. Max(SarifStated(run, y)) = OfLevel(level)
    BY <1>3, <1>7, <2>1, LevelsMean, MaxAlone
  <2> QED BY <1>4, <1>7, <2>1, <2>2
<1> QED
  BY <1>6, <1>7

LEMMA SarifKept ==
    ASSUME NEW d, WellFormed(d), SarifAccepts(d)
    PROVE  Kept(SarifFinds(d), Claims("sarif", d))
<1> DEFINE x == d.runs
           Worst(k, i) == Claim("sast", Max(SarifStated(x[k], x[k].results[i])))
           s == [k \in DOMAIN x |-> [i \in DOMAIN x[k].results |->
                                       Issue("sast", ResultSeverity(x[k], x[k].results[i]))]]
           t == [k \in DOMAIN x |-> [i \in DOMAIN x[k].results |-> Worst(k, i)]]
<1>1. SarifFinds(d) = FlattenSeq(s) /\ Claims("sarif", d) = FlattenSeq(t)
  BY DEF SarifFinds, Claims, Each
<1>2. IsList(x)
  BY DEF WellFormed, SarifAccepts
<1>3. ASSUME NEW k \in DOMAIN x
      PROVE  /\ IsList(x[k].results) /\ IsList(x[k].rules)
             /\ IsInjective(Each(LAMBDA r : r.id, x[k].rules))
             /\ \A i \in DOMAIN x[k].rules : x[k].rules[i].score \in Scores
             /\ \A i \in DOMAIN x[k].results : /\ x[k].results[i].score \in Scores
                                               /\ ScoreOf(x[k], x[k].results[i]) # BadScore
  BY DEF WellFormed, SarifAccepts, Every
<1> HIDE DEF x
<1>4. ASSUME NEW k \in DOMAIN x, NEW i \in DOMAIN x[k].results
      PROVE  NoMilder(Issue("sast", ResultSeverity(x[k], x[k].results[i])), Worst(k, i))
  <2> DEFINE m == ResultSeverity(x[k], x[k].results[i])
             n == Max(SarifStated(x[k], x[k].results[i]))
  <2>1. m \in Int /\ n \in Int /\ m >= n
    BY <1>3, <1>4, ResultKept
  <2> HIDE DEF m, n
  <2>2. NoMilder(Issue("sast", m), Claim("sast", n))
    BY <2>1, NoMilderIssue
  <2> QED BY <2>2 DEF m, n
<1> HIDE DEF Worst
<1>5. ASSUME NEW k \in DOMAIN x PROVE Kept(s[k], t[k])
  <2> DEFINE u == s[k]
             v == t[k]
             y == x[k].results
  <2>1. /\ u = [i \in DOMAIN y |-> Issue("sast", ResultSeverity(x[k], y[i]))]
        /\ v = [i \in DOMAIN y |-> Worst(k, i)]
    OBVIOUS
  <2>2. IsList(y) /\ \A i \in DOMAIN y : NoMilder(Issue("sast", ResultSeverity(x[k], y[i])), Worst(k, i))
    BY <1>3, <1>4
  <2> HIDE DEF u, v, y
  <2>3. u = [i \in DOMAIN y |-> u[i]] /\ v = [i \in DOMAIN y |-> v[i]]
    BY <2>1
  <2>4. \A i \in DOMAIN y : NoMilder(u[i], v[i])
    BY <2>1, <2>2
  <2>5. Kept(u, v)
    BY <2>2, <2>3, <2>4, KeptPointwise
  <2> QED BY <2>5 DEF u, v
<1>6. s = [k \in DOMAIN x |-> s[k]] /\ t = [k \in DOMAIN x |-> t[k]]
  OBVIOUS
<1> HIDE DEF s, t
<1> QED
  BY <1>1, <1>2, <1>5, <1>6, KeptFlattened

LEMMA ZapKept ==
    ASSUME NEW d, WellFormed(d), ZapAccepts(d)
    PROVE  Kept(ZapFinds(d), Claims("zap", d))
<1> DEFINE x == d.site
           Places(a) == [p \in DOMAIN SetToSeq(Instances(a)) |-> Issue("dast", a.risk)]
           Alerts(k) == [j \in DOMAIN x[k].alerts |-> Places(x[k].alerts[j])]
           s == [k \in DOMAIN x |-> FlattenSeq(Alerts(k))]
           t == [k \in DOMAIN x |-> [j \in DOMAIN x[k].alerts |-> Claim("dast", x[k].alerts[j].risk)]]
<1>1. ZapFinds(d) = FlattenSeq(s) /\ Claims("zap", d) = FlattenSeq(t)
  BY DEF ZapFinds, Claims, Each
<1>2. /\ IsList(x)
      /\ \A k \in DOMAIN x :
            /\ IsList(x[k].alerts)
            /\ \A j \in DOMAIN x[k].alerts :
                  IsList(x[k].alerts[j].instances) /\ x[k].alerts[j].risk \in 0 .. 4
  BY DEF WellFormed, ZapAccepts, Every
<1> HIDE DEF x
<1>3. ASSUME NEW a, IsList(a.instances), a.risk \in 0 .. 4
      PROVE  /\ IsList(Places(a))
             /\ \E p \in DOMAIN Places(a) : NoMilder(Places(a)[p], Claim("dast", a.risk))
  <2> DEFINE places == SetToSeq(Instances(a))
             u == Places(a)
  <2>1. IsList(places) /\ 1 \in DOMAIN places
    BY <1>3, InstancesListed
  <2>2. u = [p \in DOMAIN places |-> Issue("dast", a.risk)]
    OBVIOUS
  <2> HIDE DEF places, u
  <2>3. u = [p \in DOMAIN places |-> u[p]]
    BY <2>2
  <2>4. IsList(u) /\ DOMAIN u = DOMAIN places
    BY <2>1, <2>3, EachIsList
  <2>5. NoMilder(u[1], Claim("dast", a.risk))
    <3>1. u[1] = Issue("dast", a.risk) /\ a.risk \in Int /\ a.risk >= a.risk
      BY <1>3, <2>1, <2>2
    <3> QED BY <3>1, NoMilderIssue
  <2>6. \E p \in DOMAIN u : NoMilder(u[p], Claim("dast", a.risk))
    BY <2>1, <2>4, <2>5
  <2> QED BY <2>4, <2>6 DEF u
<1> HIDE DEF Places
<1>4. ASSUME NEW k \in DOMAIN x PROVE Kept(s[k], t[k])
  <2> DEFINE y == x[k].alerts
             u == Alerts(k)
             v == t[k]
  <2>1. s[k] = FlattenSeq(u) /\ u = [j \in DOMAIN y |-> Places(y[j])]
        /\ v = [j \in DOMAIN y |-> Claim("dast", y[j].risk)]
    OBVIOUS
  <2>2. IsList(y) /\ \A j \in DOMAIN y : IsList(y[j].instances) /\ y[j].risk \in 0 .. 4
    BY <1>2
  <2> HIDE DEF y, u, v
  <2>3. u = [j \in DOMAIN y |-> u[j]] /\ v = [j \in DOMAIN y |-> v[j]]
    BY <2>1
  <2>4. IsList(u) /\ IsList(v) /\ DOMAIN u = DOMAIN v /\ DOMAIN v = DOMAIN y
    BY <2>2, <2>3, EachIsList
  <2>5. \A j \in DOMAIN v : IsList(u[j]) /\ \E p \in DOMAIN u[j] : NoMilder(u[j][p], v[j])
    BY <1>3, <2>1, <2>2, <2>4
  <2>6. Covers(FlattenSeq(u), v)
    BY <2>4, <2>5, CoversPlaces
  <2>7. IsList(FlattenSeq(u))
    BY <2>4, <2>5, Flattened
  <2>8. Kept(FlattenSeq(u), v)
    BY <2>4, <2>6, <2>7 DEF Kept
  <2> QED BY <2>1, <2>8 DEF v
<1>5. s = [k \in DOMAIN x |-> s[k]] /\ t = [k \in DOMAIN x |-> t[k]]
  OBVIOUS
<1> HIDE DEF s, t
<1> QED
  BY <1>1, <1>2, <1>4, <1>5, KeptFlattened

LEMMA MaxOfSeverities ==
    ASSUME NEW S \in SUBSET (0 .. 5), S # {}
    PROVE  Max(S) \in S /\ \A n \in S : Max(S) >= n
<1> DEFINE T == {5 - n : n \in S}
<1>1. T \in SUBSET Nat /\ T # {}
  <2>1. ASSUME NEW n \in S PROVE 5 - n \in Nat
    <3>1. n \in 0 .. 5
      OBVIOUS
    <3> QED BY <3>1
  <2> QED BY <2>1
<1> HIDE DEF T
<1>2. PICK m \in T : \A n \in T : m <= n
  BY <1>1, LeastNumber
<1>3. PICK x \in S : m = 5 - x
  BY DEF T
<1>4. ASSUME NEW n \in S PROVE x >= n
  <2>1. 5 - n \in T
    BY DEF T
  <2>2. m <= 5 - n /\ n \in 0 .. 5 /\ x \in 0 .. 5
    BY <1>2, <2>1
  <2> QED BY <1>3, <2>2
<1> QED
  BY <1>4 DEF Max

LEMMA RatingKept ==
    ASSUME NEW r, r.score \in Scores, r.score # BadScore
    PROVE  /\ Rating(r) \in 0 .. 5
           /\ r.severity # "" => Rating(r) >= SeverityParse(r.severity)
           /\ r.score # NoScore => Rating(r) >= OfScore(r.score, 0)
<1> DEFINE first == IF r.severity = "" THEN {} ELSE {SeverityParse(r.severity)}
           second == IF r.score = NoScore THEN {} ELSE {OfScore(r.score, 0)}
           values == first \cup second
<1>1. first \subseteq 0 .. 5 /\ (r.severity # "" => SeverityParse(r.severity) \in first)
  BY SeverityNumbers
<1>2. second \subseteq 0 .. 5 /\ (r.score # NoScore => OfScore(r.score, 0) \in second)
  BY ScoreNumbers
<1>3. Rating(r) = IF values = {} THEN UNKNOWN ELSE Max(values)
  BY DEF Rating
<1> HIDE DEF first, second
<1>4. CASE values = {}
  <2>1. first = {} /\ second = {}
    BY <1>4
  <2>2. Rating(r) = 5
    BY <1>3, <1>4 DEF UNKNOWN
  <2>3. r.severity = "" /\ r.score = NoScore
    BY <1>1, <1>2, <2>1
  <2>4. Rating(r) \in 0 .. 5
    BY <2>2
  <2> QED BY <2>3, <2>4
<1>5. CASE values # {}
  <2>1. values \in SUBSET (0 .. 5)
    BY <1>1, <1>2
  <2>2. Max(values) \in values /\ \A n \in values : Max(values) >= n
    BY <1>5, <2>1, MaxOfSeverities
  <2> QED BY <1>1, <1>2, <1>3, <1>5, <2>1, <2>2
<1> QED
  BY <1>4, <1>5

LEMMA StatedIs ==
    ASSUME NEW v, \A i \in DOMAIN v.ratings : v.ratings[i].score \in Scores /\ v.ratings[i].score # BadScore
    PROVE  Stated(v) =
              {SeverityParse(v.ratings[i].severity) : i \in {j \in DOMAIN v.ratings : v.ratings[j].severity # ""}}
              \cup {OfScore(v.ratings[i].score, 0) : i \in {j \in DOMAIN v.ratings : v.ratings[j].score # NoScore}}
              \cup {0}
<1>1. \A i \in DOMAIN v.ratings : Meaning(Words, v.ratings[i].severity) = SeverityParse(v.ratings[i].severity)
  BY WordsMean
<1>2. ASSUME NEW i \in DOMAIN v.ratings, v.ratings[i].score # NoScore
      PROVE  Band(v.ratings[i].score) = OfScore(v.ratings[i].score, 0)
  <2>1. v.ratings[i].score \in 0 .. 100
    BY <1>2 DEF Scores, NoScore, BadScore
  <2> QED BY <2>1, BandIs
<1> QED
  BY <1>1, <1>2 DEF Stated

LEMMA VulnerabilityKept ==
    ASSUME NEW v, IsList(v.ratings),
           \A i \in DOMAIN v.ratings : v.ratings[i].score \in Scores /\ v.ratings[i].score # BadScore
    PROVE  /\ VulnerabilitySeverity(v) \in Int /\ Max(Stated(v)) \in Int
           /\ VulnerabilitySeverity(v) >= Max(Stated(v))
<1> DEFINE ratings == v.ratings
           A == {SeverityParse(ratings[i].severity) : i \in {j \in DOMAIN ratings : ratings[j].severity # ""}}
           B == {OfScore(ratings[i].score, 0) : i \in {j \in DOMAIN ratings : ratings[j].score # NoScore}}
           R == {Rating(ratings[i]) : i \in DOMAIN ratings}
           n == VulnerabilitySeverity(v)
<1>1. Stated(v) = A \cup B \cup {0}
  BY StatedIs
<1>2. A \subseteq 0 .. 5 /\ B \subseteq 0 .. 5
  BY SeverityNumbers, ScoreNumbers
<1>3. R \subseteq 0 .. 5
  BY RatingKept
<1>4. n = IF ratings = <<>> THEN UNKNOWN ELSE Max(R)
  BY DEF VulnerabilitySeverity
<1> HIDE DEF n, A, B
<1>5. n \in 0 .. 5 /\ \A m \in A \cup B : n >= m
  <2>1. CASE ratings = <<>>
    <3>1. n = 5
      BY <1>4, <2>1 DEF UNKNOWN
    <3>2. \A m \in A \cup B : m \in 0 .. 5
      BY <1>2
    <3> QED BY <3>1, <3>2
  <2>2. CASE ratings # <<>>
    <3>1. 1 \in DOMAIN ratings
      BY <2>2, ListFacts, EmptySeq
    <3>2. R # {}
      BY <3>1
    <3> HIDE DEF R
    <3>3. Max(R) \in R /\ \A m \in R : Max(R) >= m
      BY <1>3, <3>2, MaxOfSeverities
    <3>4. n = Max(R) /\ n \in 0 .. 5
      BY <1>3, <1>4, <2>2, <3>3
    <3>5. ASSUME NEW m \in A \cup B PROVE n >= m
      <4>1. PICK i \in DOMAIN ratings : Rating(ratings[i]) \in 0 .. 5 /\ Rating(ratings[i]) >= m
        BY RatingKept DEF A, B
      <4>2. Rating(ratings[i]) \in R
        BY <4>1 DEF R
      <4> DEFINE q == Rating(ratings[i])
      <4>3. n >= q /\ m \in 0 .. 5 /\ q \in 0 .. 5 /\ q >= m
        BY <1>2, <3>3, <3>4, <4>1, <4>2
      <4> HIDE DEF q
      <4> QED BY <3>4, <4>3
    <3> QED BY <3>4, <3>5
  <2> QED BY <2>1, <2>2
<1>6. Max(Stated(v)) \in Stated(v) /\ Stated(v) \subseteq 0 .. 5
  BY <1>1, <1>2, MaxOfSeverities
<1> QED
  BY <1>1, <1>5, <1>6 DEF n

LEMMA VulnerabilitiesKept ==
    ASSUME NEW d, WellFormed(d), CycloneDXAccepts(d)
    PROVE  /\ IsList(Claims("cyclonedx", d))
           /\ Covers(FlattenSeq(VulnerabilityLists(d)), Claims("cyclonedx", d))
<1> DEFINE x == d.vulnerabilities
           s == VulnerabilityLists(d)
           t == [k \in DOMAIN x |-> Claim("sca", Max(Stated(x[k])))]
<1>1. Claims("cyclonedx", d) = t
  BY DEF Claims, Each
<1>2. IsList(x)
  BY DEF WellFormed, CycloneDXAccepts
<1>3. ASSUME NEW k \in DOMAIN x
      PROVE  /\ IsList(x[k].affects) /\ IsList(x[k].ratings)
             /\ \A i \in DOMAIN x[k].ratings : /\ x[k].ratings[i].score \in Scores
                                               /\ x[k].ratings[i].score # BadScore
  BY DEF WellFormed, CycloneDXAccepts, VulnerabilityAccepts, Every
<1>4. IsList(s) /\ DOMAIN s = DOMAIN x /\ IsList(t) /\ DOMAIN t = DOMAIN x
  BY <1>2, EachIsList DEF VulnerabilityLists
<1>5. ASSUME NEW k \in DOMAIN x
      PROVE  IsList(s[k]) /\ \E i \in DOMAIN s[k] : NoMilder(s[k][i], t[k])
  <2> DEFINE v == x[k]
             m == Max({1, Len(v.affects)})
             u == s[k]
             n == VulnerabilitySeverity(v)
  <2>1. m \in Nat /\ 1 \in 1 .. m
    BY <1>3, ListFacts, MaxOfOne
  <2>2. u = [i \in 1 .. m |-> Issue("sca", n)] /\ t[k] = Claim("sca", Max(Stated(v)))
    BY <1>5 DEF VulnerabilityLists
  <2>3. n \in Int /\ Max(Stated(v)) \in Int /\ n >= Max(Stated(v))
    BY <1>3, VulnerabilityKept
  <2> HIDE DEF m, u, n, v
  <2>4. DOMAIN u = 1 .. m /\ u = [i \in 1 .. m |-> u[i]] /\ \A i \in 1 .. m : u[i] \in Range(u)
    BY <2>2 DEF Range
  <2>5. IsList(u)
    BY <2>1, <2>4, AsSeq DEF IsList
  <2>6. NoMilder(u[1], t[k])
    BY <2>1, <2>2, <2>3, NoMilderIssue
  <2> QED BY <2>1, <2>4, <2>5, <2>6 DEF u
<1> HIDE DEF s, t
<1>6. Covers(FlattenSeq(s), t)
  BY <1>4, <1>5, CoversPlaces
<1> QED
  BY <1>1, <1>4, <1>6 DEF s

LEMMA CycloneDXLists ==
    ASSUME NEW d, WellFormed(d), CycloneDXAccepts(d)
    PROVE  /\ AllComponents(d) \in Seq(DOMAIN d.parts) /\ Range(AllComponents(d)) = DOMAIN d.parts
           /\ IsList(FlattenSeq(LicenseLists(d))) /\ IsList(FlattenSeq(VulnerabilityLists(d)))
<1> DEFINE D == DOMAIN d.parts
           all == AllComponents(d)
           lists == LicenseLists(d)
<1>1. /\ IsTree(d.parts, d.subject \o d.roots)
      /\ d.subject \in Seq(DOMAIN d.parts) /\ d.roots \in Seq(DOMAIN d.parts)
      /\ \A c \in D : /\ IsList(d.parts[c].licenses)
                      /\ \A j \in DOMAIN d.parts[c].licenses : IsList(d.parts[c].licenses[j])
      /\ IsList(d.vulnerabilities)
      /\ \A k \in DOMAIN d.vulnerabilities : IsList(d.vulnerabilities[k].affects)
  BY DEF WellFormed, CycloneDXAccepts, Every
<1>2. all \in Seq(D) /\ Range(all) = D
  BY <1>1, AllComponentsWalked
<1>3. IsList(FlattenSeq(VulnerabilityLists(d)))
  BY <1>1, VulnerabilitiesAreNone
<1>4. \A c \in D : IsList(LicensesOf(d, c))
  BY <1>1, LicensesOfParts
<1> HIDE DEF D, all
<1>5. IsList(all)
  BY <1>2, SeqIsList, Zenon
<1>6. /\ lists = [k \in DOMAIN all |-> lists[k]]
      /\ \A k \in DOMAIN all :
            lists[k] = [j \in DOMAIN LicensesOf(d, all[k]) |-> LicenseDetected(LicensesOf(d, all[k])[j])]
  BY DEF LicenseLists, all
<1> HIDE DEF lists
<1>7. IsList(lists) /\ DOMAIN lists = DOMAIN all
  BY <1>5, <1>6, EachIsList
<1>8. ASSUME NEW k \in DOMAIN all PROVE IsList(lists[k])
  <2> DEFINE own == LicensesOf(d, all[k])
             f == lists[k]
  <2>1. all[k] \in D
    BY <1>2, <1>5, ListFacts
  <2>2. IsList(own) /\ f = [j \in DOMAIN own |-> LicenseDetected(own[j])]
    BY <1>4, <1>6, <2>1
  <2> HIDE DEF own, f
  <2>3. f = [j \in DOMAIN own |-> f[j]]
    BY <2>2
  <2>4. IsList(f)
    BY <2>2, <2>3, EachIsList
  <2> QED BY <2>4 DEF f
<1>9. IsList(FlattenSeq(lists))
  BY <1>7, <1>8, Flattened
<1> QED
  BY <1>2, <1>3, <1>9 DEF D, all, lists

LEMMA CycloneDXKept ==
    ASSUME NEW d, WellFormed(d), CycloneDXAccepts(d)
    PROVE  Kept(CycloneDXFinds(d), Claims("cyclonedx", d))
<1> DEFINE first == FlattenSeq(LicenseLists(d))
           second == FlattenSeq(VulnerabilityLists(d))
           t == Claims("cyclonedx", d)
<1>1. CycloneDXFinds(d) = first \o second
  BY DEF CycloneDXFinds, Each, LicenseLists, VulnerabilityLists
<1>2. IsList(first) /\ IsList(second)
  BY CycloneDXLists
<1>3. IsList(t) /\ Covers(second, t)
  BY VulnerabilitiesKept
<1> HIDE DEF first, second, t
<1>4. IsList(<<>>) /\ Covers(first, <<>>)
  BY CoversNothing, EmptySeq DEF IsList, Range
<1>5. Covers(first \o second, <<>> \o t)
  BY <1>2, <1>3, <1>4, CoversJoined
<1>6. <<>> \o t = t
  BY <1>3, ConcatEmptySeq DEF IsList
<1>7. IsList(first \o second)
  BY <1>2, Joined
<1> QED
  BY <1>1, <1>3, <1>5, <1>6, <1>7 DEF Kept, t

(* Who walks over every component once counts them. *)
LEMMA ComponentsCounted ==
    ASSUME NEW d, WellFormed(d), CycloneDXAccepts(d)
    PROVE  Len(AllComponents(d)) = Cardinality(DOMAIN d.parts)
<1> DEFINE all == AllComponents(d)
           D == DOMAIN d.parts
           n == Len(all)
<1>1. all \in Seq(D) /\ Range(all) = D
  BY CycloneDXLists
<1>2. \A i, j \in DOMAIN all : d.parts[all[i]].ref = d.parts[all[j]].ref => i = j
  BY DEF CycloneDXAccepts, IsInjective, Each
<1> HIDE DEF all, D
<1>3. n \in Nat /\ DOMAIN all = 1 .. n /\ all \in [1 .. n -> D]
  BY <1>1, LenProperties
<1>4. all \in Injection(1 .. n, D)
  BY <1>2, <1>3 DEF Injection, IsInjective
<1>5. all \in Surjection(1 .. n, D)
  BY <1>1, <1>3 DEF Surjection, Range
<1>6. ExistsBijection(1 .. n, D)
  BY <1>4, <1>5 DEF ExistsBijection, Bijection
<1>7. Cardinality(D) = n
  BY <1>3, <1>6, FS_CountingElements
<1> QED
  BY <1>7 DEF D, all

LEMMA JUnitKept ==
    ASSUME NEW d, WellFormed(d), JUnitAccepts(d)
    PROVE  Kept(JUnitFinds(d), Claims("junit", d))
<1> DEFINE x == Cases(d)
           within == FlattenSeq(Each(LAMBDA c : c.inner, d.suites))
           s == [k \in DOMAIN x |-> IF Broken(x[k]) THEN <<Issue("test", 3)>> ELSE <<>>]
           t == [k \in DOMAIN x |-> IF Broken(x[k]) THEN <<Claim("test", 3)>> ELSE <<>>]
<1>1. IsList(x) /\ IsList(within)
  BY CasesAreLists DEF JUnitAccepts
<1>2. Declared(d, "tests") = Len(x)
  BY DEF JUnitAccepts
<1>3. CountedCases(d) = x
  <2>1. CountedCases(d) = x \o (IF Len(x) >= Len(x) + Len(within) THEN within ELSE <<>>)
    BY <1>2 DEF CountedCases
  <2> HIDE DEF x, within
  <2>2. Len(x) \in Nat /\ Len(within) \in Nat /\ (Len(within) = 0 => within = <<>>)
    BY <1>1, ListFacts, EmptySeq
  <2>3. CountedCases(d) = x \o <<>>
    <3>1. CASE Len(within) = 0
      BY <2>1, <2>2, <3>1
    <3>2. CASE Len(within) # 0
      <4>1. ~(Len(x) >= Len(x) + Len(within))
        BY <2>2, <3>2
      <4> QED BY <2>1, <4>1
    <3> QED BY <3>1, <3>2
  <2> QED BY <1>1, <2>3, ConcatEmptySeq DEF IsList
<1>4. JUnitFinds(d) = FlattenSeq(s)
  BY DEF JUnitFinds, Each
<1>5. Claims("junit", d) = FlattenSeq(t)
  <2>1. Claims("junit", d) =
           FlattenSeq(Each(LAMBDA c : IF Broken(c) THEN <<Claim("test", 3)>> ELSE <<>>, CountedCases(d)))
    BY DEF Claims
  <2> HIDE DEF x
  <2> QED BY <1>3, <2>1 DEF Each
<1> HIDE DEF x, within
<1>6. Kept(<<Issue("test", 3)>>, <<Claim("test", 3)>>)
  <2> DEFINE f == Issue("test", 3)
             c == Claim("test", 3)
             u == <<f>>
             v == <<c>>
  <2>1. NoMilder(f, c)
    BY NoMilderIssue
  <2> HIDE DEF f, c
  <2>2. u \in Seq({f}) /\ v \in Seq({c}) /\ DOMAIN u = {1} /\ DOMAIN v = {1} /\ u[1] = f /\ v[1] = c
    OBVIOUS
  <2> HIDE DEF u, v
  <2>3. IsList(u) /\ IsList(v)
    BY <2>2, SeqIsList, Zenon
  <2>4. Covers(u, v)
    BY <2>1, <2>2, CoversPointwise
  <2> QED BY <2>3, <2>4 DEF Kept, u, v, f, c
<1>7. Kept(<<>>, <<>>)
  BY CoversNothing, EmptySeq DEF Kept, IsList, Range
<1>8. ASSUME NEW k \in DOMAIN x PROVE Kept(s[k], t[k])
  BY <1>6, <1>7
<1>9. s = [k \in DOMAIN x |-> s[k]] /\ t = [k \in DOMAIN x |-> t[k]]
  OBVIOUS
<1> HIDE DEF s, t
<1> QED
  BY <1>1, <1>4, <1>5, <1>8, <1>9, KeptFlattened

-----------------------------------------------------------------------------
(* Nothing a report says is lost. *)

LEMMA ReportsKept ==
    ASSUME NEW kind, NEW d, WellFormed(d), Accepts(kind, d)
    PROVE  Kept(Finds(kind, d), Claims(kind, d))
<1>1. CASE kind = "normalized"
  BY <1>1, NormalizedKept DEF Accepts, Finds
<1>2. CASE kind = "semgrep"
  BY <1>2, SemgrepKept DEF Accepts, Finds
<1>3. CASE kind = "ruff"
  BY <1>3, RuffKept DEF Accepts, Finds
<1>4. CASE kind = "trivy"
  BY <1>4, TrivyKept DEF Accepts, Finds
<1>5. CASE kind = "pip-audit"
  BY <1>5, PipAuditKept DEF Accepts, Finds
<1>6. CASE kind = "zap"
  BY <1>6, ZapKept DEF Accepts, Finds
<1>7. CASE kind = "cyclonedx"
  BY <1>7, CycloneDXKept DEF Accepts, Finds
<1>8. CASE kind = "sarif"
  BY <1>8, SarifKept DEF Accepts, Finds
<1>9. CASE kind = "coverage"
  <2>1. Finds(kind, d) = <<>> /\ Claims(kind, d) = <<>>
    BY <1>9 DEF Finds, Claims
  <2> QED BY <2>1, CoversNothing, EmptySeq DEF Kept, IsList, Range
<1>10. CASE kind = "junit"
  BY <1>10, JUnitKept DEF Accepts, Finds
<1> QED
  BY <1>1, <1>2, <1>3, <1>4, <1>5, <1>6, <1>7, <1>8, <1>9, <1>10 DEF Accepts

(* What the intake says of each of its scans *)
NothingIsLost(d, r) ==
    LET claims == Claims(r.kind, d)
    IN  /\ \A c \in Range(claims) :
              Count(r.findings, c.category, c.severity) >= Count(claims, c.category, c.severity)
        /\ r.kind # "normalized" /\ claims # <<>> => r.status # "passed"
        /\ r.kind \in {"semgrep", "normalized"} /\ d.errors # <<>> => r.errors
        /\ r.kind = "sarif" /\ (\E k \in DOMAIN d.runs : FALSE \in Range(d.runs[k].invocations))
              => r.errors
        /\ r.errors /\ r.kind # "normalized" => r.status = "error"
        /\ r.kind = "cyclonedx" => r.components = Cardinality(DOMAIN d.parts)

LEMMA ScanLosesNothing ==
    ASSUME NEW kind, NEW d, WellFormed(d), Accepts(kind, d)
    PROVE  NothingIsLost(d, ScanOf(kind, d))
<1> DEFINE r == ScanOf(kind, d)
           claims == Claims(kind, d)
<1>1. /\ r.kind = kind /\ r.findings = Finds(kind, d) /\ r.status = Status(kind, d)
      /\ r.errors = Failed(kind, d)
      /\ kind = "cyclonedx" => r.components = Len(AllComponents(d))
  BY DEF ScanOf
<1>2. Kept(Finds(kind, d), claims)
  BY ReportsKept
<1> HIDE DEF r, claims
<1>3. ASSUME NEW c \in Range(claims)
      PROVE  Count(r.findings, c.category, c.severity) >= Count(claims, c.category, c.severity)
  <2>1. PICK i \in DOMAIN claims : c = claims[i]
    BY DEF Range
  <2> QED BY <1>1, <1>2, <2>1, CoversCount DEF Kept
<1>4. kind # "normalized" /\ claims # <<>> => r.status # "passed"
  <2> SUFFICES ASSUME kind # "normalized", claims # <<>> PROVE r.status # "passed"
    OBVIOUS
  <2>1. Finds(kind, d) # <<>>
    BY <1>2, CoversSome DEF Kept
  <2> QED BY <1>1, <2>1 DEF Status
<1>5. kind \in {"semgrep", "normalized"} /\ d.errors # <<>> => r.errors
  BY <1>1 DEF Failed
<1>6. kind = "sarif" /\ (\E k \in DOMAIN d.runs : FALSE \in Range(d.runs[k].invocations)) => r.errors
  <2> SUFFICES ASSUME kind = "sarif", NEW k \in DOMAIN d.runs, FALSE \in Range(d.runs[k].invocations)
               PROVE  r.errors
    OBVIOUS
  <2>1. PICK j \in DOMAIN d.runs[k].invocations : d.runs[k].invocations[j] = FALSE
    BY DEF Range
  <2>2. SarifFailed(d)
    BY <2>1 DEF SarifFailed
  <2> QED BY <1>1, <2>2 DEF Failed
<1>7. r.errors /\ kind # "normalized" => r.status = "error"
  BY <1>1 DEF Status
<1>8. kind = "cyclonedx" => r.components = Cardinality(DOMAIN d.parts)
  <2> SUFFICES ASSUME kind = "cyclonedx" PROVE r.components = Cardinality(DOMAIN d.parts)
    OBVIOUS
  <2>1. CycloneDXAccepts(d)
    BY DEF Accepts
  <2> QED BY <1>1, <2>1, ComponentsCounted
<1> QED
  BY <1>1, <1>3, <1>4, <1>5, <1>6, <1>7, <1>8 DEF NothingIsLost, r, claims

(* The parsers of finguard/parsers: of every report the gate accepts, in each *)
(* of its formats, every problem it lists has a finding of its own that is of *)
(* its category and no milder; a tool that failed did not pass; and the       *)
(* components of an SBOM are counted, at any depth.                           *)
THEOREM NothingIsLostHolds == Spec => []NothingReportedIsLost
<1>1. ASSUME IntakeInv, JudgedInv
      PROVE  NothingReportedIsLost
  <2>1. ASSUME NEW i \in DOMAIN scans
        PROVE  NothingIsLost(DocumentOf(scans[i].digest), scans[i].result)
    <3> DEFINE d == DocumentOf(scans[i].digest)
               kind == scans[i].result.kind
    <3>1. Accepts(kind, d) /\ WellFormed(d)
      BY <1>1, DocumentsWellFormed DEF JudgedInv, AcceptedScan
    <3>2. scans[i].result = ScanOf(kind, d)
      BY <1>1 DEF IntakeInv, ScansRight, ScanRight
    <3> HIDE DEF d, kind
    <3>3. NothingIsLost(d, ScanOf(kind, d))
      BY <3>1, ScanLosesNothing
    <3> QED BY <3>2, <3>3 DEF d
  <2> QED BY <2>1 DEF NothingReportedIsLost, NothingIsLost
<1> QED
  BY <1>1, IntakeInvHolds, JudgedInvHolds, PTL
=============================================================================
