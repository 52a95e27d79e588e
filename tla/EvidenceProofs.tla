----------------------------- MODULE EvidenceProofs -----------------------------
(***************************************************************************)
(* What holds of any number of writers, readers' checks and bounds of      *)
(* faults and edits.  First, no gate run loses evidence: a writer removes  *)
(* what it has set aside only after its own bundle stood at the output;    *)
(* wherever that has gone since, it was moved whole, or another writer's   *)
(* bundle took its place.  Then, whatever a reader accepts is one signed   *)
(* bundle: from "parse" on every check reads the private copy, and nothing *)
(* changes it any more, so no step of a writer takes part in the argument. *)
(* And no reader whose copy is one whole signed bundle refuses it.         *)
(***************************************************************************)
EXTENDS EvidenceExchange, TLAPS

-----------------------------------------------------------------------------
(* Publication *)

Before == {"start", "stage", "recheck", "exists", "move", "set_aside"}
Built == {"recheck", "exists", "move", "set_aside", "swap"}
Removing == {"reclaim", "rmtree"}

Shaped(t) == t = [there |-> t.there, has |-> t.has] /\ t.has = [f \in Names |-> t.has[f]]

(* A complete bundle *)
Whole(t) == \E b \in Bundles : Holds(t, b)

Shapes ==
    /\ writer = [w \in Writers |-> writer[w]]
    /\ staging = [w \in Writers |-> staging[w]]
    /\ backup = [w \in Writers |-> backup[w]]
    /\ Shaped(output) /\ \A w \in Writers : Shaped(backup[w])

(* What a writer has at each label *)
Progress(w) ==
    /\ writer[w] \in Before => backup[w] = Gone
    /\ writer[w] \in Built => staging[w] = Made(w)
    /\ writer[w] = "rmtree" => Owned(backup[w], TRUE)

(* Whoever removes a directory is not the only one who has a bundle. *)
Elsewhere ==
    (\E w \in Writers : writer[w] \in Removing) =>
        \/ Whole(output)
        \/ \E u \in Writers : writer[u] \notin Removing /\ Whole(backup[u])

PublicationInv == Shapes /\ (\A w \in Writers : Progress(w)) /\ Elsewhere

-----------------------------------------------------------------------------

(* The directories there can be without anybody's files *)
LEMMA Directories ==
    /\ Shaped(Gone) /\ Shaped(Empty) /\ Shaped(Unowned)
    /\ \A w \in Writers : Shaped(Made(w)) /\ Whole(Made(w))
<1>1. Shaped(Gone) /\ Shaped(Empty) /\ Shaped(Unowned)
  BY DEF Shaped, Gone, Empty, Unowned
<1>2. ASSUME NEW w \in Writers PROVE Shaped(Made(w)) /\ Whole(Made(w))
  BY <1>2 DEF Shaped, Made, Whole, Holds, Bundles
<1> QED
  BY <1>1, <1>2

(* A directory that a rename may replace holds no bundle. *)
LEMMA ReplaceableHoldsNone ==
    ASSUME NEW t, Replaceable(t)
    PROVE  ~Whole(t)
BY StorageAssumption DEF Replaceable, HasFiles, Whole, Holds, Made, Names, Listed, Bundles

LEMMA PublicationInit == Init => PublicationInv
<1> SUFFICES ASSUME Init PROVE PublicationInv
  OBVIOUS
<1>1. Shaped(Made(Earlier))
  BY DEF Shaped, Made
<1>2. Shapes
  BY <1>1, Directories DEF Init, StorageInit, Shapes
<1>3. \A w \in Writers : Progress(w)
  BY DEF Init, StorageInit, Progress, Built
<1>4. Elsewhere
  BY DEF Init, StorageInit, Elsewhere, Removing
<1> QED
  BY <1>2, <1>3, <1>4 DEF PublicationInv

-----------------------------------------------------------------------------
(* One step of one writer *)

(* What the step of a writer may do to the directories, by kind *)
Quiet(w) == UNCHANGED <<output, backup>> /\ writer'[w] # "rmtree"
            /\ (writer'[w] \in Before => writer[w] \in Before)
            /\ (writer'[w] = "reclaim" => FALSE)
Arrived(w) == /\ Replaceable(output) /\ output' = Made(w) /\ UNCHANGED backup
              /\ writer'[w] \in {"returned", "reclaim"}
PutAside(w) == /\ backup[w] = Gone /\ output' = Gone
               /\ backup' = [backup EXCEPT ![w] = output]
               /\ writer'[w] = "swap"
Returned(w) == /\ Replaceable(output) /\ output' = backup[w]
               /\ backup' = [backup EXCEPT ![w] = Gone]
               /\ writer'[w] = "raised"
Approved(w) == UNCHANGED <<output, backup>> /\ Owned(backup[w], TRUE)
               /\ writer[w] = "reclaim" /\ writer'[w] = "rmtree"
Dropped(w) == /\ ~HasFiles(backup[w]) /\ UNCHANGED output
              /\ backup' = [backup EXCEPT ![w] = Gone] /\ writer'[w] = "returned"
Removed(w) == /\ writer[w] = "rmtree" /\ UNCHANGED output /\ writer'[w] \in {"returned", "raised"}
              /\ \/ backup' = [backup EXCEPT ![w] = Gone]
                 \/ backup' = [backup EXCEPT ![w].has["marker"] = Missing]

Effect(w) == Quiet(w) \/ Arrived(w) \/ PutAside(w) \/ Returned(w) \/ Approved(w) \/ Dropped(w)
             \/ Removed(w)

(* A step of a writer is of one of these kinds and leaves other writers alone. *)
LEMMA WriterEffect ==
    ASSUME PublicationInv, NEW w \in Writers, Write(w) \/ Interrupt(w) \/ Crash(w)
    PROVE  /\ Effect(w)
           /\ writer' = [writer EXCEPT ![w] = writer'[w]]
           /\ staging' = [staging EXCEPT ![w] = staging'[w]]
           /\ writer'[w] \in Built => staging'[w] = Made(w)
<1> USE DEF PublicationInv, Shapes, Progress, Before, Built
<1>0. /\ writer = [u \in Writers |-> writer[u]] /\ staging = [u \in Writers |-> staging[u]]
      /\ backup = [u \in Writers |-> backup[u]]
      /\ Progress(w)
  OBVIOUS
<1> DEFINE Framed == /\ writer' = [writer EXCEPT ![w] = writer'[w]]
                     /\ staging' = [staging EXCEPT ![w] = staging'[w]]
                     /\ writer'[w] \in Built => staging'[w] = Made(w)
<1>1. CASE Start(w) \/ Stage(w) \/ Recheck(w) \/ Exists(w)
  <2>1. Quiet(w)
    BY <1>0, <1>1 DEF Start, Stage, Recheck, Exists, Validate, Raises, Goes, At, Quiet
  <2>2. Framed
    BY <1>0, <1>1 DEF Start, Stage, Recheck, Exists, Validate, Raises, Goes, At
  <2> QED
    BY <2>1, <2>2 DEF Effect
<1>2. CASE Move(w)
  <2>1. Quiet(w) \/ Arrived(w)
    BY <1>0, <1>2 DEF Move, Arrives, Raises, Goes, At, Quiet, Arrived
  <2>2. Framed
    BY <1>0, <1>2 DEF Move, Arrives, Raises, Goes, At
  <2> QED
    BY <2>1, <2>2 DEF Effect
<1>3. CASE SetAside(w)
  <2>1. Quiet(w) \/ PutAside(w)
    BY <1>0, <1>3 DEF SetAside, Raises, Goes, At, Quiet, PutAside
  <2>2. Framed
    BY <1>0, <1>3 DEF SetAside, Raises, Goes, At
  <2> QED
    BY <2>1, <2>2 DEF Effect
<1>4. CASE Swap(w)
  <2>1. Quiet(w) \/ Arrived(w)
    BY <1>0, <1>4 DEF Swap, Arrives, Goes, At, Quiet, Arrived
  <2>2. Framed
    BY <1>0, <1>4 DEF Swap, Arrives, Goes, At
  <2> QED
    BY <2>1, <2>2 DEF Effect
<1>5. CASE PutBack(w)
  <2>1. Quiet(w) \/ Returned(w)
    BY <1>0, <1>5 DEF PutBack, Raises, Goes, At, Quiet, Returned
  <2>2. Framed
    BY <1>0, <1>5 DEF PutBack, Raises, Goes, At
  <2> QED
    BY <2>1, <2>2 DEF Effect
<1>6. CASE Reclaim(w)
  <2>1. Quiet(w) \/ Approved(w) \/ Dropped(w)
    BY <1>0, <1>6 DEF Reclaim, Raises, Goes, At, Quiet, Approved, Dropped
  <2>2. Framed
    BY <1>0, <1>6 DEF Reclaim, Raises, Goes, At
  <2> QED
    BY <2>1, <2>2 DEF Effect
<1>7. CASE RmTree(w)
  <2>1. Removed(w)
    BY <1>0, <1>7 DEF RmTree, Raises, Goes, At, Removed
  <2>2. Framed
    BY <1>0, <1>7 DEF RmTree, Raises, Goes, At
  <2> QED
    BY <2>1, <2>2 DEF Effect
<1>8. CASE Interrupt(w) \/ Crash(w)
  <2>1. Quiet(w)
    BY <1>0, <1>8 DEF Interrupt, Crash, Raises, Goes, At, Quiet
  <2>2. Framed
    BY <1>0, <1>8 DEF Interrupt, Crash, Raises, Goes, At
  <2> QED
    BY <2>1, <2>2 DEF Effect
<1> QED
  BY <1>1, <1>2, <1>3, <1>4, <1>5, <1>6, <1>7, <1>8 DEF Write

(* Every kind of step keeps shapes and progress, and some bundle elsewhere. *)
LEMMA WriterStep ==
    ASSUME PublicationInv, NEW w \in Writers, Write(w) \/ Interrupt(w) \/ Crash(w)
    PROVE  PublicationInv'
<1>1. /\ Effect(w)
      /\ writer' = [writer EXCEPT ![w] = writer'[w]]
      /\ staging' = [staging EXCEPT ![w] = staging'[w]]
      /\ writer'[w] \in Built => staging'[w] = Made(w)
  BY WriterEffect
<1>2. /\ Shapes /\ Progress(w) /\ Elsewhere
      /\ \A u \in Writers \ {w} :
            Progress(u) /\ writer'[u] = writer[u] /\ staging'[u] = staging[u]
  BY <1>1 DEF PublicationInv, Shapes
<1>3. \A u \in Writers \ {w} : backup'[u] = backup[u]
  BY <1>1, <1>2 DEF Effect, Quiet, Arrived, PutAside, Returned, Approved, Dropped, Removed, Shapes
<1>4. /\ backup' = [u \in Writers |-> backup'[u]]
      /\ Shaped(output') /\ Shaped(backup'[w])
  <2>1. Shaped(output) /\ Shaped(backup[w]) /\ backup = [u \in Writers |-> backup[u]]
    BY <1>2 DEF Shapes
  <2>2. CASE Removed(w)
    <3>1. Shaped([backup[w] EXCEPT !.has["marker"] = Missing])
      BY <2>1 DEF Shaped, Names, Listed
    <3> QED
      BY <2>1, <2>2, <3>1, Directories DEF Removed
  <2>3. CASE ~Removed(w)
    BY <1>1, <2>1, <2>3, Directories
       DEF Effect, Quiet, Arrived, PutAside, Returned, Approved, Dropped
  <2> QED
    BY <2>2, <2>3
<1>5. Shapes'
  <2>1. writer' = [u \in Writers |-> writer'[u]] /\ staging' = [u \in Writers |-> staging'[u]]
    BY <1>1, <1>2 DEF Shapes
  <2>2. \A u \in Writers : Shaped(backup'[u])
    BY <1>2, <1>3, <1>4 DEF Shapes
  <2> QED
    BY <1>4, <2>1, <2>2 DEF Shapes, Shaped
<1>6. ASSUME NEW u \in Writers PROVE Progress(u)'
  <2>1. CASE u # w
    BY <1>2, <1>3, <2>1 DEF Progress
  <2>2. CASE u = w
    <3>1. backup = [x \in Writers |-> backup[x]]
      BY <1>2 DEF Shapes
    <3>2. writer'[w] \in Before => backup'[w] = Gone
      BY <1>1, <1>2 DEF Effect, Quiet, Arrived, PutAside, Returned, Approved, Dropped, Removed,
         Before, Progress
    <3>3. writer'[w] = "rmtree" => Owned(backup'[w], TRUE)
      BY <1>1, <1>2 DEF Effect, Quiet, Arrived, PutAside, Returned, Approved, Dropped, Removed
    <3> QED
      BY <1>1, <2>2, <3>2, <3>3 DEF Progress, Owned
  <2> QED
    BY <2>1, <2>2
<1>7. Elsewhere'
  <2>1. SUFFICES ASSUME \E u \in Writers : writer'[u] \in Removing
                 PROVE  Whole(output') \/ \E u \in Writers : writer'[u] \notin Removing
                                                            /\ Whole(backup'[u])
    BY DEF Elsewhere, Whole, Holds
  <2>2. backup = [x \in Writers |-> backup[x]]
    BY <1>2 DEF Shapes
  <2>3. CASE Arrived(w)
    BY <2>3, Directories DEF Arrived
  <2>4. ASSUME ~Arrived(w)
        PROVE  \/ Whole(output)
               \/ \E u \in Writers : writer[u] \notin Removing /\ Whole(backup[u])
    BY <1>1, <1>2, <2>1, <2>4
       DEF Elsewhere, Effect, Quiet, PutAside, Returned, Approved, Dropped, Removed, Removing
  <2>5. ASSUME ~Arrived(w), Whole(output)
        PROVE  Whole(output') \/ (writer'[w] \notin Removing /\ Whole(backup'[w]))
    BY <1>1, <2>2, <2>5, ReplaceableHoldsNone
       DEF Effect, Quiet, PutAside, Returned, Approved, Dropped, Removed, Removing
  <2>6. ASSUME ~Arrived(w), NEW u \in Writers, writer[u] \notin Removing, Whole(backup[u])
        PROVE  \/ Whole(output')
               \/ \E x \in Writers : writer'[x] \notin Removing /\ Whole(backup'[x])
    <3>1. CASE u # w
      BY <1>2, <1>3, <2>6, <3>1
    <3>2. CASE u = w
      <4>1. ~Whole(Gone)
        BY ReplaceableHoldsNone DEF Gone, Replaceable, HasFiles
      <4>2. ~Dropped(w)
        BY <2>6, <3>2, ReplaceableHoldsNone DEF Dropped, Replaceable
      <4> QED
        BY <1>1, <2>2, <2>6, <3>2, <4>1, <4>2
           DEF Effect, Quiet, PutAside, Returned, Approved, Removed, Removing
    <3> QED
      BY <3>1, <3>2
  <2> QED
    BY <2>3, <2>4, <2>5, <2>6
<1> QED
  BY <1>5, <1>6, <1>7 DEF PublicationInv

(* What other people do takes no bundle away, and readers write nothing here. *)
LEMMA OutsideStep ==
    ASSUME PublicationInv, OutsideEdits
    PROVE  PublicationInv' /\ (Whole(output) => Whole(output'))
<1>1. UNCHANGED <<backup, staging, writer>>
  BY DEF OutsideEdits
<1>2. Shaped(output') /\ (Whole(output) => Whole(output'))
  <2>1. CASE output.there /\ output' = [output EXCEPT !.has["extra"] = Junk]
    <3>1. Shaped(output)
      BY DEF PublicationInv, Shapes
    <3>2. /\ Shaped(output') /\ output'.there = output.there
          /\ \A f \in Names \ {"extra"} : output'.has[f] = output.has[f]
      BY <2>1, <3>1 DEF Shaped, Names
    <3> QED
      BY <3>2 DEF Whole, Holds
  <2>2. CASE ~output.there /\ output' \in {Empty, Unowned}
    BY <2>2, Directories DEF Whole, Holds
  <2> QED
    BY <2>1, <2>2 DEF OutsideEdits
<1>3. Shapes'
  BY <1>1, <1>2 DEF PublicationInv, Shapes, Shaped
<1>4. \A w \in Writers : Progress(w)'
  BY <1>1 DEF PublicationInv, Progress, Owned
<1>5. Elsewhere'
  BY <1>1, <1>2 DEF PublicationInv, Elsewhere, Whole, Holds
<1> QED
  BY <1>2, <1>3, <1>4, <1>5 DEF PublicationInv

LEMMA PublicationStep == PublicationInv /\ [Next]_vars => PublicationInv'
<1> SUFFICES ASSUME PublicationInv, [Next]_vars PROVE PublicationInv'
  OBVIOUS
<1>1. CASE StorageNext
  BY <1>1, WriterStep, OutsideStep DEF StorageNext
<1>2. CASE UNCHANGED storageVars
  <2>1. UNCHANGED <<output, backup, staging, writer>>
    BY <1>2 DEF storageVars
  <2>2. Shapes'
    BY <2>1 DEF PublicationInv, Shapes, Shaped
  <2>3. \A w \in Writers : Progress(w)'
    BY <2>1 DEF PublicationInv, Progress, Owned
  <2>4. Elsewhere'
    BY <2>1 DEF PublicationInv, Elsewhere, Whole, Holds
  <2> QED
    BY <2>2, <2>3, <2>4 DEF PublicationInv
<1>3. CASE Read
  <2>1. UNCHANGED storageVars
    BY <1>3 DEF Read, List, CopyFiles, Parse, ClosedWorld, Hash, Sign, Decision, Checks, storageVars
  <2> QED
    BY <1>2, <2>1
<1>4. CASE UNCHANGED vars
  BY <1>2, <1>4 DEF vars, storageVars
<1> QED
  BY <1>1, <1>3, <1>4 DEF Next

(* Whoever is about to remove what it has set aside is not the only one who   *)
(* has a complete bundle, at any step of any writers.                         *)
THEOREM PublicationInvHolds == Spec => []PublicationInv
BY PublicationInit, PublicationStep, PTL DEF Spec

-----------------------------------------------------------------------------

(* Which steps change the directories *)
LEMMA Changes ==
    ASSUME PublicationInv, [Next]_vars
    PROVE  \/ UNCHANGED storageVars
           \/ OutsideEdits
           \/ \E w \in Writers : Effect(w) /\ Progress(w)
                                 /\ writer' = [writer EXCEPT ![w] = writer'[w]]
BY WriterEffect
   DEF PublicationInv, Next, Read, List, CopyFiles, Parse, ClosedWorld, Hash, Sign, Decision,
       Checks, storageVars, vars, StorageNext

(* Once a complete bundle stands at the output path, there is one there or in *)
(* a backup ever after, whatever fails, is interrupted or killed, and however *)
(* many writers replace each other's bundles (evidence_storage.py:53-84).     *)
THEOREM NoEvidenceLost == Spec => EvidenceSurvives
<1> DEFINE Some == Whole(output) \/ \E w \in Writers : Whole(backup[w])
<1>1. ASSUME PublicationInv, PublicationInv', [Next]_vars, Some
      PROVE  Some'
  <2>1. CASE UNCHANGED storageVars
    BY <1>1, <2>1 DEF storageVars, Whole, Holds
  <2>2. CASE OutsideEdits
    BY <1>1, <2>2, OutsideStep DEF OutsideEdits, Whole, Holds
  <2>3. ASSUME NEW w \in Writers, Effect(w) PROVE Whole(output') \/ \E u \in Writers : Whole(backup'[u])
    <3>1. backup = [u \in Writers |-> backup[u]]
      BY <1>1 DEF PublicationInv, Shapes
    <3>2. ~Whole(Gone)
      BY ReplaceableHoldsNone DEF Gone, Replaceable, HasFiles
    <3>3. CASE Quiet(w) \/ Approved(w)
      BY <1>1, <3>3 DEF Quiet, Approved
    <3>4. CASE Arrived(w)
      BY <3>4, Directories DEF Arrived
    <3>5. CASE PutAside(w)
      BY <1>1, <3>1, <3>2, <3>5 DEF PutAside
    <3>6. CASE Returned(w)
      BY <1>1, <3>1, <3>6, ReplaceableHoldsNone DEF Returned
    <3>7. CASE Dropped(w)
      BY <1>1, <3>1, <3>7, ReplaceableHoldsNone DEF Dropped, Replaceable
    <3>8. CASE Removed(w)
      <4>1. \/ Whole(output)
            \/ \E u \in Writers : u # w /\ Whole(backup[u])
        BY <1>1, <3>8 DEF PublicationInv, Elsewhere, Removed, Removing
      <4> QED
        BY <3>1, <3>8, <4>1 DEF Removed
    <3> QED
      BY <2>3, <3>3, <3>4, <3>5, <3>6, <3>7, <3>8 DEF Effect
  <2>4. (Whole(output') \/ \E u \in Writers : Whole(backup'[u])) => Some'
    BY DEF Whole, Holds
  <2> QED
    BY <1>1, <2>1, <2>2, <2>3, <2>4, Changes
<1>2. Some <=> \E b \in Bundles, t \in Kept : Holds(t, b)
  BY DEF Whole, Kept
<1>3. Some' <=> \E b \in Bundles, t \in Kept' : Holds(t, b)
  BY DEF Whole, Kept, Holds
<1>4. ASSUME PublicationInv, PublicationInv', [Next]_vars
      PROVE  [(\E b \in Bundles, t \in Kept : Holds(t, b)) =>
              (\E b \in Bundles, t \in Kept' : Holds(t, b))]_storageVars
  BY <1>1, <1>2, <1>3, <1>4
<1> QED
  BY <1>4, PublicationInvHolds, PTL DEF Spec, EvidenceSurvives

(* A directory with files that is not a complete bundle of FinGuard is never  *)
(* removed or changed by a writer, only moved (evidence_storage.py:68, 87).   *)
THEOREM NoForeignDirectoryLost == Spec => UnownedSurvives
<1>1. ASSUME PublicationInv, [Next]_vars, NEW t \in Kept, HasFiles(t), ~Owned(t, TRUE),
             writer' # writer
      PROVE  t \in Kept'
  <2>1. PICK w \in Writers : Effect(w) /\ Progress(w)
    BY <1>1, Changes DEF storageVars, OutsideEdits
  <2>2. backup = [u \in Writers |-> backup[u]] /\ ~HasFiles(Gone)
    BY <1>1 DEF PublicationInv, Shapes, HasFiles, Gone
  <2>3. Kept' = {output'} \cup {backup'[u] : u \in Writers}
    BY DEF Kept
  <2>4. CASE t = output
    BY <1>1, <2>1, <2>2, <2>3, <2>4
       DEF Effect, Quiet, Arrived, PutAside, Returned, Approved, Dropped, Removed, Replaceable
  <2>5. ASSUME NEW u \in Writers, t = backup[u] PROVE t \in Kept'
    <3>1. CASE u # w
      <4>1. backup'[u] = backup[u]
        BY <2>1, <2>2, <3>1
           DEF Effect, Quiet, Arrived, PutAside, Returned, Approved, Dropped, Removed
      <4> QED
        BY <2>3, <2>5, <4>1
    <3>2. CASE u = w
      <4>1. ~Removed(w) /\ ~Dropped(w) /\ ~PutAside(w)
        BY <1>1, <2>1, <2>2, <2>5, <3>2 DEF Removed, Dropped, PutAside, Progress
      <4> QED
        BY <2>1, <2>3, <2>5, <3>2, <4>1 DEF Effect, Quiet, Arrived, Returned, Approved
    <3> QED
      BY <3>1, <3>2
  <2> QED
    BY <1>1, <2>4, <2>5 DEF Kept
<1>2. ASSUME PublicationInv, [Next]_vars
      PROVE  [\A t \in Kept : HasFiles(t) /\ ~Owned(t, TRUE) /\ writer' # writer => t \in Kept']_storageVars
  BY <1>1, <1>2
<1> QED
  BY <1>2, PublicationInvHolds, PTL DEF Spec, UnownedSurvives

-----------------------------------------------------------------------------
(* Verification *)

(* The labels of the checks, and after which of them one is *)
AfterParse == {"closed_world", "hash", "sign", "decision", "accepted"}
AfterClosedWorld == AfterParse \ {"closed_world"}
AfterHash == AfterClosedWorld \ {"hash"}
AfterSign == AfterHash \ {"sign"}

(* The reader is a record; its copy is one that gives each name one content. *)
CopyShape ==
    /\ reader = [pc |-> reader.pc, todo |-> reader.todo]
    /\ copy = [there |-> copy.there, has |-> copy.has]
    /\ copy.has = [f \in Names |-> copy.has[f]]

(* What the checks that are behind the reader have found in the copy *)
Established ==
    /\ reader.pc \in AfterParse =>
          /\ copy.there = TRUE
          /\ parsed \in Bundles
          /\ copy.has["manifest"] = parsed /\ copy.has["marker"] = parsed
    /\ reader.pc \in AfterClosedWorld => copy.has["extra"] = Missing
    /\ reader.pc \in AfterHash => \A f \in Listed : copy.has[f] = Made(parsed).has[f]
    /\ reader.pc \in AfterSign => /\ copy.has["signature"] \in Signed
                                  /\ copy.has["signature"] = parsed

ReaderInv == CopyShape /\ Established

(* What a gate run writes for a signed bundle, name by name *)
LEMMA MadeNames ==
    ASSUME NEW b \in Signed
    PROVE  /\ Made(b).there = TRUE
           /\ Made(b).has["manifest"] = b /\ Made(b).has["signature"] = b
           /\ Made(b).has["extra"] = Missing
           /\ Made(b) = [there |-> Made(b).there, has |-> Made(b).has]
           /\ Made(b).has = [f \in Names |-> Made(b).has[f]]
BY DEF Made, Names, Listed

(* A copy that has passed every check is, file by file, the signed bundle. *)
LEMMA GenuineFromChecks ==
    ASSUME CopyShape, NEW b \in Signed, copy.there = TRUE,
           copy.has["manifest"] = b, copy.has["signature"] = b,
           copy.has["extra"] = Missing,
           \A f \in Listed : copy.has[f] = Made(b).has[f]
    PROVE  copy = Made(b)
<1>1. \A f \in Names : copy.has[f] = Made(b).has[f]
  BY MadeNames DEF Names, Listed
<1>2. copy.has = Made(b).has
  BY <1>1, MadeNames DEF CopyShape
<1> QED
  BY <1>2, MadeNames DEF CopyShape

(* Every reader starts before the checks, with no copy. *)
LEMMA ReaderInit == Init => ReaderInv
BY DEF Init, ReaderInv, CopyShape, Established, Gone, AfterParse, AfterClosedWorld,
       AfterHash, AfterSign

(* Listing and copying happen before the checks and keep the copy a directory. *)
LEMMA CopyingKeeps ==
    ASSUME ReaderInv,
           NEW label \in {"list", "copy", "list_inputs", "copy_inputs"}, NEW names,
           NEW next \in {"copy", "list_inputs", "copy_inputs", "parse"},
           List(label, names, next) \/ CopyFiles(label, next)
    PROVE  ReaderInv'
<1> USE DEF ReaderInv, Established, AfterParse, AfterClosedWorld, AfterHash, AfterSign
<1>1. CASE List(label, names, next)
  <2>1. reader'.pc \in {"copy", "list_inputs", "copy_inputs", "parse", "refused"}
    BY <1>1 DEF List, Reads
  <2>2. CopyShape'
    BY <1>1 DEF List, Reads, CopyShape
  <2> QED
    BY <2>1, <2>2
<1>2. CASE CopyFiles(label, next)
  <2>1. reader'.pc \in {"copy", "list_inputs", "copy_inputs", "parse", "refused"} \cup {label}
    BY <1>2 DEF CopyFiles, Reads, ReaderAt, CopyShape
  <2>2. CopyShape'
    BY <1>2 DEF CopyFiles, Reads, CopyShape
  <2> QED
    BY <2>1, <2>2
<1> QED
  BY <1>1, <1>2

(* Each check adds what it has found; a copy is not written after "parse". *)
LEMMA CheckKeeps ==
    ASSUME ReaderInv, Parse \/ ClosedWorld \/ Hash \/ Sign \/ Decision
    PROVE  ReaderInv'
<1> USE DEF ReaderInv, CopyShape, Established, AfterParse, AfterClosedWorld, AfterHash,
            AfterSign, Checks, Reads, ReaderAt, Source
<1>1. CASE Parse
  BY <1>1 DEF Parse, Owned
<1>2. CASE ClosedWorld
  BY <1>2 DEF ClosedWorld, Names, Listed
<1>3. CASE Hash
  BY <1>3 DEF Hash
<1>4. CASE Sign
  BY <1>4 DEF Sign
<1>5. CASE Decision
  BY <1>5 DEF Decision
<1> QED
  BY <1>1, <1>2, <1>3, <1>4, <1>5

(* The invariant is inductive: writers and other programs leave the reader alone. *)
LEMMA ReaderStep == ReaderInv /\ [Next]_vars => ReaderInv'
<1> SUFFICES ASSUME ReaderInv, [Next]_vars PROVE ReaderInv'
  OBVIOUS
<1>1. CASE Read
  BY <1>1, CopyingKeeps, CheckKeeps DEF Read
<1>2. CASE UNCHANGED readerVars
  BY <1>2 DEF readerVars, ReaderInv, CopyShape, Established
<1> QED
  BY <1>1, <1>2 DEF Next, vars, readerVars

(* The reader's knowledge of its copy grows from check to check and stays    *)
(* true, whatever happens to the directory it was copied from.               *)
THEOREM ReaderInvHolds == Spec => []ReaderInv
<1>1. Init => ReaderInv
  BY ReaderInit
<1>2. ReaderInv /\ [Next]_vars => ReaderInv'
  BY ReaderStep
<1> QED
  BY <1>1, <1>2, PTL DEF Spec

(* cli.py:135-137: a bundle is accepted only if it is, file by file, one that *)
(* the trusted key has signed, for any writers, replacements and crashes.     *)
THEOREM GenuineAccepted == Spec => []AcceptedIsGenuine
<1>1. ReaderInv => AcceptedIsGenuine
  BY GenuineFromChecks DEF ReaderInv, Established, AcceptedIsGenuine, ReaderAt, AfterParse,
     AfterClosedWorld, AfterHash, AfterSign
<1> QED
  BY <1>1, ReaderInvHolds, PTL

-----------------------------------------------------------------------------
(* The other direction: a reader that is left alone does not refuse. *)

Untouched == spent.edits = 0 /\ \A w \in Writers : writer[w] = "start"

StorageShape ==
    /\ writer = [w \in Writers |-> writer[w]]
    /\ spent \in [faults : Nat, signals : Nat, crashes : Nat, edits : Nat]

(* What the reader has of the directory's files S *)
Has(S, b) == \A f \in S : copy.has[f] = Made(b).has[f]

(* As long as nothing has happened to the directory, the copy is the part of *)
(* it the reader has come to.                                                *)
Alike(b) ==
    /\ reader.pc \in {"list", "copy", "list_inputs", "copy_inputs", "parse"} \cup AfterParse
    /\ reader.todo \subseteq {f \in Names : Made(b).has[f] # Missing}
    /\ reader.pc # "list" => copy.there = TRUE
    /\ reader.pc \in {"list", "copy", "list_inputs"} => \A f \in Inputs : copy.has[f] = Missing
    /\ reader.pc = "list" => \A f \in Names : copy.has[f] = Missing
    /\ reader.pc = "copy" => reader.todo \subseteq Top /\ Has(Top \ reader.todo, b)
    /\ reader.pc = "list_inputs" => Has(Top, b)
    /\ reader.pc = "copy_inputs" => Has(Names \ reader.todo, b)
    /\ reader.pc \in {"parse"} \cup AfterParse => Has(Names, b)
    /\ reader.pc \in AfterParse => parsed = b

QuietInv ==
    /\ StorageShape /\ CopyShape
    /\ Untouched => \A b \in Signed : output = Made(b) => Alike(b)

LEMMA MadeFiles ==
    ASSUME NEW b \in Signed
    PROVE  /\ b \in Bundles /\ b # Missing /\ Common # Missing
           /\ Made(b).has["marker"] = b /\ Made(b).has["decision"] = b
           /\ Made(b).has["policy"] = Common
BY StorageAssumption DEF Made, Names, Listed

LEMMA QuietInit == Init => QuietInv
BY DEF Init, StorageInit, QuietInv, StorageShape, CopyShape, Alike, Has, Gone, AfterParse, Names,
       Listed, Inputs

(* A step of a writer or of another program is seen in its label or in edits. *)
LEMMA StorageStep ==
    ASSUME StorageShape, StorageNext
    PROVE  StorageShape' /\ ~Untouched'
<1> USE DEF StorageShape, Untouched
<1>1. CASE OutsideEdits
  BY <1>1 DEF OutsideEdits
<1>2. ASSUME NEW w \in Writers, Write(w) \/ Interrupt(w) \/ Crash(w)
      PROVE  StorageShape' /\ ~Untouched'
  <2>1. writer' = [writer EXCEPT ![w] = writer'[w]] /\ writer'[w] # "start"
    BY <1>2 DEF Write, Start, Stage, Recheck, Exists, Move, SetAside, Swap, PutBack, Reclaim,
       RmTree, Validate, Arrives, Interrupt, Crash, Goes, Raises, At
  <2>2. \/ spent' = spent
        \/ spent' = [spent EXCEPT !.faults = @ + 1]
        \/ spent' = [spent EXCEPT !.signals = @ + 1]
        \/ spent' = [spent EXCEPT !.crashes = @ + 1]
    BY <1>2 DEF Write, Start, Stage, Recheck, Exists, Move, SetAside, Swap, PutBack, Reclaim,
       RmTree, Validate, Arrives, Interrupt, Crash, Goes, Raises, At, Fault
  <2> QED
    BY <2>1, <2>2
<1> QED
  BY <1>1, <1>2 DEF StorageNext

(* A step of the reader over a directory that nobody touches *)
LEMMA ReadAlike ==
    ASSUME CopyShape, NEW b \in Signed, output = Made(b), Alike(b), Read
    PROVE  Alike(b)'
<1>1. /\ output.there = TRUE /\ output.has = Made(b).has
      /\ \A f \in Names : Made(b).has[f] # Missing <=> f # "extra"
      /\ \A f \in reader.todo : output.has[f] # Missing
  <2>1. \A f \in Names : Made(b).has[f] # Missing <=> f # "extra"
    BY MadeFiles DEF Made, Names, Listed
  <2>2. output.there = TRUE /\ output.has = Made(b).has
    BY MadeNames
  <2> QED
    BY <2>1, <2>2 DEF Alike
<1>2. CopyShape /\ Top = Names \ {"policy"} /\ Inputs = {"policy"} /\ "extra" \in Top
  BY DEF Top, Inputs, Names, Listed
<1>3. reader.todo \subseteq Names
  BY DEF Alike
<1> USE DEF Alike, Has, AfterParse
<1>4. CASE List("list", Top, "copy")
  <2>1. /\ reader.pc = "list"
        /\ reader'.pc = "copy" /\ reader'.todo = {f \in Top : output.has[f] # Missing}
        /\ copy'.there = TRUE /\ copy'.has = copy.has
    BY <1>1, <1>2, <1>4 DEF List, ReaderAt, CopyShape
  <2>2. \A f \in Names : copy.has[f] = Missing
    BY <2>1
  <2>3. \A f \in Top \ reader'.todo : copy'.has[f] = Made(b).has[f]
    BY <1>1, <1>2, <2>1, <2>2
  <2>4. /\ reader'.todo \subseteq Top
        /\ reader'.todo \subseteq {f \in Names : Made(b).has[f] # Missing}
    BY <1>1, <1>2, <2>1
  <2>5. \A f \in Inputs : copy'.has[f] = Missing
    BY <2>1, <2>2 DEF Inputs, Names, Listed
  <2> QED
    BY <2>1, <2>3, <2>4, <2>5
<1>5. CASE List("list_inputs", Inputs, "copy_inputs")
  <2>1. /\ reader.pc = "list_inputs"
        /\ reader'.pc = "copy_inputs" /\ reader'.todo = {f \in Inputs : output.has[f] # Missing}
        /\ copy'.there = TRUE /\ copy'.has = copy.has
    BY <1>1, <1>2, <1>5 DEF List, ReaderAt, CopyShape
  <2>2. /\ \A f \in Top : copy.has[f] = Made(b).has[f]
        /\ \A f \in Inputs : copy.has[f] = Missing
    BY <2>1
  <2>3. \A f \in Names \ reader'.todo : copy'.has[f] = Made(b).has[f]
    BY <1>1, <1>2, <2>1, <2>2
  <2>4. reader'.todo \subseteq {f \in Names : Made(b).has[f] # Missing}
    BY <1>1, <1>2, <2>1 DEF Inputs, Names, Listed
  <2> QED
    BY <2>1, <2>3, <2>4
<1>6. ASSUME NEW label \in {"copy", "copy_inputs"}, NEW next, CopyFiles(label, next)
      PROVE  /\ reader.pc = label
             /\ \/ \E f \in reader.todo :
                      /\ reader'.pc = reader.pc /\ reader'.todo = reader.todo \ {f}
                      /\ copy'.there = copy.there
                      /\ copy'.has = [copy.has EXCEPT ![f] = Made(b).has[f]]
                \/ /\ reader.todo = {} /\ copy' = copy
                   /\ reader'.pc = next /\ reader'.todo = {}
  <2>1. reader.pc = label
    BY <1>6 DEF CopyFiles, ReaderAt
  <2>2. CASE reader.todo = {} /\ Reads(next) /\ UNCHANGED copy
    BY <2>1, <2>2 DEF Reads
  <2>3. ASSUME NEW f \in reader.todo,
               copy' = [copy EXCEPT !.has[f] = output.has[f]],
               reader' = [reader EXCEPT !.todo = @ \ {f}]
        PROVE  /\ reader'.pc = reader.pc /\ reader'.todo = reader.todo \ {f}
               /\ copy'.there = copy.there
               /\ copy'.has = [copy.has EXCEPT ![f] = Made(b).has[f]]
    <3>1. reader'.pc = reader.pc /\ reader'.todo = reader.todo \ {f}
      BY <1>2, <2>3 DEF CopyShape
    <3>2. /\ copy'.there = copy.there
          /\ copy'.has = [copy.has EXCEPT ![f] = output.has[f]]
      BY <1>2, <2>3 DEF CopyShape
    <3> QED
      BY <1>1, <3>1, <3>2
  <2> QED
    BY <1>1, <1>6, <2>1, <2>2, <2>3 DEF CopyFiles
<1>7. CASE CopyFiles("copy", "list_inputs")
  <2>1. ASSUME NEW f \in reader.todo,
               reader'.pc = reader.pc, reader'.todo = reader.todo \ {f},
               copy'.there = copy.there, copy'.has = [copy.has EXCEPT ![f] = Made(b).has[f]],
               reader.pc = "copy"
        PROVE  Alike(b)'
    BY <1>2, <1>3, <2>1 DEF CopyShape
  <2>2. CASE /\ reader.todo = {} /\ copy' = copy /\ reader.pc = "copy"
             /\ reader'.pc = "list_inputs" /\ reader'.todo = {}
    BY <1>2, <2>2 DEF CopyShape
  <2>3. \/ \E f \in reader.todo :
              /\ reader'.pc = reader.pc /\ reader'.todo = reader.todo \ {f}
              /\ copy'.there = copy.there
              /\ copy'.has = [copy.has EXCEPT ![f] = Made(b).has[f]]
              /\ reader.pc = "copy"
        \/ /\ reader.todo = {} /\ copy' = copy /\ reader.pc = "copy"
           /\ reader'.pc = "list_inputs" /\ reader'.todo = {}
    BY <1>6, <1>7
  <2> QED
    BY <2>1, <2>2, <2>3
<1>8. CASE CopyFiles("copy_inputs", "parse")
  <2>1. ASSUME NEW f \in reader.todo,
               reader'.pc = reader.pc, reader'.todo = reader.todo \ {f},
               copy'.there = copy.there, copy'.has = [copy.has EXCEPT ![f] = Made(b).has[f]],
               reader.pc = "copy_inputs"
        PROVE  Alike(b)'
    BY <1>2, <1>3, <2>1 DEF CopyShape
  <2>2. CASE /\ reader.todo = {} /\ copy' = copy /\ reader.pc = "copy_inputs"
             /\ reader'.pc = "parse" /\ reader'.todo = {}
    BY <1>2, <2>2 DEF CopyShape
  <2>3. \/ \E f \in reader.todo :
              /\ reader'.pc = reader.pc /\ reader'.todo = reader.todo \ {f}
              /\ copy'.there = copy.there
              /\ copy'.has = [copy.has EXCEPT ![f] = Made(b).has[f]]
              /\ reader.pc = "copy_inputs"
        \/ /\ reader.todo = {} /\ copy' = copy /\ reader.pc = "copy_inputs"
           /\ reader'.pc = "parse" /\ reader'.todo = {}
    BY <1>6, <1>8
  <2> QED
    BY <2>1, <2>2, <2>3
<1>9. CASE Parse \/ ClosedWorld \/ Hash \/ Sign \/ Decision
  <2>1. /\ copy.there = TRUE /\ \A f \in Names : copy.has[f] = Made(b).has[f]
        /\ reader.pc \in {"parse"} \cup AfterParse
        /\ reader.pc # "parse" => parsed = b
    BY <1>9 DEF Parse, ClosedWorld, Hash, Sign, Decision, Checks, ReaderAt
  <2>2. /\ copy.has["manifest"] = b /\ copy.has["marker"] = b /\ copy.has["decision"] = b
        /\ copy.has["signature"] = b /\ copy.has["extra"] = Missing /\ b \in Bundles
    BY <2>1, MadeNames, MadeFiles DEF Names, Listed
  <2>3. copy' = copy /\ reader'.pc \in AfterParse /\ reader'.todo = {} /\ parsed' = b
    BY <1>9, <2>1, <2>2
       DEF Parse, ClosedWorld, Hash, Sign, Decision, Checks, Reads, ReaderAt, Owned, Source,
           Names, Listed
  <2> QED
    BY <2>1, <2>3
<1> QED
  BY <1>4, <1>5, <1>7, <1>8, <1>9 DEF Read

LEMMA QuietStep == QuietInv /\ [Next]_vars => QuietInv'
<1> SUFFICES ASSUME QuietInv, [Next]_vars PROVE QuietInv'
  OBVIOUS
<1>1. CASE Read
  <2>1. UNCHANGED <<output, writer, spent>>
    BY <1>1 DEF Read, List, CopyFiles, Parse, ClosedWorld, Hash, Sign, Decision, Checks
  <2>2. CopyShape'
    BY <1>1 DEF QuietInv, CopyShape, Read, List, CopyFiles, Parse, ClosedWorld, Hash, Sign,
       Decision, Checks, Reads
  <2>3. ASSUME Untouched', NEW b \in Signed, output' = Made(b) PROVE Alike(b)'
    BY <1>1, <2>1, <2>3, ReadAlike DEF QuietInv, Untouched
  <2> QED
    BY <2>1, <2>2, <2>3 DEF QuietInv, StorageShape
<1>2. CASE StorageNext /\ UNCHANGED readerVars
  BY <1>2, StorageStep DEF QuietInv, CopyShape, readerVars
<1>3. CASE UNCHANGED vars
  BY <1>3 DEF vars, QuietInv, StorageShape, CopyShape, Untouched, Alike, Has
<1> QED
  BY <1>1, <1>2, <1>3 DEF Next

-----------------------------------------------------------------------------
(* Whoever has one whole bundle in the copy does not refuse it. *)

(* inputs/ is copied last: whoever gives up while copying has no policy, and *)
(* whoever has all of a signed bundle goes by its manifest.                  *)
WholeInv ==
    /\ CopyShape
    /\ reader.pc \in {"list", "copy", "list_inputs"} => copy.has["policy"] = Missing
    /\ reader.pc = "copy" => reader.todo \subseteq Top
    /\ reader.pc = "copy_inputs" => /\ reader.todo \subseteq Inputs
                                    /\ \A f \in reader.todo : copy.has[f] = Missing
    /\ reader.pc \in AfterParse => \A b \in Signed : copy = Made(b) => parsed = b
    /\ reader.pc = "refused" => \A b \in Signed : copy # Made(b)

LEMMA NoPolicyNoBundle ==
    ASSUME copy.has["policy"] = Missing, NEW b \in Signed
    PROVE  copy # Made(b)
BY MadeFiles

LEMMA WholeInit == Init => WholeInv
BY DEF Init, WholeInv, CopyShape, Gone, AfterParse, Names, Listed

LEMMA ListingWhole ==
    ASSUME WholeInv, CopyShape', List("list", Top, "copy") \/ List("list_inputs", Inputs, "copy_inputs")
    PROVE  WholeInv'
<1> USE DEF AfterParse
<1>1. copy'.has = copy.has /\ copy.has["policy"] = Missing
  BY DEF WholeInv, CopyShape, List, ReaderAt
<1>2. \/ reader'.pc = "refused"
      \/ reader'.pc = "copy" /\ reader'.todo \subseteq Top
      \/ reader'.pc = "copy_inputs" /\ reader'.todo \subseteq Inputs
  BY DEF List, Reads
<1>3. \A f \in Inputs : copy'.has[f] = Missing
  BY <1>1 DEF Inputs
<1>4. ASSUME NEW b \in Signed PROVE copy' # Made(b)
  BY <1>1, MadeFiles
<1> QED
  BY <1>1, <1>2, <1>3, <1>4 DEF WholeInv

LEMMA CopyingWhole ==
    ASSUME WholeInv, CopyShape', CopyFiles("copy", "list_inputs") \/ CopyFiles("copy_inputs", "parse")
    PROVE  WholeInv'
<1> USE DEF AfterParse
<1>1. CopyShape /\ "policy" \notin Top /\ Inputs = {"policy"} /\ "policy" \in Names
  BY DEF WholeInv, Top, Inputs, Names, Listed
<1>2. PICK label \in {"copy", "copy_inputs"} :
          /\ reader.pc = label
          /\ \/ \E f \in reader.todo : /\ copy' = [copy EXCEPT !.has[f] = output.has[f]]
                                       /\ reader' = [reader EXCEPT !.todo = @ \ {f}]
             \/ (\E f \in reader.todo : reader'.pc = "refused") /\ copy' = copy
             \/ reader.todo = {} /\ copy' = copy
                /\ reader'.pc = (IF label = "copy" THEN "list_inputs" ELSE "parse")
  BY DEF CopyFiles, ReaderAt, Reads
<1>3. ASSUME NEW f \in reader.todo, copy' = [copy EXCEPT !.has[f] = output.has[f]],
             reader' = [reader EXCEPT !.todo = @ \ {f}]
      PROVE  WholeInv'
  <2>1. /\ reader'.pc = label /\ reader'.todo = reader.todo \ {f}
        /\ copy'.has = [copy.has EXCEPT ![f] = output.has[f]]
    BY <1>1, <1>2, <1>3 DEF CopyShape
  <2>2. CASE label = "copy"
    <3>1. f # "policy" /\ reader'.todo \subseteq Top /\ copy.has["policy"] = Missing
      BY <1>1, <1>2, <1>3, <2>1, <2>2 DEF WholeInv
    <3>2. copy'.has["policy"] = Missing
      BY <1>1, <2>1, <3>1 DEF CopyShape
    <3> QED BY <2>1, <2>2, <3>1, <3>2 DEF WholeInv
  <2>3. CASE label = "copy_inputs"
    <3>1. reader'.todo = {}
      BY <1>1, <1>2, <1>3, <2>1, <2>3 DEF WholeInv
    <3> QED BY <2>1, <2>3, <3>1 DEF WholeInv
  <2> QED BY <2>2, <2>3
<1>4. CASE (\E f \in reader.todo : reader'.pc = "refused") /\ copy' = copy
  <2>1. copy.has["policy"] = Missing
    BY <1>1, <1>2, <1>4 DEF WholeInv
  <2> QED BY <1>4, <2>1, NoPolicyNoBundle DEF WholeInv
<1>5. CASE reader.todo = {} /\ copy' = copy
           /\ reader'.pc = (IF label = "copy" THEN "list_inputs" ELSE "parse")
  BY <1>2, <1>5 DEF WholeInv
<1> QED
  BY <1>2, <1>3, <1>4, <1>5

LEMMA CheckWhole ==
    ASSUME WholeInv, CopyShape', Parse \/ ClosedWorld \/ Hash \/ Sign \/ Decision
    PROVE  WholeInv'
<1> USE DEF AfterParse
<1>1. /\ copy' = copy /\ reader.pc \in {"parse"} \cup AfterParse
      /\ reader'.pc \in AfterParse \cup {"refused"}
  <2>1. CASE Parse
    BY <2>1 DEF Parse, Checks, Reads, ReaderAt
  <2>2. CASE ClosedWorld
    BY <2>2 DEF ClosedWorld, Checks, Reads, ReaderAt
  <2>3. CASE Hash
    BY <2>3 DEF Hash, Checks, Reads, ReaderAt
  <2>4. CASE Sign
    BY <2>4 DEF Sign, Checks, Reads, ReaderAt
  <2>5. CASE Decision
    BY <2>5 DEF Decision, Checks, Reads, ReaderAt
  <2> QED BY <2>1, <2>2, <2>3, <2>4, <2>5
<1>2. ASSUME NEW b \in Signed, copy = Made(b)
      PROVE  reader'.pc # "refused" /\ parsed' = b
  <2>1. /\ copy.there = TRUE /\ copy.has["manifest"] = b /\ copy.has["marker"] = b
        /\ copy.has["decision"] = b /\ copy.has["signature"] = b /\ copy.has["extra"] = Missing
        /\ b \in Bundles
    BY <1>2, MadeNames, MadeFiles
  <2>2. reader.pc # "parse" => parsed = b
    BY <1>1, <1>2 DEF WholeInv
  <2>3. CASE Parse
    BY <2>1, <2>3 DEF Parse, Checks, Reads, Owned, Source
  <2>4. CASE ClosedWorld
    BY <2>1, <2>2, <2>4 DEF ClosedWorld, Checks, Reads, ReaderAt, Source, Names, Listed
  <2>5. CASE Hash
    BY <1>2, <2>2, <2>5 DEF Hash, Checks, Reads, ReaderAt, Source
  <2>6. CASE Sign
    BY <2>1, <2>2, <2>6 DEF Sign, Checks, Reads, ReaderAt, Source
  <2>7. CASE Decision
    BY <2>1, <2>2, <2>7 DEF Decision, Checks, Reads, ReaderAt, Source
  <2> QED BY <2>3, <2>4, <2>5, <2>6, <2>7
<1> QED
  BY <1>1, <1>2 DEF WholeInv

LEMMA WholeStep == WholeInv /\ [Next]_vars => WholeInv'
<1> SUFFICES ASSUME WholeInv, [Next]_vars PROVE WholeInv'
  OBVIOUS
<1>1. CASE Read
  <2>1. CopyShape'
    BY <1>1 DEF WholeInv, CopyShape, Read, List, CopyFiles, Parse, ClosedWorld, Hash, Sign,
       Decision, Checks, Reads
  <2> QED BY <1>1, <2>1, ListingWhole, CopyingWhole, CheckWhole DEF Read
<1>2. CASE UNCHANGED readerVars
  BY <1>2 DEF readerVars, WholeInv, CopyShape
<1> QED
  BY <1>1, <1>2 DEF Next, vars, readerVars

(* A reader that has copied all of one signed bundle never refuses it, for any *)
(* writers that replace the directory, fail and crash meanwhile, and for any   *)
(* edits; and of a signed bundle that nobody touches it copies all.            *)
THEOREM GenuineNotRefused == Spec => []GenuineIsAccepted
<1>1. Init => QuietInv /\ WholeInv
  BY QuietInit, WholeInit
<1>2. QuietInv /\ WholeInv /\ [Next]_vars => QuietInv' /\ WholeInv'
  BY QuietStep, WholeStep
<1>3. QuietInv => (ReaderAt("refused") /\ Untouched => output \notin {Made(b) : b \in Signed})
  BY DEF QuietInv, Alike, ReaderAt, AfterParse
<1>4. WholeInv => (ReaderAt("refused") => copy \notin {Made(b) : b \in Signed})
  BY DEF WholeInv, ReaderAt
<1>5. QuietInv /\ WholeInv => GenuineIsAccepted
  BY <1>3, <1>4 DEF GenuineIsAccepted, Untouched
<1> QED
  BY <1>1, <1>2, <1>5, PTL DEF Spec
=============================================================================
