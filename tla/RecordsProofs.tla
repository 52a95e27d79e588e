---------------------------- MODULE RecordsProofs ----------------------------
(***************************************************************************)
(* Theorems about DeploymentRecords, for any runs, paths and bounds.       *)
(***************************************************************************)
EXTENDS RecordsInvariant, TLAPS

USE RecordsAssumption DEF RecordsAssumption

-----------------------------------------------------------------------------
(* Where a run can go on without touching its reservations. *)

Proceeds(r) ==
    /\ run[r].pc \in Working \cup {"examine", "release"}
    /\ \E s \in RunState :
         /\ run' = [run EXCEPT ![r] = s]
         /\ s.locks = run[r].locks /\ s.refusedBy = run[r].refusedBy
         /\ s.mutated = run[r].mutated \/ run[r].pc = "admit"
         /\ s.pc \in Working => run[r].pc \in Working
         /\ s.pc \notin Entering
    /\ reserved' = reserved

LEMMA LabelFacts ==
    /\ Labels = {"reserve", "register", "examine", "admit", "mutate", "stage", "recheck",
                 "link_bundle", "link_output", "samefile", "unlink", "unstage", "record",
                 "release", "done", "crashed"}
    /\ Working \subseteq Labels /\ Entering \subseteq Labels /\ Ended \subseteq Labels
    /\ Working \cap (Entering \cup Ended \cup {"release"}) = {}
    /\ Entering \cap (Ended \cup {"release"}) = {}
BY DEF Labels, Working, Publishing, Entering, Ended

LEMMA PathsType == \A r \in Runs : PathsOf(r) \subseteq Paths
BY DEF PathsOf

(* The first name that is left belongs to the run and is not yet reserved. *)
LEMMA FirstIsTodo ==
    ASSUME NEW r \in Runs, NEW p \in Paths, First(p, Todo(r))
    PROVE  p \in PathsOf(r) /\ p \notin run[r].locks
BY DEF First, Todo

LEMMA UniqueFirst ==
    ASSUME NEW names, names \subseteq Paths, NEW p \in Paths, NEW x \in Paths,
           First(p, names), First(x, names)
    PROVE  p = x
<1>1. p \in Nat /\ x \in Nat /\ p <= x /\ x <= p
  BY DEF First
<1> QED
  BY <1>1

-----------------------------------------------------------------------------
(* Working and releasing: every step proceeds, and writes only own files. *)

Ours(r, f) == f.by = r /\ f.kind = "journal"

WritesOwn(r) ==
    \/ files' = files
    \/ /\ run[r].pc \in Working
       /\ \E p \in PathsOf(r), f \in File \cup {Absent} :
            /\ files' = [files EXCEPT ![p] = f]
            /\ p = JournalOf[r] => Ours(r, f)

Recorded(r) == run'[r].mutated => run[r].mutated \/ Ours(r, files'[JournalOf[r]])

Careful(r) == Proceeds(r) /\ WritesOwn(r) /\ Recorded(r) /\ spent' \in Spent

Work(r) == \/ Examine(r) /\ run'[r].pc = "release"
           \/ Admit(r) \/ Mutate(r) \/ RecordFailure(r) \/ Stage(r) \/ Recheck(r)
           \/ LinkBundle(r) \/ LinkOutput(r) \/ SameFile(r) \/ Unlink(r) \/ Unstage(r)

LEMMA FaultType ==
    ASSUME spent \in Spent, Fault
    PROVE  spent' \in Spent
BY DEF Spent, Fault

LEMMA HandlersType ==
    ASSUME NEW s \in RunState
    PROVE  /\ Unpersisted(s) \in RunState /\ Unpersisted(s).locks = s.locks
           /\ Unpersisted(s).refusedBy = s.refusedBy /\ Handled(s).refusedBy = s.refusedBy
           /\ Unpersisted(s).mutated = s.mutated
           /\ Unpersisted(s).pc \in {"record", "release"}
           /\ Handled(s) \in RunState /\ Handled(s).locks = s.locks
           /\ Handled(s).mutated = s.mutated /\ Handled(s).pc = "record"
<1>1. "record" \in Labels /\ "release" \in Labels
  BY LabelFacts
<1>2. Masked(s) \in BOOLEAN
  BY DEF Masked, RunState
<1>3. PICK u : u = Unpersisted(s)
  OBVIOUS
<1>4. u = [s EXCEPT !.pc = IF s.n = 1 THEN "record" ELSE "release", !.recovering = Masked(s)]
  BY <1>3 DEF Unpersisted
<1>5. /\ u \in RunState /\ u.locks = s.locks /\ u.refusedBy = s.refusedBy
      /\ u.mutated = s.mutated /\ u.pc \in {"record", "release"}
  <2> HIDE DEF Masked
  <2> QED
    BY <1>1, <1>2, <1>4 DEF RunState
<1>6. /\ Handled(s) \in RunState /\ Handled(s).locks = s.locks
      /\ Handled(s).refusedBy = s.refusedBy
      /\ Handled(s).mutated = s.mutated /\ Handled(s).pc = "record"
  BY <1>1 DEF RunState, Handled
<1> QED
  BY <1>3, <1>5, <1>6

(* A signal ends the publication of a plan, or starts the cleanup. *)
Cuts(r, label) == Becomes(r, [run[r] EXCEPT !.pc = label, !.recovering = TRUE])

LEMMA PlanFields ==
    ASSUME run \in [Runs -> RunState], NEW r \in Runs, NEW label \in Labels, Cuts(r, label)
    PROVE  \E s \in RunState :
             /\ run' = [run EXCEPT ![r] = s] /\ s.pc = label /\ s.recovering = TRUE
             /\ s.locks = run[r].locks /\ s.mutated = run[r].mutated
             /\ s.n = run[r].n /\ s.refusedBy = run[r].refusedBy
<1>0. run[r] \in RunState
  OBVIOUS
<1>1. PICK s : s = [run[r] EXCEPT !.pc = label, !.recovering = TRUE]
  OBVIOUS
<1>2. s \in RunState
  BY <1>0, <1>1 DEF RunState
<1>3. s.pc = label /\ s.recovering = TRUE /\ s.locks = run[r].locks
  BY <1>0, <1>1 DEF RunState
<1>4. s.mutated = run[r].mutated /\ s.n = run[r].n /\ s.refusedBy = run[r].refusedBy
  BY <1>0, <1>1 DEF RunState
<1>5. run' = [run EXCEPT ![r] = s]
  BY <1>1 DEF Becomes, Cuts
<1> QED
  BY <1>2, <1>3, <1>4, <1>5

(* What a signal does to a run, by what the run is doing. *)
Plan(r) == run[r].pc \in Working /\ run[r].n = 0

LEMMA InterruptCases ==
    ASSUME NEW r \in Runs, Interrupt(r)
    PROVE  \/ run[r].pc \in Working /\ Becomes(r, Handled(run[r]))
           \/ Becomes(r, [run[r] EXCEPT !.pc = "release", !.recovering = TRUE,
                                        !.broken = At(r, "register")])
           \/ Plan(r) /\ Cuts(r, "release")
           \/ /\ Plan(r) /\ run[r].pc \in {"link_output", "unstage"} /\ r \notin Forced
              /\ Cuts(r, "samefile")
           \/ Becomes(r, [run[r] EXCEPT !.pc = "done", !.recovering = TRUE,
                                        !.broken = (run[r].locks # {})])
BY DEF Interrupt, Planning, Plan, Cuts, Working

(* A step of the run that keeps its reservations and what it has mutated.  *)
LEMMA ProceedsRule ==
    ASSUME run \in [Runs -> RunState], NEW r \in Runs,
           run[r].pc \in Working \cup {"examine", "release"},
           NEW s \in RunState, Becomes(r, s), s.locks = run[r].locks,
           s.refusedBy = run[r].refusedBy,
           s.mutated = run[r].mutated \/ run[r].pc = "admit",
           s.pc \in Working => run[r].pc \in Working,
           s.pc \notin Entering, reserved' = reserved
    PROVE  Proceeds(r) /\ run'[r] = s
BY DEF Proceeds, Becomes

LEMMA GoesRule ==
    ASSUME run \in [Runs -> RunState], NEW r \in Runs,
           run[r].pc \in Working \cup {"examine", "release"},
           NEW label \in Labels, Goes(r, label), label \notin Entering,
           label \in Working => run[r].pc \in Working, reserved' = reserved
    PROVE  Proceeds(r) /\ run'[r].mutated = run[r].mutated
<1>1. PICK s : s = [run[r] EXCEPT !.pc = label]
  OBVIOUS
<1>2. s \in RunState /\ s.locks = run[r].locks /\ s.mutated = run[r].mutated /\ s.pc = label
      /\ s.refusedBy = run[r].refusedBy
  BY <1>1 DEF RunState
<1>3. Becomes(r, s)
  BY <1>1 DEF Goes
<1> QED
  BY <1>2, <1>3, ProceedsRule

(* The handler of _deploy, or the end of persist() without a publication. *)
LEMMA HandledRule ==
    ASSUME run \in [Runs -> RunState], NEW r \in Runs, run[r].pc \in Working,
           Becomes(r, Handled(run[r])) \/ Becomes(r, Unpersisted(run[r])),
           reserved' = reserved
    PROVE  Proceeds(r) /\ run'[r].mutated = run[r].mutated
<1>1. run[r] \in RunState
  OBVIOUS
<1>2. {"record", "release"} \cap Entering = {}
  BY DEF Entering
<1> QED
  BY <1>1, <1>2, HandlersType, ProceedsRule

LEMMA CheckpointOwn ==
    ASSUME files \in [Paths -> File \cup {Absent}], run \in [Runs -> RunState],
           NEW r \in Runs, run[r].pc \in Working, Checkpoint(r)
    PROVE  WritesOwn(r) /\ Ours(r, files'[JournalOf[r]])
<1> DEFINE f == [by |-> r, kind |-> "journal", n |-> run[r].n]
<1>1. f \in File
  BY DEF File, Kinds, RunState
<1>2. files' = [files EXCEPT ![JournalOf[r]] = f] /\ JournalOf[r] \in PathsOf(r)
  BY DEF Checkpoint, PathsOf
<1>3. Ours(r, f)
  BY DEF Ours
<1>4. files'[JournalOf[r]] = f
  BY <1>2
<1> QED
  BY <1>1, <1>2, <1>3, <1>4 DEF WritesOwn

LEMMA PublishOwn ==
    ASSUME run \in [Runs -> RunState], NEW r \in Runs, run[r].pc \in Working,
           NEW p \in {BundleOf[r], OutputOf[r]}, NEW kind \in Kinds, Publish(r, p, kind)
    PROVE  WritesOwn(r)
<1> DEFINE f == [by |-> r, kind |-> kind, n |-> run[r].n]
<1>1. f \in File
  BY DEF File, RunState
<1>2. p \in PathsOf(r) /\ p # JournalOf[r]
  BY DEF PathsOf
<1>3. files' = [files EXCEPT ![p] = f]
  BY DEF Publish
<1> QED
  BY <1>1, <1>2, <1>3 DEF WritesOwn

LEMMA StepCareful ==
    ASSUME ReservationInv, NEW r \in Runs, NEW label \in Working,
           NEW next \in Working \cup {"release"}, Step(r, label, next)
    PROVE  Careful(r)
<1>1. run \in [Runs -> RunState] /\ spent \in Spent /\ run[r].pc \in Working
  BY DEF ReservationInv, TypeOK, Step, At
<1>2. next \in Labels /\ next \notin Entering
  BY LabelFacts
<1>3. CASE /\ Becomes(r, [run[r] EXCEPT !.pc = next, !.recovering = Masked(run[r])])
           /\ UNCHANGED spent
  <2>0. PICK b \in BOOLEAN : b = Masked(run[r])
    BY <1>1 DEF Masked, RunState
  <2>1. PICK s : s = [run[r] EXCEPT !.pc = next, !.recovering = b]
    OBVIOUS
  <2>2. s \in RunState /\ s.locks = run[r].locks /\ s.mutated = run[r].mutated /\ s.pc = next
        /\ s.refusedBy = run[r].refusedBy
    BY ZenonT(60), <1>1, <1>2, <2>1 DEF RunState
  <2>3. Becomes(r, s) /\ reserved' = reserved
    BY <1>3, <2>0, <2>1 DEF Step
  <2>4. next \in Working => run[r].pc \in Working
    BY <1>1
  <2>5. Proceeds(r) /\ run'[r] = s
    BY <1>1, <1>2, <2>2, <2>3, <2>4, ProceedsRule
  <2> QED
    BY <1>1, <1>3, <2>2, <2>5 DEF Careful, Step, WritesOwn, Recorded
<1>4. CASE Fault /\ Becomes(r, Unpersisted(run[r]))
  BY <1>1, <1>4, FaultType, HandledRule DEF Careful, Step, WritesOwn, Recorded
<1> QED
  BY <1>3, <1>4 DEF Step

LEMMA AdmitCareful ==
    ASSUME ReservationInv, NEW r \in Runs, Admit(r)
    PROVE  Careful(r)
<1>1. /\ run \in [Runs -> RunState] /\ spent \in Spent /\ run[r].pc = "admit"
      /\ files \in [Paths -> File \cup {Absent}]
  BY DEF ReservationInv, TypeOK, Admit, At
<1>2. {"admit", "mutate", "stage"} \subseteq Working /\ "release" \in Labels
      /\ {"mutate", "stage"} \subseteq Labels
      /\ {"release", "mutate", "stage"} \cap Entering = {}
      /\ "release" \notin Working
  BY DEF Working, Publishing, Labels, Entering, Ended
<1>3. CASE Goes(r, "release") /\ UNCHANGED <<files, spent>>
  BY <1>1, <1>2, <1>3, GoesRule DEF Careful, Admit, WritesOwn, Recorded
<1>a. CASE Goes(r, "stage") /\ UNCHANGED <<files, spent>>
  BY <1>1, <1>2, <1>a, GoesRule DEF Careful, Admit, WritesOwn, Recorded
<1>4. CASE Becomes(r, Handled(run[r])) /\ UNCHANGED files /\ (UNCHANGED spent \/ Fault)
  BY <1>1, <1>2, <1>4, FaultType, HandledRule DEF Careful, Admit, WritesOwn, Recorded
<1>5. CASE /\ Checkpoint(r) /\ UNCHANGED spent
           /\ Becomes(r, [run[r] EXCEPT !.pc = "mutate", !.mutated = TRUE])
  <2>1. PICK s : s = [run[r] EXCEPT !.pc = "mutate", !.mutated = TRUE]
    OBVIOUS
  <2>a. run[r] \in RunState /\ TRUE \in BOOLEAN
    BY <1>1
  <2>2. s \in RunState
    BY <1>2, <2>1, <2>a DEF RunState
  <2>b. s.locks = run[r].locks /\ s.pc = "mutate" /\ s.refusedBy = run[r].refusedBy
    BY <2>1, <2>a DEF RunState
  <2>c. Becomes(r, s) /\ reserved' = reserved
    BY <1>5, <2>1 DEF Admit
  <2>3. Proceeds(r)
    BY <1>1, <1>2, <2>2, <2>b, <2>c, ProceedsRule
  <2>4. WritesOwn(r) /\ Ours(r, files'[JournalOf[r]])
    BY <1>1, <1>2, <1>5, CheckpointOwn
  <2> QED
    BY <1>1, <1>5, <2>3, <2>4 DEF Careful, Recorded
<1> QED
  BY <1>3, <1>a, <1>4, <1>5 DEF Admit

(* The journal is written and the run goes on with the next record. *)
LEMMA NumberedCareful ==
    ASSUME ReservationInv, NEW r \in Runs, run[r].pc \in Working, NEW k \in 0 .. 2,
           Checkpoint(r), UNCHANGED <<spent, reserved>>,
           Becomes(r, [run[r] EXCEPT !.pc = "stage", !.n = k])
    PROVE  Careful(r)
<1>1. /\ run \in [Runs -> RunState] /\ spent \in Spent
      /\ files \in [Paths -> File \cup {Absent}]
  BY DEF ReservationInv, TypeOK
<1>2. "stage" \in Working /\ "stage" \in Labels /\ "stage" \notin Entering
  BY DEF Working, Publishing, Labels, Entering
<1>3. PICK s : s = [run[r] EXCEPT !.pc = "stage", !.n = k]
  OBVIOUS
<1>a. run[r] \in RunState
  BY <1>1
<1>b. s \in RunState
  BY <1>2, <1>3, <1>a DEF RunState
<1>4. s.locks = run[r].locks /\ s.pc = "stage" /\ s.mutated = run[r].mutated
      /\ s.refusedBy = run[r].refusedBy
  BY <1>3, <1>a DEF RunState
<1>c. Becomes(r, s) /\ reserved' = reserved
  BY <1>3
<1>5. Proceeds(r) /\ run'[r] = s
  BY <1>1, <1>2, <1>4, <1>b, <1>c, ProceedsRule
<1>6. WritesOwn(r)
  BY <1>1, CheckpointOwn
<1> QED
  BY <1>1, <1>4, <1>5, <1>6 DEF Careful, Recorded

LEMMA WorkCareful ==
    ASSUME ReservationInv, NEW r \in Runs, Work(r)
    PROVE  Careful(r)
<1>0. /\ run \in [Runs -> RunState] /\ spent \in Spent
      /\ files \in [Paths -> File \cup {Absent}]
  BY DEF ReservationInv, TypeOK
<1>a. /\ {"mutate", "record", "stage", "recheck", "link_bundle", "link_output", "samefile",
           "unlink", "unstage"} \subseteq Working
      /\ Working \cap Entering = {} /\ Working \subseteq Labels /\ "release" \in Labels
      /\ "release" \notin Entering /\ "release" \notin Working
  BY LabelFacts DEF Working, Publishing
<1>1. CASE Examine(r) /\ run'[r].pc = "release"
  <2>1. Goes(r, "release") /\ run[r].pc = "examine"
    BY ZenonT(60), <1>0, <1>1 DEF Examine, At, Goes, Becomes, RunState
  <2> QED
    BY <1>0, <1>1, <1>a, <2>1, GoesRule DEF Careful, Examine, WritesOwn, Recorded
<1>2. CASE Admit(r)
  BY <1>2, AdmitCareful
<1>3. CASE Mutate(r)
  <2>1. run[r].pc \in Working /\ reserved' = reserved
    BY <1>3, <1>a DEF Mutate, At
  <2>2. CASE Checkpoint(r) /\ Becomes(r, [run[r] EXCEPT !.pc = "stage", !.n = 1])
             /\ UNCHANGED spent
    <3>1. 1 \in 0 .. 2 /\ UNCHANGED <<spent, reserved>>
      BY <2>1, <2>2
    <3> QED
      BY <2>1, <2>2, <3>1, NumberedCareful
  <2>3. CASE Becomes(r, Handled(run[r])) /\ UNCHANGED files /\ (UNCHANGED spent \/ Fault)
    BY <1>0, <2>1, <2>3, FaultType, HandledRule DEF Careful, WritesOwn, Recorded
  <2> QED
    BY <1>3, <2>2, <2>3 DEF Mutate
<1>4. CASE RecordFailure(r)
  <2>1. run[r].pc \in Working /\ reserved' = reserved
    BY <1>4, <1>a DEF RecordFailure, At
  <2>2. CASE Checkpoint(r) /\ Becomes(r, [run[r] EXCEPT !.pc = "stage", !.n = 2])
             /\ UNCHANGED spent
    <3>1. 2 \in 0 .. 2 /\ UNCHANGED <<spent, reserved>>
      BY <2>1, <2>2
    <3> QED
      BY <2>1, <2>2, <3>1, NumberedCareful
  <2>3. CASE Fault /\ Goes(r, "release") /\ UNCHANGED files
    BY <1>0, <1>a, <2>1, <2>3, FaultType, GoesRule DEF Careful, WritesOwn, Recorded
  <2> QED
    BY <1>4, <2>2, <2>3 DEF RecordFailure
<1>5. CASE Stage(r) \/ Unstage(r)
  BY <1>5, <1>a, StepCareful DEF Stage, Unstage
<1>6. CASE Recheck(r)
  <2>1. CASE Step(r, "recheck", "link_bundle")
    BY <1>a, <2>1, StepCareful
  <2>2. CASE /\ At(r, "recheck") /\ Becomes(r, Unpersisted(run[r]))
             /\ UNCHANGED <<files, reserved, spent>>
    BY <1>0, <1>a, <2>2, HandledRule DEF Careful, WritesOwn, Recorded, At
  <2> QED
    BY <1>6, <2>1, <2>2 DEF Recheck
<1>7. CASE LinkBundle(r)
  <2>1. run[r].pc \in Working /\ reserved' = reserved
    BY <1>7, <1>a DEF LinkBundle, At
  <2>2. CASE Publish(r, BundleOf[r], "signature") /\ Goes(r, "link_output") /\ UNCHANGED spent
    BY <1>0, <1>a, <2>1, <2>2, PublishOwn, GoesRule DEF Careful, Recorded, Kinds
  <2>3. CASE Becomes(r, Unpersisted(run[r])) /\ UNCHANGED files /\ (UNCHANGED spent \/ Fault)
    BY <1>0, <2>1, <2>3, FaultType, HandledRule DEF Careful, WritesOwn, Recorded
  <2> QED
    BY <1>7, <2>2, <2>3 DEF LinkBundle
<1>8. CASE LinkOutput(r)
  <2>1. run[r].pc \in Working /\ reserved' = reserved
    BY <1>8, <1>a DEF LinkOutput, At
  <2>2. CASE Publish(r, OutputOf[r], "result") /\ Goes(r, "unstage") /\ UNCHANGED spent
    BY <1>0, <1>a, <2>1, <2>2, PublishOwn, GoesRule DEF Careful, Recorded, Kinds
  <2>3. CASE Becomes(r, Unpersisted(run[r])) /\ UNCHANGED files /\ (UNCHANGED spent \/ Fault)
    BY <1>0, <2>1, <2>3, FaultType, HandledRule DEF Careful, WritesOwn, Recorded
  <2>4. CASE Goes(r, "samefile") /\ UNCHANGED files /\ (UNCHANGED spent \/ Fault)
    BY <1>0, <1>a, <2>1, <2>4, FaultType, GoesRule DEF Careful, WritesOwn, Recorded
  <2> QED
    BY <1>8, <2>2, <2>3, <2>4 DEF LinkOutput, Goes
<1>9. CASE SameFile(r)
  <2>1. run[r].pc \in Working /\ UNCHANGED <<files, reserved, spent>>
    BY <1>9, <1>a DEF SameFile, At
  <2>2. CASE Goes(r, "unlink")
    BY <1>0, <1>a, <2>1, <2>2, GoesRule DEF Careful, WritesOwn, Recorded
  <2>3. CASE Becomes(r, Unpersisted(run[r]))
    BY <1>0, <2>1, <2>3, HandledRule DEF Careful, WritesOwn, Recorded
  <2> QED
    BY <1>9, <2>2, <2>3 DEF SameFile
<1>10. CASE Unlink(r)
  <2>1. run[r].pc \in Working /\ reserved' = reserved
    BY <1>10, <1>a DEF Unlink, At
  <2>2. CASE files' = [files EXCEPT ![BundleOf[r]] = Absent] /\ UNCHANGED spent
             /\ Becomes(r, Unpersisted(run[r]))
    <3>1. WritesOwn(r)
      BY <2>1, <2>2 DEF WritesOwn, PathsOf
    <3> QED
      BY <1>0, <2>1, <2>2, <3>1, HandledRule DEF Careful, Recorded
  <2>3. CASE Fault /\ Becomes(r, [Unpersisted(run[r]) EXCEPT !.broken = TRUE])
             /\ UNCHANGED files
    <3>0. run[r] \in RunState
      BY <1>0
    <3>1. PICK s : s = [Unpersisted(run[r]) EXCEPT !.broken = TRUE]
      OBVIOUS
    <3>2. s \in RunState /\ s.locks = run[r].locks /\ s.mutated = run[r].mutated
          /\ s.pc \in {"record", "release"} /\ s.refusedBy = run[r].refusedBy
      <4>1. PICK u : u = Unpersisted(run[r])
        OBVIOUS
      <4>2. u \in RunState /\ u.locks = run[r].locks /\ u.mutated = run[r].mutated
            /\ u.pc \in {"record", "release"} /\ u.refusedBy = run[r].refusedBy
        BY <3>0, <4>1, HandlersType
      <4>3. s = [u EXCEPT !.broken = TRUE]
        BY <3>1, <4>1
      <4> QED
        BY <4>2, <4>3 DEF RunState
    <3>4. Becomes(r, s) /\ s.pc \notin Entering
      BY <1>a, <2>3, <3>1, <3>2
    <3>3. Proceeds(r) /\ run'[r] = s
      BY <1>0, <2>1, <3>2, <3>4, ProceedsRule
    <3> QED
      BY <1>0, <2>3, <3>2, <3>3, FaultType DEF Careful, WritesOwn, Recorded
  <2> QED
    BY <1>10, <2>2, <2>3 DEF Unlink
<1> QED
  BY <1>1, <1>2, <1>3, <1>4, <1>5, <1>6, <1>7, <1>8, <1>9, <1>10 DEF Work

-----------------------------------------------------------------------------
(* The invariant of the reservations. *)

(* What other runs hold is not touched by making a reservation that nobody  *)
(* had, or by dropping one's own.                                           *)
LEMMA OthersKeep ==
    ASSUME ReservationInv, NEW r \in Runs, NEW s \in RunState,
           run' = [run EXCEPT ![r] = s],
           \A p \in Paths : reserved'[p] = reserved[p] \/ reserved[p] \in {Nobody, r},
           NEW x \in Runs, x # r
    PROVE  Remembered(x)' /\ Complete(x)'
<1>1. run'[x] = run[x]
  BY DEF ReservationInv, TypeOK
<1>2. Remembered(x) /\ Complete(x) /\ PathsOf(x) \subseteq Paths
  BY PathsType DEF ReservationInv
<1>3. \A p \in Paths : reserved[p] = x => reserved'[p] = x
  OBVIOUS
<1> QED
  BY <1>1, <1>2, <1>3 DEF Remembered, Complete, At, Todo, First, PathsOf

LEMMA InvRule ==
    ASSUME ReservationInv, NEW r \in Runs, NEW s \in RunState,
           run' = [run EXCEPT ![r] = s],
           reserved' \in [Paths -> Runs \cup {Nobody}],
           \A p \in Paths : reserved'[p] = reserved[p] \/ reserved[p] \in {Nobody, r},
           s.locks \subseteq PathsOf(r),
           \A p \in s.locks : reserved'[p] = r,
           s.pc = "register" =>
               \A p \in Paths : First(p, PathsOf(r) \ s.locks) => reserved'[p] = r,
           s.pc \in Working => s.locks = PathsOf(r),
           s.pc \in Entering => ~s.mutated,
           files' \in [Paths -> File \cup {Absent}], spent' \in Spent
    PROVE  ReservationInv'
<1>1. run \in [Runs -> RunState]
  BY DEF ReservationInv, TypeOK
<1>2. run'[r] = s /\ run' \in [Runs -> RunState]
  BY <1>1
<1>3. Remembered(r)' /\ Complete(r)'
  BY <1>2 DEF Remembered, Complete, At, Todo, PathsOf
<1>4. TypeOK'
  BY <1>2 DEF TypeOK
<1> QED
  BY <1>3, <1>4, OthersKeep DEF ReservationInv

(* The run moves on with the reservations it has. *)
LEMMA LocksKept ==
    ASSUME ReservationInv, NEW r \in Runs, NEW s \in RunState,
           run' = [run EXCEPT ![r] = s], reserved' = reserved,
           s.locks = run[r].locks, s.pc # "register",
           s.pc \in Working => s.locks = PathsOf(r),
           s.pc \in Entering => ~s.mutated,
           files' \in [Paths -> File \cup {Absent}], spent' \in Spent
    PROVE  ReservationInv'
<1>1. Remembered(r) /\ reserved \in [Paths -> Runs \cup {Nobody}]
  BY DEF ReservationInv, TypeOK
<1>2. s.locks \subseteq PathsOf(r) /\ \A p \in s.locks : reserved'[p] = r
  BY <1>1 DEF Remembered
<1>3. \A p \in Paths : reserved'[p] = reserved[p] \/ reserved[p] \in {Nobody, r}
  OBVIOUS
<1>4. reserved' \in [Paths -> Runs \cup {Nobody}]
  BY <1>1
<1> QED
  BY <1>2, <1>3, <1>4, InvRule

LEMMA ReservationInit == Init => ReservationInv
<1> SUFFICES ASSUME Init PROVE ReservationInv
  OBVIOUS
<1>1. [by |-> Outside, kind |-> "other", n |-> 0] \in File
  BY DEF File, Kinds
<1>2. "reserve" \in Labels /\ "reserve" \in Entering /\ "reserve" \notin Working
  BY DEF Labels, Entering, Working, Publishing
<1>3. TypeOK
  BY <1>1, <1>2 DEF Init, TypeOK, RunState, Spent
<1> QED
  BY <1>2, <1>3 DEF Init, ReservationInv, Remembered, Complete, At

LEMMA ReserveKeeps ==
    ASSUME ReservationInv, NEW r \in Runs, Reserve(r)
    PROVE  ReservationInv'
<1>0. /\ TypeOK /\ Remembered(r) /\ Complete(r) /\ run[r] \in RunState
      /\ run[r].pc = "reserve" /\ files' = files /\ PathsOf(r) \subseteq Paths
  BY PathsType DEF ReservationInv, TypeOK, Reserve, At
<1>a. /\ {"register", "release"} \subseteq Labels /\ "register" \in Entering
      /\ {"register", "release"} \cap Working = {} /\ "release" \notin Entering
      /\ "reserve" \in Entering
  BY DEF Labels, Entering, Working, Publishing
<1>1. PICK p \in Paths :
         /\ First(p, Todo(r))
         /\ \/ /\ reserved[p] = Nobody
               /\ reserved' = [reserved EXCEPT ![p] = r]
               /\ Goes(r, "register") /\ UNCHANGED spent
            \/ /\ reserved[p] # Nobody
               /\ Becomes(r, [run[r] EXCEPT !.pc = "release", !.refusedBy = reserved[p]])
               /\ UNCHANGED <<reserved, spent>>
            \/ Fault /\ Goes(r, "release") /\ UNCHANGED reserved
  BY DEF Reserve
<1>2. CASE /\ reserved[p] = Nobody
           /\ reserved' = [reserved EXCEPT ![p] = r]
           /\ Goes(r, "register") /\ UNCHANGED spent
  <2>1. PICK s : s = [run[r] EXCEPT !.pc = "register"]
    OBVIOUS
  <2>2. s \in RunState /\ s.locks = run[r].locks /\ s.mutated = run[r].mutated
        /\ s.pc = "register"
    BY <1>0, <1>a, <2>1 DEF RunState
  <2>3. run' = [run EXCEPT ![r] = s]
    BY <1>2, <2>1 DEF Goes, Becomes
  <2>4. reserved' \in [Paths -> Runs \cup {Nobody}] /\ reserved'[p] = r
        /\ \A x \in Paths : x # p => reserved'[x] = reserved[x]
    BY <1>0, <1>2 DEF TypeOK
  <2>5. \A x \in s.locks : reserved'[x] = r
    BY <1>0, <2>2, <2>4 DEF Remembered
  <2>6. ASSUME NEW x \in Paths, First(x, PathsOf(r) \ s.locks) PROVE reserved'[x] = r
    <3>1. x = p
      BY <1>0, <1>1, <2>2, <2>6, UniqueFirst DEF Todo
    <3> QED
      BY <2>4, <3>1
  <2>7. ~s.mutated /\ s.locks \subseteq PathsOf(r)
    BY <1>0, <1>a, <2>2 DEF Complete, Remembered
  <2> QED
    BY <1>0, <1>a, <1>2, <2>2, <2>3, <2>4, <2>5, <2>6, <2>7, InvRule DEF TypeOK
<1>3. CASE /\ UNCHANGED reserved /\ spent' \in Spent
           /\ \/ Becomes(r, [run[r] EXCEPT !.pc = "release", !.refusedBy = reserved[p]])
              \/ Goes(r, "release")
  <2>1. PICK s \in RunState : /\ run' = [run EXCEPT ![r] = s] /\ s.locks = run[r].locks
                              /\ s.pc = "release"
    <3>1. reserved[p] \in Runs \cup {Nobody}
      BY <1>0 DEF TypeOK
    <3>2. CASE Becomes(r, [run[r] EXCEPT !.pc = "release", !.refusedBy = reserved[p]])
      <4>1. PICK s : s = [run[r] EXCEPT !.pc = "release", !.refusedBy = reserved[p]]
        OBVIOUS
      <4>2. s \in RunState /\ s.locks = run[r].locks /\ s.pc = "release"
        BY <1>0, <1>a, <3>1, <4>1 DEF RunState
      <4> QED
        BY <3>2, <4>1, <4>2 DEF Becomes
    <3>3. CASE Goes(r, "release")
      <4>1. PICK s : s = [run[r] EXCEPT !.pc = "release"]
        OBVIOUS
      <4>2. s \in RunState /\ s.locks = run[r].locks /\ s.pc = "release"
        BY <1>0, <1>a, <4>1 DEF RunState
      <4> QED
        BY <3>3, <4>1, <4>2 DEF Goes, Becomes
    <3> QED
      BY <1>3, <3>2, <3>3
  <2>2. s.pc # "register" /\ s.pc \notin Working /\ s.pc \notin Entering
    BY <1>a, <2>1
  <2>3. files' \in [Paths -> File \cup {Absent}]
    BY <1>0 DEF TypeOK
  <2> QED
    BY <1>3, <2>1, <2>2, <2>3, LocksKept
<1> QED
  BY <1>0, <1>1, <1>2, <1>3, FaultType DEF TypeOK

LEMMA RegisterKeeps ==
    ASSUME ReservationInv, NEW r \in Runs, Register(r)
    PROVE  ReservationInv'
<1>0. /\ TypeOK /\ Remembered(r) /\ Complete(r) /\ run[r] \in RunState
      /\ run[r].pc = "register" /\ files' = files /\ reserved' = reserved
  BY DEF ReservationInv, TypeOK, Register, At
<1>a. /\ {"examine", "release"} \subseteq Labels /\ "register" \in Entering
      /\ {"examine", "release"} \cap Working = {}
  BY DEF Labels, Entering, Working, Publishing
<1>1. PICK p \in Paths :
         /\ First(p, Todo(r))
         /\ \/ /\ Becomes(r, [run[r] EXCEPT !.pc = "examine", !.locks = @ \cup {p}])
               /\ UNCHANGED spent
            \/ /\ Fault
               /\ Becomes(r, [run[r] EXCEPT !.pc = "release", !.locks = @ \cup {p}])
  BY DEF Register
<1>2. PICK s \in RunState : /\ run' = [run EXCEPT ![r] = s]
                            /\ s.locks = run[r].locks \cup {p}
                            /\ s.mutated = run[r].mutated
                            /\ s.pc \in {"examine", "release"}
  <2>1. ASSUME NEW label \in {"examine", "release"},
               Becomes(r, [run[r] EXCEPT !.pc = label, !.locks = @ \cup {p}])
        PROVE  \E s \in RunState : /\ run' = [run EXCEPT ![r] = s]
                                   /\ s.locks = run[r].locks \cup {p}
                                   /\ s.mutated = run[r].mutated
                                   /\ s.pc \in {"examine", "release"}
    <3>1. PICK s : s = [run[r] EXCEPT !.pc = label, !.locks = run[r].locks \cup {p}]
      OBVIOUS
    <3>2. s \in RunState /\ s.locks = run[r].locks \cup {p} /\ s.mutated = run[r].mutated
          /\ s.pc = label
      BY <1>0, <1>a, <3>1 DEF RunState
    <3>3. run' = [run EXCEPT ![r] = s]
      BY <2>1, <3>1 DEF Becomes
    <3> QED
      BY <3>2, <3>3
  <2> QED
    BY <1>1, <2>1
<1>3. reserved[p] = r /\ p \in PathsOf(r)
  BY <1>0, <1>1, FirstIsTodo DEF Remembered, At
<1>4. s.locks \subseteq PathsOf(r) /\ \A x \in s.locks : reserved'[x] = r
  BY <1>0, <1>2, <1>3 DEF Remembered
<1>5. s.pc \notin Working /\ s.pc # "register" /\ ~s.mutated
  BY <1>0, <1>a, <1>2 DEF Complete
<1>6. spent' \in Spent
  BY <1>0, <1>1, FaultType DEF TypeOK
<1>7. /\ \A x \in Paths : reserved'[x] = reserved[x] \/ reserved[x] \in {Nobody, r}
      /\ reserved' \in [Paths -> Runs \cup {Nobody}]
      /\ files' \in [Paths -> File \cup {Absent}]
  BY <1>0 DEF TypeOK
<1> QED
  BY <1>2, <1>4, <1>5, <1>6, <1>7, InvRule

LEMMA ExamineKeeps ==
    ASSUME ReservationInv, NEW r \in Runs, Examine(r), run'[r].pc # "release"
    PROVE  ReservationInv'
<1>0. /\ TypeOK /\ Remembered(r) /\ Complete(r) /\ run[r] \in RunState
      /\ run \in [Runs -> RunState]
      /\ run[r].pc = "examine" /\ UNCHANGED <<files, reserved, spent>>
  BY DEF ReservationInv, TypeOK, Examine, At
<1>1. PICK label \in {"admit", "reserve", "release"} :
         Goes(r, label) /\ (label = "admit" => Todo(r) = {})
  BY DEF Examine
<1>2. PICK s : s = [run[r] EXCEPT !.pc = label]
  OBVIOUS
<1>3. /\ s \in RunState /\ s.locks = run[r].locks /\ s.mutated = run[r].mutated
      /\ s.pc = label
  BY <1>0, <1>2, LabelFacts DEF RunState
<1>4. run' = [run EXCEPT ![r] = s] /\ run'[r] = s
  BY <1>0, <1>1, <1>2 DEF Goes, Becomes
<1>5. s.pc \in {"admit", "reserve"}
  BY <1>3, <1>4
<1>6. s.pc \in Working => s.locks = PathsOf(r)
  BY <1>0, <1>1, <1>3, <1>5 DEF Working, Publishing, Todo, Remembered
<1>7. ~s.mutated
  BY <1>0, <1>3 DEF Complete, Entering
<1> QED
  BY <1>0, <1>3, <1>4, <1>5, <1>6, <1>7, LocksKept DEF TypeOK

LEMMA ReleaseKeeps ==
    ASSUME ReservationInv, NEW r \in Runs, Release(r)
    PROVE  ReservationInv'
<1>0. /\ TypeOK /\ Remembered(r) /\ run[r] \in RunState
      /\ run \in [Runs -> RunState] /\ files' = files /\ run[r].pc = "release"
  BY DEF ReservationInv, TypeOK, Release, At
<1>a. /\ {"done", "release"} \subseteq Labels
      /\ {"done", "release"} \cap Working = {} /\ {"done", "release"} \cap Entering = {}
  BY DEF Labels, Entering, Working, Publishing, Ended
<1>1. CASE Goes(r, "done") /\ UNCHANGED <<reserved, spent>>
  <2>1. PICK s : s = [run[r] EXCEPT !.pc = "done"]
    OBVIOUS
  <2>2. s \in RunState /\ s.locks = run[r].locks /\ s.pc = "done"
    BY <1>0, <1>a, <2>1 DEF RunState
  <2>3. run' = [run EXCEPT ![r] = s]
    BY <1>1, <2>1 DEF Goes, Becomes
  <2> QED
    BY <1>0, <1>1, <1>a, <2>2, <2>3, LocksKept DEF TypeOK
<1>2. CASE \E p \in Paths :
             /\ Last(p, run[r].locks)
             /\ reserved' = [reserved EXCEPT ![p] = Nobody]
             /\ Becomes(r, [run[r] EXCEPT !.locks = @ \ {p}])
             /\ UNCHANGED spent
  <2>1. PICK p \in Paths :
             /\ p \in run[r].locks
             /\ reserved' = [reserved EXCEPT ![p] = Nobody]
             /\ Becomes(r, [run[r] EXCEPT !.locks = run[r].locks \ {p}])
             /\ UNCHANGED spent
    BY <1>2 DEF Last
  <2>2. PICK s : s = [run[r] EXCEPT !.locks = run[r].locks \ {p}]
    OBVIOUS
  <2>3. s \in RunState /\ s.locks = run[r].locks \ {p} /\ s.pc = "release"
    BY <1>0, <2>2 DEF RunState
  <2>4. run' = [run EXCEPT ![r] = s]
    BY <2>1, <2>2 DEF Becomes
  <2>5. reserved[p] = r
    BY <1>0, <2>1 DEF Remembered
  <2>6. /\ reserved' \in [Paths -> Runs \cup {Nobody}]
        /\ \A x \in Paths : x # p => reserved'[x] = reserved[x]
    BY <1>0, <2>1 DEF TypeOK
  <2>7. s.locks \subseteq PathsOf(r) /\ \A x \in s.locks : reserved'[x] = r
    BY <1>0, <2>3, <2>6, PathsType DEF Remembered
  <2>8. s.pc \notin Working /\ s.pc \notin Entering /\ s.pc # "register"
    BY <1>a, <2>3
  <2>9. /\ \A x \in Paths : reserved'[x] = reserved[x] \/ reserved[x] \in {Nobody, r}
        /\ files' \in [Paths -> File \cup {Absent}] /\ spent' \in Spent
    BY <1>0, <2>1, <2>5, <2>6 DEF TypeOK
  <2> QED
    BY <2>3, <2>4, <2>6, <2>7, <2>8, <2>9, InvRule
<1>3. CASE /\ Fault /\ UNCHANGED reserved
           /\ Becomes(r, [run[r] EXCEPT !.pc = "done", !.broken = TRUE])
  <2>1. PICK s : s = [run[r] EXCEPT !.pc = "done", !.broken = TRUE]
    OBVIOUS
  <2>2. s \in RunState /\ s.locks = run[r].locks /\ s.pc = "done"
    BY <1>0, <1>a, <2>1 DEF RunState
  <2>3. run' = [run EXCEPT ![r] = s]
    BY <1>3, <2>1 DEF Becomes
  <2>4. spent' \in Spent
    BY <1>0, <1>3, FaultType DEF TypeOK
  <2> QED
    BY <1>0, <1>3, <1>a, <2>2, <2>3, <2>4, LocksKept DEF TypeOK
<1> QED
  BY <1>1, <1>2, <1>3 DEF Release

LEMMA CarefulKeeps ==
    ASSUME ReservationInv, NEW r \in Runs, Careful(r)
    PROVE  ReservationInv'
<1>0. TypeOK /\ Remembered(r) /\ Complete(r)
  BY DEF ReservationInv
<1>1. PICK s \in RunState :
         /\ run' = [run EXCEPT ![r] = s]
         /\ s.locks = run[r].locks
         /\ s.pc \in Working => run[r].pc \in Working
         /\ s.pc \notin Entering
  BY DEF Careful, Proceeds
<1>2. files' \in [Paths -> File \cup {Absent}]
  BY <1>0, PathsType DEF TypeOK, Careful, WritesOwn
<1>3. s.pc # "register" /\ reserved' = reserved /\ spent' \in Spent
  BY <1>1 DEF Entering, Careful, Proceeds
<1> QED
  BY <1>0, <1>1, <1>2, <1>3, LocksKept DEF Complete

(* Steps that change neither the reservations a run remembers nor whether it *)
(* has mutated anything.                                                     *)
LEMMA FieldsKept ==
    ASSUME run \in [Runs -> RunState], NEW r \in Runs, NEW x \in Runs, NEW label \in Labels,
           \/ Goes(r, label)
           \/ \E y : Becomes(r, [run[r] EXCEPT !.pc = label, !.refusedBy = y])
           \/ Becomes(r, [run[r] EXCEPT !.pc = label, !.broken = TRUE])
    PROVE  run'[x].mutated = run[x].mutated /\ run'[x].locks = run[x].locks
<1>1. run[r] \in RunState
  OBVIOUS
<1>2. PICK s : /\ run' = [run EXCEPT ![r] = s]
               /\ s.mutated = run[r].mutated /\ s.locks = run[r].locks
  <2>1. CASE Goes(r, label)
    <3>1. PICK s : s = [run[r] EXCEPT !.pc = label]
      OBVIOUS
    <3>2. s.mutated = run[r].mutated /\ s.locks = run[r].locks
      BY <1>1, <3>1 DEF RunState
    <3>3. run' = [run EXCEPT ![r] = s]
      BY <2>1, <3>1 DEF Goes, Becomes
    <3> QED
      BY <3>2, <3>3
  <2>2. CASE \E y : Becomes(r, [run[r] EXCEPT !.pc = label, !.refusedBy = y])
    <3>0. PICK y : Becomes(r, [run[r] EXCEPT !.pc = label, !.refusedBy = y])
      BY <2>2
    <3>1. PICK s : s = [run[r] EXCEPT !.pc = label, !.refusedBy = y]
      OBVIOUS
    <3>2. s.mutated = run[r].mutated /\ s.locks = run[r].locks
      BY <1>1, <3>1 DEF RunState
    <3>3. run' = [run EXCEPT ![r] = s]
      BY <3>0, <3>1 DEF Becomes
    <3> QED
      BY <3>2, <3>3
  <2>3. CASE Becomes(r, [run[r] EXCEPT !.pc = label, !.broken = TRUE])
    <3>1. PICK s : s = [run[r] EXCEPT !.pc = label, !.broken = TRUE]
      OBVIOUS
    <3>2. s.mutated = run[r].mutated /\ s.locks = run[r].locks
      BY <1>1, <3>1 DEF RunState
    <3>3. run' = [run EXCEPT ![r] = s]
      BY <2>3, <3>1 DEF Becomes
    <3> QED
      BY <3>2, <3>3
  <2> QED
    BY <2>1, <2>2, <2>3
<1> QED
  BY <1>2

LEMMA LocksChanged ==
    ASSUME run \in [Runs -> RunState], NEW r \in Runs, NEW x \in Runs, NEW names,
           \/ \E label : Becomes(r, [run[r] EXCEPT !.pc = label, !.locks = names])
           \/ Becomes(r, [run[r] EXCEPT !.locks = names])
    PROVE  /\ run'[x].mutated = run[x].mutated
           /\ run'[x].locks = IF x = r THEN names ELSE run[x].locks
<1>1. run[r] \in RunState
  OBVIOUS
<1>2. PICK s : /\ run' = [run EXCEPT ![r] = s]
               /\ s.mutated = run[r].mutated /\ s.locks = names
  <2>1. CASE \E label : Becomes(r, [run[r] EXCEPT !.pc = label, !.locks = names])
    <3>0. PICK label : Becomes(r, [run[r] EXCEPT !.pc = label, !.locks = names])
      BY <2>1
    <3>1. PICK s : s = [run[r] EXCEPT !.pc = label, !.locks = names]
      OBVIOUS
    <3>2. s.mutated = run[r].mutated /\ s.locks = names
      BY <1>1, <3>1 DEF RunState
    <3>3. run' = [run EXCEPT ![r] = s]
      BY <3>0, <3>1 DEF Becomes
    <3> QED
      BY <3>2, <3>3
  <2>2. CASE Becomes(r, [run[r] EXCEPT !.locks = names])
    <3>1. PICK s : s = [run[r] EXCEPT !.locks = names]
      OBVIOUS
    <3>2. s.mutated = run[r].mutated /\ s.locks = names
      BY <1>1, <3>1 DEF RunState
    <3>3. run' = [run EXCEPT ![r] = s]
      BY <2>2, <3>1 DEF Becomes
    <3> QED
      BY <3>2, <3>3
  <2> QED
    BY <2>1, <2>2
<1> QED
  BY <1>2

LEMMA InterruptKeeps ==
    ASSUME ReservationInv, NEW r \in Runs, Interrupt(r)
    PROVE  ReservationInv' /\ UNCHANGED files
           /\ \A x \in Runs : run'[x].mutated = run[x].mutated /\ run'[x].locks = run[x].locks
<1>0. /\ TypeOK /\ Complete(r) /\ run[r] \in RunState /\ run \in [Runs -> RunState]
      /\ UNCHANGED <<files, reserved>>
  BY DEF ReservationInv, TypeOK, Interrupt
<1>1. spent' \in Spent
  BY <1>0 DEF TypeOK, Spent, Interrupt
<1>a. /\ {"done", "release", "record"} \subseteq Labels
      /\ {"done", "release"} \cap Working = {}
      /\ {"done", "release", "record", "samefile"} \cap Entering = {}
  BY DEF Labels, Entering, Working, Publishing, Ended
<1>2. PICK s \in RunState : /\ run' = [run EXCEPT ![r] = s]
                            /\ s.locks = run[r].locks /\ s.mutated = run[r].mutated
                            /\ s.pc \in {"done", "release", "record", "samefile"}
                            /\ s.pc \in {"record", "samefile"} => run[r].pc \in Working
  <2>1. CASE run[r].pc \in Working /\ Becomes(r, Handled(run[r]))
    <3>1. PICK s : s = Handled(run[r])
      OBVIOUS
    <3>2. s \in RunState /\ s.locks = run[r].locks /\ s.mutated = run[r].mutated
          /\ s.pc = "record"
      BY <1>0, <3>1, HandlersType
    <3> QED
      BY <2>1, <3>1, <3>2 DEF Becomes
  <2>2. CASE \E label \in {"done", "release"}, left \in BOOLEAN :
               Becomes(r, [run[r] EXCEPT !.pc = label, !.recovering = TRUE, !.broken = left])
    <3>0. PICK label \in {"done", "release"}, left \in BOOLEAN :
               Becomes(r, [run[r] EXCEPT !.pc = label, !.recovering = TRUE, !.broken = left])
      BY <2>2
    <3>1. PICK s : s = [run[r] EXCEPT !.pc = label, !.recovering = TRUE, !.broken = left]
      OBVIOUS
    <3>2. s \in RunState /\ s.locks = run[r].locks /\ s.mutated = run[r].mutated
          /\ s.pc = label
      BY <1>0, <1>a, <3>1 DEF RunState
    <3>3. run' = [run EXCEPT ![r] = s]
      BY <3>0, <3>1 DEF Becomes
    <3> QED
      BY <3>2, <3>3
  <2>3. CASE Becomes(r, [run[r] EXCEPT !.pc = "release", !.recovering = TRUE,
                                       !.broken = At(r, "register")])
    BY <2>2, <2>3 DEF At
  <2>4. CASE Becomes(r, [run[r] EXCEPT !.pc = "done", !.recovering = TRUE,
                                       !.broken = (run[r].locks # {})])
    BY <2>2, <2>4
  <2>5. ASSUME NEW label \in {"release", "samefile"}, Plan(r), Cuts(r, label)
        PROVE  \E s \in RunState : /\ run' = [run EXCEPT ![r] = s]
                                   /\ s.locks = run[r].locks /\ s.mutated = run[r].mutated
                                   /\ s.pc \in {"done", "release", "record", "samefile"}
                                   /\ s.pc \in {"record", "samefile"} => run[r].pc \in Working
    <3>0. label \in Labels
      BY LabelFacts
    <3>1. PICK s \in RunState :
             /\ run' = [run EXCEPT ![r] = s] /\ s.pc = label /\ s.recovering = TRUE
             /\ s.locks = run[r].locks /\ s.mutated = run[r].mutated
             /\ s.n = run[r].n /\ s.refusedBy = run[r].refusedBy
      BY <1>0, <2>5, <3>0, PlanFields
    <3> QED
      BY <2>5, <3>1 DEF Plan
  <2> QED
    BY <2>1, <2>3, <2>4, <2>5, InterruptCases
<1>3. s.pc # "register" /\ s.pc \notin Entering /\ (s.pc \in Working => run[r].pc \in Working)
  BY <1>a, <1>2
<1>4. ReservationInv'
  BY <1>0, <1>1, <1>2, <1>3, LocksKept DEF Complete, TypeOK
<1> QED
  BY <1>0, <1>2, <1>4

LEMMA CrashKeeps ==
    ASSUME ReservationInv, NEW r \in Runs, Crash(r)
    PROVE  ReservationInv' /\ UNCHANGED files
           /\ \A x \in Runs : run'[x].mutated = run[x].mutated /\ run'[x].locks = run[x].locks
<1>0. /\ TypeOK /\ run[r] \in RunState /\ run \in [Runs -> RunState]
      /\ UNCHANGED <<files, reserved>>
  BY DEF ReservationInv, TypeOK, Crash
<1>1. spent' \in Spent
  BY <1>0 DEF TypeOK, Spent, Crash
<1>2. PICK s : s = [run[r] EXCEPT !.pc = "crashed"]
  OBVIOUS
<1>3. s \in RunState /\ s.locks = run[r].locks /\ s.mutated = run[r].mutated
      /\ s.pc = "crashed"
  BY <1>0, <1>2, LabelFacts DEF RunState
<1>4. run' = [run EXCEPT ![r] = s]
  BY <1>2 DEF Crash, Goes, Becomes
<1>5. s.pc \notin Working /\ s.pc \notin Entering /\ s.pc # "register"
  BY <1>3 DEF Working, Publishing, Entering
<1>6. files' \in [Paths -> File \cup {Absent}]
  BY <1>0 DEF TypeOK
<1>7. ReservationInv'
  BY <1>0, <1>1, <1>3, <1>4, <1>5, <1>6, LocksKept
<1> QED
  BY <1>0, <1>3, <1>4, <1>7

LEMMA OutsideKeeps ==
    ASSUME ReservationInv, OutsideWrites
    PROVE  ReservationInv'
<1>1. files' \in [Paths -> File \cup {Absent}]
  <2>1. [by |-> Outside, kind |-> "other", n |-> 0] \in File
    BY DEF File, Kinds
  <2> QED
    BY <2>1 DEF ReservationInv, TypeOK, OutsideWrites
<1>2. spent' \in Spent
  BY DEF ReservationInv, TypeOK, Spent, OutsideWrites
<1> QED
  BY <1>1, <1>2 DEF ReservationInv, TypeOK, OutsideWrites, Remembered, Complete, At, Todo,
                    First, PathsOf

(* What a run does, as far as its reservations go. *)
LEMMA NextCases ==
    ASSUME ReservationInv, Next
    PROVE  \/ OutsideWrites
           \/ \E r \in Runs : \/ Reserve(r) \/ Register(r) \/ Release(r)
                              \/ Examine(r) /\ run'[r].pc # "release"
                              \/ Work(r) \/ Interrupt(r) \/ Crash(r)
BY DEF Next, Workflow, Work

LEMMA ReservationNext ==
    ASSUME ReservationInv, [Next]_vars
    PROVE  ReservationInv'
<1>1. CASE UNCHANGED vars
  BY <1>1 DEF vars, ReservationInv, TypeOK, Remembered, Complete, At, Todo, First, PathsOf
<1>2. CASE OutsideWrites
  BY <1>2, OutsideKeeps
<1>3. ASSUME NEW r \in Runs, \/ Reserve(r) \/ Register(r) \/ Release(r)
                             \/ Examine(r) /\ run'[r].pc # "release"
                             \/ Work(r) \/ Interrupt(r) \/ Crash(r)
      PROVE  ReservationInv'
  BY <1>3, ReserveKeeps, RegisterKeeps, ReleaseKeeps, ExamineKeeps, WorkCareful, CarefulKeeps,
     InterruptKeeps, CrashKeeps
<1> QED
  BY <1>1, <1>2, <1>3, NextCases

(* __enter__ and _release: at every moment a run holds exactly the paths it   *)
(* remembers, and all of its paths while it works, for any number of runs,    *)
(* paths, failures, signals and crashes.                                      *)
THEOREM ReservationsHeld == Spec => []ReservationInv
<1>1. Init => ReservationInv
  BY ReservationInit
<1>2. ReservationInv /\ [Next]_vars => ReservationInv'
  BY ReservationNext
<1> QED
  BY <1>1, <1>2, PTL DEF Spec

(* __enter__: runs that share a path, as result, journal or signature, never *)
(* work at the same time, with --force-result or without.                    *)
THEOREM ExclusiveWork == Spec => []Exclusive
<1>1. ReservationInv => Exclusive
  <2> SUFFICES ASSUME ReservationInv, NEW r \in Runs, NEW q \in Runs, r # q,
                      run[r].pc \in Working, run[q].pc \in Working,
                      NEW p \in PathsOf(r) \cap PathsOf(q)
               PROVE  FALSE
    BY DEF Exclusive
  <2>1. p \in run[r].locks /\ p \in run[q].locks
    BY DEF ReservationInv, Complete
  <2>2. reserved[p] = r /\ reserved[p] = q
    BY <2>1 DEF ReservationInv, Remembered
  <2> QED
    BY <2>2
<1> QED
  BY <1>1, ReservationsHeld, PTL

-----------------------------------------------------------------------------
(* The recovery journal. *)

(* A run writes only paths that nobody else has reserved. *)
LEMMA OthersJournal ==
    ASSUME ReservationInv, NEW r \in Runs, WritesOwn(r),
           NEW x \in Runs, x # r, JournalOf[x] \in run[x].locks
    PROVE  files'[JournalOf[x]] = files[JournalOf[x]]
<1>1. CASE files' = files
  BY <1>1
<1>2. ASSUME run[r].pc \in Working, NEW p \in PathsOf(r), NEW f,
             files' = [files EXCEPT ![p] = f]
      PROVE  files'[JournalOf[x]] = files[JournalOf[x]]
  <2>1. reserved[p] = r
    BY <1>2 DEF ReservationInv, Complete, Remembered
  <2>2. reserved[JournalOf[x]] = x
    BY DEF ReservationInv, Remembered
  <2>3. JournalOf[x] # p /\ files \in [Paths -> File \cup {Absent}]
    BY <2>1, <2>2 DEF ReservationInv, TypeOK
  <2> QED
    BY <1>2, <2>3
<1> QED
  BY <1>1, <1>2 DEF WritesOwn

LEMMA OwnJournal ==
    ASSUME ReservationInv, NEW r \in Runs, Careful(r), run'[r].mutated,
           run[r].mutated => Ours(r, files[JournalOf[r]])
    PROVE  Ours(r, files'[JournalOf[r]])
<1>0. files \in [Paths -> File \cup {Absent}] /\ JournalOf[r] \in Paths
      /\ PathsOf(r) \subseteq Paths
  BY PathsType DEF ReservationInv, TypeOK
<1>1. CASE Ours(r, files'[JournalOf[r]])
  BY <1>1
<1>2. CASE run[r].mutated
  BY <1>0, <1>2 DEF Careful, WritesOwn
<1> QED
  BY <1>1, <1>2 DEF Careful, Recorded

(* checkpoint() before the mutation: what a run would put back stays on disk  *)
(* from its first mutation until its reservation of the journal is gone,      *)
(* whoever else runs, with or without force.                                  *)
THEOREM JournalSafe == Spec => []JournalKept
<1> DEFINE Kept(r) == run[r].mutated /\ JournalOf[r] \in run[r].locks
                        => Ours(r, files[JournalOf[r]])
<1>1. Init => JournalKept
  BY DEF Init, JournalKept
<1>2. ASSUME ReservationInv, ReservationInv', JournalKept, Next, NEW x \in Runs
      PROVE  Kept(x)'
  <2>0. Kept(x) /\ run \in [Runs -> RunState] /\ run' \in [Runs -> RunState]
    BY <1>2 DEF JournalKept, Ours, ReservationInv, TypeOK
  <2>1. CASE OutsideWrites
    <3>1. PICK p \in Paths : files[p] = Absent
                              /\ files' = [files EXCEPT ![p] =
                                             [by |-> Outside, kind |-> "other", n |-> 0]]
      BY <2>1 DEF OutsideWrites
    <3>2. files \in [Paths -> File \cup {Absent}] /\ JournalOf[x] \in Paths /\ run' = run
      BY <1>2, <2>1 DEF ReservationInv, TypeOK, OutsideWrites
    <3>3. Ours(x, files[JournalOf[x]]) => p # JournalOf[x]
      BY <3>1 DEF Ours, Absent
    <3> QED
      BY <2>0, <3>1, <3>2, <3>3 DEF Ours
  <2>2. ASSUME NEW r \in Runs, Work(r)
        PROVE  Kept(x)'
    <3>1. Careful(r)
      BY <1>2, <2>2, WorkCareful
    <3>2. PICK s \in RunState : run' = [run EXCEPT ![r] = s] /\ s.locks = run[r].locks
      BY <3>1 DEF Careful, Proceeds
    <3>3. CASE x = r
      <4>1. run'[r].locks = run[r].locks
        BY <2>0, <3>2
      <4>2. ASSUME run'[r].mutated, JournalOf[r] \in run[r].locks
            PROVE  Ours(r, files'[JournalOf[r]])
        BY <1>2, <2>0, <3>1, <3>3, <4>2, OwnJournal
      <4> QED
        BY <3>3, <4>1, <4>2 DEF Ours
    <3>4. CASE x # r
      <4>1. run'[x] = run[x]
        BY <2>0, <3>2, <3>4
      <4>2. JournalOf[x] \in run[x].locks => files'[JournalOf[x]] = files[JournalOf[x]]
        BY <1>2, <3>1, <3>4, OthersJournal DEF Careful
      <4> QED
        BY <2>0, <4>1, <4>2 DEF Ours
    <3> QED
      BY <3>3, <3>4
  <2>3. ASSUME NEW r \in Runs, Interrupt(r) \/ Crash(r)
        PROVE  Kept(x)'
    <3>1. files' = files /\ run'[x].mutated = run[x].mutated /\ run'[x].locks = run[x].locks
      BY <1>2, <2>3, InterruptKeeps, CrashKeeps
    <3> QED
      BY <2>0, <3>1 DEF Ours
  <2>4. ASSUME NEW r \in Runs, Reserve(r) \/ (Examine(r) /\ run'[r].pc # "release")
        PROVE  Kept(x)'
    <3>1. files' = files /\ run'[x].mutated = run[x].mutated /\ run'[x].locks = run[x].locks
      <4>1. files' = files
        BY <2>4 DEF Reserve, Examine
      <4>2. \E label \in Labels :
              \/ Goes(r, label)
              \/ \E y : Becomes(r, [run[r] EXCEPT !.pc = label, !.refusedBy = y])
        BY <2>4, LabelFacts DEF Reserve, Examine
      <4> QED
        BY <2>0, <4>1, <4>2, FieldsKept
    <3> QED
      BY <2>0, <3>1 DEF Ours
  <2>5. ASSUME NEW r \in Runs, Register(r)
        PROVE  Kept(x)'
    <3>1. files' = files /\ run'[x].mutated = run[x].mutated
          /\ (x # r => run'[x].locks = run[x].locks)
      <4>1. files' = files
        BY <2>5 DEF Register
      <4>2. \E names, label : Becomes(r, [run[r] EXCEPT !.pc = label, !.locks = names])
        BY <2>5 DEF Register
      <4> QED
        BY <2>0, <4>1, <4>2, LocksChanged
    <3>2. ~run[r].mutated
      BY <1>2, <2>5 DEF ReservationInv, Complete, Register, At, Entering
    <3> QED
      BY <2>0, <3>1, <3>2 DEF Ours
  <2>6. ASSUME NEW r \in Runs, Release(r)
        PROVE  Kept(x)'
    <3>1. files' = files /\ run'[x].mutated = run[x].mutated
          /\ run'[x].locks \subseteq run[x].locks
      <4>1. files' = files
        BY <2>6 DEF Release
      <4>2. CASE \E p : Becomes(r, [run[r] EXCEPT !.locks = run[r].locks \ {p}])
        <5>1. PICK p : Becomes(r, [run[r] EXCEPT !.locks = run[r].locks \ {p}])
          BY <4>2
        <5>2. PICK names : names = run[r].locks \ {p}
          OBVIOUS
        <5>3. Becomes(r, [run[r] EXCEPT !.locks = names])
          BY <5>1, <5>2
        <5>4. /\ run'[x].mutated = run[x].mutated
              /\ run'[x].locks = IF x = r THEN names ELSE run[x].locks
          BY <2>0, <5>3, LocksChanged
        <5> QED
          BY <4>1, <5>2, <5>4
      <4>3. CASE \/ Goes(r, "done")
                 \/ Becomes(r, [run[r] EXCEPT !.pc = "done", !.broken = TRUE])
        BY <2>0, <4>1, <4>3, FieldsKept, LabelFacts
      <4> QED
        BY <2>6, <4>2, <4>3 DEF Release
    <3> QED
      BY <2>0, <3>1 DEF Ours
  <2> QED
    BY <1>2, <2>1, <2>2, <2>3, <2>4, <2>5, <2>6, NextCases
<1>3. ReservationInv /\ ReservationInv' /\ JournalKept /\ [Next]_vars => JournalKept'
  <2>1. CASE UNCHANGED vars
    BY <2>1 DEF vars, JournalKept
  <2>2. CASE Next
    BY <1>2, <2>2 DEF JournalKept, Ours
  <2> QED
    BY <2>1, <2>2
<1> QED
  BY <1>1, <1>3, ReservationsHeld, PTL DEF Spec

-----------------------------------------------------------------------------
(* Refusals. *)

(* A run that is not, or no longer, reserving: it may drop reservations. *)
Leaves(r, s) ==
    /\ run' = [run EXCEPT ![r] = s]
    /\ s.pc \notin Entering /\ s.refusedBy = run[r].refusedBy
    /\ \A x \in Paths : reserved'[x] = reserved[x] \/ (reserved[x] = r /\ reserved'[x] = Nobody)

(* The other runs stay in order as long as nothing is reserved for them. *)
LEMMA OthersInOrder ==
    ASSUME ReservationInv, RefusalInv, NEW r \in Runs, NEW s,
           run' = [run EXCEPT ![r] = s], NEW a \in Runs, a # r,
           \A x \in Paths : reserved'[x] = a => reserved[x] = a
    PROVE  InOrder(a)' /\ run'[a] = run[a]
<1>1. run'[a] = run[a] /\ InOrder(a)
  BY DEF ReservationInv, TypeOK, RefusalInv
<1> QED
  BY <1>1 DEF InOrder, At, Todo, First, PathsOf

LEMMA LeavesKeeps ==
    ASSUME ReservationInv, RefusalInv, NEW r \in Runs, NEW s \in RunState, Leaves(r, s)
    PROVE  RefusalInv'
<1>1. /\ run \in [Runs -> RunState] /\ run'[r] = s
      /\ \A a \in Runs : a # r => run'[a] = run[a]
      /\ \A a \in Runs : run'[a].refusedBy = run[a].refusedBy
  BY DEF ReservationInv, TypeOK, Leaves
<1>2. \A a \in Runs, x \in Paths : reserved'[x] = a => reserved[x] = a
  BY DEF Leaves
<1>3. ASSUME NEW a \in Runs PROVE InOrder(a)'
  <2>1. CASE a = r
    BY <1>1, <2>1 DEF InOrder, Leaves
  <2>2. CASE a # r
    BY <1>2, <2>2, OthersInOrder DEF Leaves
  <2> QED
    BY <2>1, <2>2
<1>4. ASSUME NEW a \in Runs, NEW b \in Runs, run'[a].refusedBy = b
      PROVE  \E p \in Paths : RefusedAt(a, b, p)'
  <2>1. PICK p \in Paths : RefusedAt(a, b, p)
    BY <1>1, <1>4 DEF RefusalInv
  <2>2. run'[b].pc \in Entering => b # r /\ reserved[p] = b
    BY <1>1, <2>1 DEF RefusedAt, Leaves
  <2>3. run'[b].pc \in Entering => reserved'[p] = b
    BY <2>2 DEF Leaves
  <2> QED
    BY <1>2, <2>1, <2>3 DEF RefusedAt
<1>5. NoMutualRefusal'
  BY <1>1 DEF RefusalInv, NoMutualRefusal
<1> QED
  BY <1>3, <1>4, <1>5 DEF RefusalInv

(* Reservations are made in the order of the names. *)
LEMMA MakesOne ==
    ASSUME ReservationInv, RefusalInv, NEW r \in Runs, run[r].pc = "reserve",
           NEW p \in Paths, First(p, Todo(r)), reserved[p] = Nobody,
           reserved' = [reserved EXCEPT ![p] = r],
           NEW s \in RunState, run' = [run EXCEPT ![r] = s],
           s.pc = "register", s.locks = run[r].locks, s.refusedBy = run[r].refusedBy
    PROVE  RefusalInv'
<1>1. /\ run \in [Runs -> RunState] /\ run'[r] = s
      /\ \A a \in Runs : a # r => run'[a] = run[a]
      /\ \A a \in Runs : run'[a].refusedBy = run[a].refusedBy
      /\ reserved'[p] = r /\ \A x \in Paths : x # p => reserved'[x] = reserved[x]
  BY DEF ReservationInv, TypeOK
<1>2. "reserve" \in Entering /\ "register" \in Entering
  BY DEF Entering
<1>3. \A a \in Runs : a # r => \A x \in Paths : reserved'[x] = a => reserved[x] = a
  BY <1>1
<1>4. ASSUME NEW a \in Runs PROVE InOrder(a)'
  <2>1. CASE a = r
    <3>1. InOrder(r) /\ Todo(r)' = Todo(r)
      BY <1>1 DEF RefusalInv, Todo, PathsOf
    <3>2. \A x \in Paths : reserved'[x] = r => x \in run[r].locks \/ x = p
      BY <1>1, <1>2, <3>1 DEF InOrder, At
    <3>3. \A x \in run[r].locks, y \in Todo(r) : x < y
      BY <1>2, <3>1 DEF InOrder
    <3>4. run[r].refusedBy = Nobody
      BY <1>2, <3>1 DEF InOrder
    <3>5. /\ run'[r].refusedBy = Nobody
          /\ \A x \in run'[r].locks, y \in Todo(r)' : x < y
      BY <1>1, <3>1, <3>3, <3>4
    <3>6. \A x \in Paths : x = p => First(x, Todo(r)')
      BY <3>1
    <3>7. \A x \in Paths : reserved'[x] = r =>
             x \in run'[r].locks \/ (At(r, "register")' /\ First(x, Todo(r)'))
      BY <1>1, <3>2, <3>6 DEF At
    <3> QED
      BY <2>1, <3>5, <3>7 DEF InOrder, First
  <2>2. CASE a # r
    BY <1>3, <2>2, OthersInOrder
  <2> QED
    BY <2>1, <2>2
<1>5. ASSUME NEW a \in Runs, NEW b \in Runs, run'[a].refusedBy = b
      PROVE  \E x \in Paths : RefusedAt(a, b, x)'
  <2>1. PICK y \in Paths : RefusedAt(a, b, y)
    BY <1>1, <1>5 DEF RefusalInv
  <2>2. a # r
    BY <1>1, <1>2, <1>5 DEF RefusalInv, InOrder
  <2>3. run'[b].pc \in Entering => reserved[y] = b
    BY <1>1, <1>2, <2>1 DEF RefusedAt
  <2>4. run'[b].pc \in Entering => reserved'[y] = b
    BY <1>1, <2>3
  <2> QED
    BY <1>3, <2>1, <2>2, <2>4 DEF RefusedAt
<1>6. NoMutualRefusal'
  BY <1>1 DEF RefusalInv, NoMutualRefusal
<1> QED
  BY <1>4, <1>5, <1>6 DEF RefusalInv

(* Whoever refuses a run has not been refused by it: that would have been at *)
(* a name both before and after this one.                                    *)
LEMMA Refused ==
    ASSUME ReservationInv, RefusalInv, NEW r \in Runs, run[r].pc = "reserve",
           NEW p \in Paths, First(p, Todo(r)), reserved[p] # Nobody, reserved' = reserved,
           NEW s \in RunState, run' = [run EXCEPT ![r] = s],
           s.pc = "release", s.refusedBy = reserved[p]
    PROVE  RefusalInv'
<1>1. /\ run \in [Runs -> RunState] /\ run'[r] = s
      /\ \A a \in Runs : a # r => run'[a] = run[a]
      /\ Paths \subseteq Nat /\ run[r].locks \subseteq Paths
  BY PathsType DEF ReservationInv, TypeOK, Remembered
<1>2. "reserve" \in Entering /\ "release" \notin Entering /\ InOrder(r)
  BY DEF Entering, RefusalInv
<1>3. \A x \in Paths : reserved[x] = r => x \in run[r].locks /\ x < p
  BY <1>2 DEF InOrder, At, First
<1>4. PICK q \in Runs : reserved[p] = q /\ q # r
  <2>1. p \notin run[r].locks
    BY FirstIsTodo
  <2> QED
    BY <1>3, <2>1 DEF ReservationInv, TypeOK
<1>5. ASSUME NEW a \in Runs PROVE InOrder(a)'
  <2>1. CASE a = r
    BY <1>1, <1>2, <2>1 DEF InOrder
  <2>2. CASE a # r
    BY <2>2, OthersInOrder
  <2> QED
    BY <2>1, <2>2
<1>6. ASSUME NEW a \in Runs, NEW b \in Runs, run'[a].refusedBy = b
      PROVE  \E x \in Paths : RefusedAt(a, b, x)'
  <2>1. CASE a = r
    <3>1. b = q
      BY <1>1, <1>4, <1>6, <2>1
    <3> QED
      BY <1>3, <1>4, <2>1, <3>1 DEF RefusedAt
  <2>2. CASE a # r
    <3>1. PICK y \in Paths : RefusedAt(a, b, y)
      BY <1>1, <1>6, <2>2 DEF RefusalInv
    <3>2. run'[b].pc \in Entering => run[b].pc \in Entering
      BY <1>1, <1>2
    <3> QED
      BY <3>1, <3>2 DEF RefusedAt
  <2> QED
    BY <2>1, <2>2
<1>7. run[q].refusedBy # r
  <2> SUFFICES ASSUME run[q].refusedBy = r PROVE FALSE
    OBVIOUS
  <2>1. PICK y \in Paths : RefusedAt(q, r, y)
    BY DEF RefusalInv
  <2>2. reserved[y] = r /\ p < y
    BY <1>2, <1>4, <2>1 DEF RefusedAt
  <2>3. y < p
    BY <1>3, <2>2
  <2>4. y \in Nat /\ p \in Nat
    OBVIOUS
  <2> QED
    BY <2>2, <2>3, <2>4
<1>8. NoMutualRefusal'
  <2> SUFFICES ASSUME NEW a \in Runs, NEW b \in Runs,
                      run'[a].refusedBy = b, run'[b].refusedBy = a
               PROVE  FALSE
    BY DEF NoMutualRefusal
  <2>1. CASE a # r /\ b # r
    BY <1>1, <2>1 DEF RefusalInv, NoMutualRefusal
  <2>2. CASE a = r
    BY <1>1, <1>4, <1>7, <2>2
  <2>3. CASE b = r
    BY <1>1, <1>4, <1>7, <2>3
  <2> QED
    BY <2>1, <2>2, <2>3
<1> QED
  BY <1>5, <1>6, <1>8 DEF RefusalInv

(* Remembering a reservation, or going on to the next, disturbs no order. *)
LEMMA MovesOn ==
    ASSUME ReservationInv, RefusalInv, NEW r \in Runs, reserved' = reserved,
           NEW s \in RunState, run' = [run EXCEPT ![r] = s],
           s.refusedBy = run[r].refusedBy, run[r].pc \in Entering,
           s.pc \in Entering =>
               /\ \A x \in s.locks, y \in PathsOf(r) \ s.locks : x < y
               /\ \A x \in Paths : reserved[x] = r => x \in s.locks
    PROVE  RefusalInv'
<1>1. /\ run \in [Runs -> RunState] /\ run'[r] = s
      /\ \A a \in Runs : a # r => run'[a] = run[a]
      /\ \A a \in Runs : run'[a].refusedBy = run[a].refusedBy
  BY DEF ReservationInv, TypeOK
<1>2. ASSUME NEW a \in Runs PROVE InOrder(a)'
  <2>1. CASE a = r
    <3>1. run[r].refusedBy = Nobody
      BY DEF RefusalInv, InOrder
    <3> QED
      BY <1>1, <2>1, <3>1 DEF InOrder, Todo, PathsOf
  <2>2. CASE a # r
    BY <2>2, OthersInOrder
  <2> QED
    BY <2>1, <2>2
<1>3. ASSUME NEW a \in Runs, NEW b \in Runs, run'[a].refusedBy = b
      PROVE  \E x \in Paths : RefusedAt(a, b, x)'
  <2>1. PICK y \in Paths : RefusedAt(a, b, y)
    BY <1>1, <1>3 DEF RefusalInv
  <2>2. run'[b].pc \in Entering => run[b].pc \in Entering
    BY <1>1
  <2> QED
    BY <2>1, <2>2 DEF RefusedAt
<1>4. NoMutualRefusal'
  BY <1>1 DEF RefusalInv, NoMutualRefusal
<1> QED
  BY <1>2, <1>3, <1>4 DEF RefusalInv

(* What a signal and a kill leave of the state of a run. *)
Stopped(r, s) ==
    /\ s \in RunState /\ run' = [run EXCEPT ![r] = s]
    /\ UNCHANGED <<files, reserved>>
    /\ s.locks = run[r].locks /\ s.refusedBy = run[r].refusedBy
    /\ s.pc \notin Entering
    /\ \/ s.pc = "crashed" /\ s.recovering = run[r].recovering
       \/ s.pc = "record" /\ run[r].pc \in Working /\ s.recovering /\ ~run[r].recovering
       \/ /\ s.pc = "samefile" /\ Plan(r) /\ run[r].pc \in {"link_output", "unstage"}
          /\ r \notin Forced /\ s.n = run[r].n /\ s.recovering /\ ~run[r].recovering
       \/ s.pc \in {"done", "release"} /\ s.recovering /\ ~run[r].recovering

LEMMA StopLabels ==
    /\ {"done", "release", "record", "samefile", "crashed"} \subseteq Labels
    /\ {"done", "release", "record", "samefile", "crashed"} \cap Entering = {}
    /\ {"done", "release", "crashed"} \cap Working = {}
BY DEF Labels, Entering, Working, Publishing, Ended

LEMMA InterruptStops ==
    ASSUME run \in [Runs -> RunState], NEW r \in Runs, Interrupt(r)
    PROVE  \E s : Stopped(r, s)
<1>0. run[r] \in RunState /\ UNCHANGED <<files, reserved>> /\ ~run[r].recovering
  BY DEF Interrupt
<1>1. CASE run[r].pc \in Working /\ Becomes(r, Handled(run[r]))
  <2>1. PICK s : s = Handled(run[r])
    OBVIOUS
  <2>2. s \in RunState /\ s.locks = run[r].locks /\ s.refusedBy = run[r].refusedBy
        /\ s.pc = "record"
    BY <1>0, <2>1, HandlersType
  <2>3. s.recovering = TRUE
    BY <1>0, <2>1 DEF Handled, RunState
  <2>4. run' = [run EXCEPT ![r] = s]
    BY <1>1, <2>1 DEF Becomes
  <2>5. s.pc \notin Entering
    BY <2>2, StopLabels
  <2>6. Stopped(r, s)
    BY <1>0, <1>1, <2>2, <2>3, <2>4, <2>5 DEF Stopped
  <2> QED
    BY <2>6
<1>2. ASSUME NEW label \in {"done", "release"}, NEW left \in BOOLEAN,
             Becomes(r, [run[r] EXCEPT !.pc = label, !.recovering = TRUE, !.broken = left])
      PROVE  \E s : Stopped(r, s)
  <2>1. PICK s : s = [run[r] EXCEPT !.pc = label, !.recovering = TRUE, !.broken = left]
    OBVIOUS
  <2>2. label \in Labels
    BY StopLabels
  <2>3. s \in RunState /\ s.locks = run[r].locks /\ s.refusedBy = run[r].refusedBy
        /\ s.pc = label
    BY <1>0, <2>1, <2>2 DEF RunState
  <2>4. s.recovering = TRUE
    BY <1>0, <2>1 DEF RunState
  <2>5. run' = [run EXCEPT ![r] = s]
    BY <1>2, <2>1 DEF Becomes
  <2>6. s.pc \notin Entering
    BY <2>3, StopLabels
  <2>7. Stopped(r, s)
    BY <1>0, <2>3, <2>4, <2>5, <2>6 DEF Stopped
  <2> QED
    BY <2>7
<1>3. CASE Becomes(r, [run[r] EXCEPT !.pc = "release", !.recovering = TRUE,
                                     !.broken = At(r, "register")])
  BY <1>2, <1>3 DEF At
<1>4. CASE Becomes(r, [run[r] EXCEPT !.pc = "done", !.recovering = TRUE,
                                     !.broken = (run[r].locks # {})])
  BY <1>2, <1>4
<1>5. ASSUME NEW label \in {"release", "samefile"}, Plan(r),
             label = "samefile" => run[r].pc \in {"link_output", "unstage"} /\ r \notin Forced,
             Cuts(r, label)
      PROVE  \E s : Stopped(r, s)
  <2>0. label \in Labels /\ Cuts(r, label)
    BY <1>5, LabelFacts
  <2>1. PICK s \in RunState :
           /\ run' = [run EXCEPT ![r] = s] /\ s.pc = label /\ s.recovering = TRUE
           /\ s.locks = run[r].locks /\ s.mutated = run[r].mutated
           /\ s.n = run[r].n /\ s.refusedBy = run[r].refusedBy
    BY <2>0, PlanFields
  <2>4. s.pc \notin Entering
    BY <2>1, StopLabels
  <2>5. Stopped(r, s)
    BY <1>0, <1>5, <2>1, <2>4 DEF Stopped
  <2> QED
    BY <2>5
<1> QED
  BY <1>1, <1>3, <1>4, <1>5, InterruptCases

LEMMA CrashStops ==
    ASSUME run \in [Runs -> RunState], NEW r \in Runs, Crash(r)
    PROVE  \E s : Stopped(r, s)
<1>0. run[r] \in RunState /\ UNCHANGED <<files, reserved>>
  BY DEF Crash
<1>1. PICK s : s = [run[r] EXCEPT !.pc = "crashed"]
  OBVIOUS
<1>2. s \in RunState /\ s.locks = run[r].locks /\ s.refusedBy = run[r].refusedBy
      /\ s.pc = "crashed"
  BY <1>0, <1>1, StopLabels DEF RunState
<1>3. s.recovering = run[r].recovering
  BY <1>0, <1>1 DEF RunState
<1>4. run' = [run EXCEPT ![r] = s]
  BY <1>1 DEF Crash, Goes, Becomes
<1>5. s.pc \notin Entering
  BY <1>2, StopLabels
<1>6. Stopped(r, s)
  BY <1>0, <1>2, <1>3, <1>4, <1>5 DEF Stopped
<1> QED
  BY <1>6

(* A step of the run that only moves it to another label. *)
LEMMA GoesFields ==
    ASSUME run \in [Runs -> RunState], NEW r \in Runs, NEW label \in Labels, Goes(r, label)
    PROVE  \E s \in RunState :
             /\ run' = [run EXCEPT ![r] = s] /\ s.pc = label
             /\ s.locks = run[r].locks /\ s.refusedBy = run[r].refusedBy
             /\ s.n = run[r].n /\ s.broken = run[r].broken
             /\ s.recovering = run[r].recovering
<1>1. PICK s : s = [run[r] EXCEPT !.pc = label]
  OBVIOUS
<1>2. run[r] \in RunState
  OBVIOUS
<1>3. s \in RunState /\ s.pc = label /\ s.locks = run[r].locks
      /\ s.refusedBy = run[r].refusedBy
  BY <1>1, <1>2 DEF RunState
<1>4. s.n = run[r].n
  BY <1>1, <1>2 DEF RunState
<1>5. s.broken = run[r].broken /\ s.recovering = run[r].recovering
  BY <1>1, <1>2 DEF RunState
<1>6. run' = [run EXCEPT ![r] = s]
  BY <1>1 DEF Goes, Becomes
<1> QED
  BY <1>3, <1>4, <1>5, <1>6

LEMMA RegisterFields ==
    ASSUME run \in [Runs -> RunState], NEW r \in Runs, Register(r)
    PROVE  \E p \in Paths, s \in RunState :
             /\ First(p, Todo(r))
             /\ run' = [run EXCEPT ![r] = s] /\ s.pc \in {"examine", "release"}
             /\ s.locks = run[r].locks \cup {p} /\ s.refusedBy = run[r].refusedBy
             /\ s.broken = run[r].broken /\ s.recovering = run[r].recovering
<1>1. PICK p \in Paths :
         /\ First(p, Todo(r))
         /\ \/ Becomes(r, [run[r] EXCEPT !.pc = "examine", !.locks = @ \cup {p}])
            \/ Becomes(r, [run[r] EXCEPT !.pc = "release", !.locks = @ \cup {p}])
  BY DEF Register
<1>2. ASSUME NEW label \in {"examine", "release"},
             Becomes(r, [run[r] EXCEPT !.pc = label, !.locks = @ \cup {p}])
      PROVE  \E s \in RunState :
               /\ run' = [run EXCEPT ![r] = s] /\ s.pc \in {"examine", "release"}
               /\ s.locks = run[r].locks \cup {p} /\ s.refusedBy = run[r].refusedBy
               /\ s.broken = run[r].broken /\ s.recovering = run[r].recovering
  <2>1. PICK s : s = [run[r] EXCEPT !.pc = label, !.locks = run[r].locks \cup {p}]
    OBVIOUS
  <2>2. run[r] \in RunState /\ label \in Labels
    BY LabelFacts
  <2>3. s \in RunState /\ s.pc = label /\ s.locks = run[r].locks \cup {p}
        /\ s.refusedBy = run[r].refusedBy
    BY <2>1, <2>2 DEF RunState
  <2>4. s.broken = run[r].broken /\ s.recovering = run[r].recovering
    BY <2>1, <2>2 DEF RunState
  <2>5. run' = [run EXCEPT ![r] = s]
    BY <1>2, <2>1 DEF Becomes
  <2> QED
    BY <2>3, <2>4, <2>5
<1>3. \E s \in RunState :
               /\ run' = [run EXCEPT ![r] = s] /\ s.pc \in {"examine", "release"}
               /\ s.locks = run[r].locks \cup {p} /\ s.refusedBy = run[r].refusedBy
               /\ s.broken = run[r].broken /\ s.recovering = run[r].recovering
  BY <1>1, <1>2
<1> QED
  BY <1>1, <1>3

LEMMA ReleaseFields ==
    ASSUME run \in [Runs -> RunState], NEW r \in Runs, Release(r)
    PROVE  \E s \in RunState :
             /\ run' = [run EXCEPT ![r] = s] /\ s.pc \in {"done", "release"}
             /\ s.refusedBy = run[r].refusedBy /\ s.recovering = run[r].recovering
             /\ run[r].broken => s.broken
<1>0. run[r] \in RunState /\ run[r].pc = "release"
  BY DEF Release, At
<1>1. CASE Goes(r, "done")
  BY <1>1, StopLabels, GoesFields
<1>2. ASSUME NEW p \in Paths, Becomes(r, [run[r] EXCEPT !.locks = @ \ {p}])
      PROVE  \E s \in RunState :
               /\ run' = [run EXCEPT ![r] = s] /\ s.pc \in {"done", "release"}
               /\ s.refusedBy = run[r].refusedBy /\ s.recovering = run[r].recovering
               /\ run[r].broken => s.broken
  <2>1. PICK s : s = [run[r] EXCEPT !.locks = run[r].locks \ {p}]
    OBVIOUS
  <2>2. s \in RunState /\ s.pc = "release" /\ s.refusedBy = run[r].refusedBy
    BY <1>0, <2>1 DEF RunState
  <2>3. s.recovering = run[r].recovering /\ s.broken = run[r].broken
    BY <1>0, <2>1 DEF RunState
  <2>4. run' = [run EXCEPT ![r] = s]
    BY <1>2, <2>1 DEF Becomes
  <2> QED
    BY <2>2, <2>3, <2>4
<1>3. CASE Becomes(r, [run[r] EXCEPT !.pc = "done", !.broken = TRUE])
  <2>1. PICK s : s = [run[r] EXCEPT !.pc = "done", !.broken = TRUE]
    OBVIOUS
  <2>2. s \in RunState /\ s.pc = "done" /\ s.refusedBy = run[r].refusedBy
    BY <1>0, <2>1, StopLabels DEF RunState
  <2>3. s.recovering = run[r].recovering /\ s.broken = TRUE
    BY <1>0, <2>1 DEF RunState
  <2>4. run' = [run EXCEPT ![r] = s]
    BY <1>3, <2>1 DEF Becomes
  <2> QED
    BY <2>2, <2>3, <2>4
<1> QED
  BY <1>1, <1>2, <1>3 DEF Release

LEMMA ReserveOrdered ==
    ASSUME ReservationInv, RefusalInv, NEW r \in Runs, Reserve(r)
    PROVE  RefusalInv'
<1>0. run \in [Runs -> RunState] /\ run[r] \in RunState /\ run[r].pc = "reserve"
  BY DEF ReservationInv, TypeOK, Reserve, At
<1>a. {"register", "release"} \subseteq Labels /\ "release" \notin Entering
  BY LabelFacts DEF Entering
<1>1. PICK p \in Paths :
         /\ First(p, Todo(r))
         /\ \/ /\ reserved[p] = Nobody
               /\ reserved' = [reserved EXCEPT ![p] = r]
               /\ Goes(r, "register")
            \/ /\ reserved[p] # Nobody
               /\ Becomes(r, [run[r] EXCEPT !.pc = "release", !.refusedBy = reserved[p]])
               /\ UNCHANGED reserved
            \/ Goes(r, "release") /\ UNCHANGED reserved
  BY DEF Reserve
<1>2. CASE /\ reserved[p] = Nobody
           /\ reserved' = [reserved EXCEPT ![p] = r]
           /\ Goes(r, "register")
  <2>1. PICK s \in RunState :
           /\ run' = [run EXCEPT ![r] = s] /\ s.pc = "register"
           /\ s.locks = run[r].locks /\ s.refusedBy = run[r].refusedBy
    BY <1>0, <1>2, <1>a, GoesFields
  <2> QED
    BY <1>0, <1>1, <1>2, <2>1, MakesOne
<1>3. CASE /\ reserved[p] # Nobody
           /\ Becomes(r, [run[r] EXCEPT !.pc = "release", !.refusedBy = reserved[p]])
           /\ UNCHANGED reserved
  <2>1. PICK s : s = [run[r] EXCEPT !.pc = "release", !.refusedBy = reserved[p]]
    OBVIOUS
  <2>2. reserved[p] \in Runs \cup {Nobody}
    BY DEF ReservationInv, TypeOK
  <2>3. s \in RunState /\ s.pc = "release" /\ s.refusedBy = reserved[p]
    BY <1>0, <1>a, <2>1, <2>2 DEF RunState
  <2>4. run' = [run EXCEPT ![r] = s] /\ reserved' = reserved
    BY <1>3, <2>1 DEF Becomes
  <2> QED
    BY <1>0, <1>1, <1>3, <2>3, <2>4, Refused
<1>4. CASE Goes(r, "release") /\ UNCHANGED reserved
  <2>1. PICK s \in RunState :
           /\ run' = [run EXCEPT ![r] = s] /\ s.pc = "release"
           /\ s.refusedBy = run[r].refusedBy
    BY <1>0, <1>4, <1>a, GoesFields
  <2>2. Leaves(r, s)
    BY <1>4, <1>a, <2>1 DEF Leaves
  <2> QED
    BY <2>2, LeavesKeeps
<1> QED
  BY <1>1, <1>2, <1>3, <1>4

LEMMA RegisterOrdered ==
    ASSUME ReservationInv, RefusalInv, NEW r \in Runs, Register(r)
    PROVE  RefusalInv'
<1>0. /\ run \in [Runs -> RunState] /\ run[r].pc = "register" /\ run[r].pc \in Entering
      /\ reserved' = reserved /\ InOrder(r) /\ PathsOf(r) \subseteq Paths
      /\ run[r].locks \subseteq PathsOf(r)
  BY PathsType DEF ReservationInv, TypeOK, Remembered, RefusalInv, Register, At, Entering
<1>1. PICK p \in Paths, s \in RunState :
         /\ First(p, Todo(r))
         /\ run' = [run EXCEPT ![r] = s]
         /\ s.locks = run[r].locks \cup {p} /\ s.refusedBy = run[r].refusedBy
  BY <1>0, RegisterFields
<1>2. ASSUME NEW x \in s.locks, NEW y \in PathsOf(r) \ s.locks PROVE x < y
  <2>1. y \in Todo(r) /\ y # p /\ y \in Nat /\ x \in Nat
    BY <1>0, <1>1 DEF Todo
  <2>2. CASE x = p
    <3>1. p <= y
      BY <1>1, <2>1 DEF First
    <3> QED
      BY <2>1, <2>2, <3>1
  <2>3. CASE x \in run[r].locks
    BY <1>0, <2>1, <2>3 DEF InOrder
  <2> QED
    BY <1>1, <2>2, <2>3
<1>3. ASSUME NEW x \in Paths, reserved[x] = r PROVE x \in s.locks
  <2>1. x \in run[r].locks \/ First(x, Todo(r))
    BY <1>0, <1>3 DEF InOrder
  <2>2. Todo(r) \subseteq Paths
    BY <1>0 DEF Todo
  <2>3. First(x, Todo(r)) => x = p
    BY <1>1, <2>2, UniqueFirst
  <2> QED
    BY <1>1, <2>1, <2>3
<1> QED
  BY <1>0, <1>1, <1>2, <1>3, MovesOn

LEMMA ExamineOrdered ==
    ASSUME ReservationInv, RefusalInv, NEW r \in Runs, Examine(r)
    PROVE  RefusalInv'
<1>0. /\ run \in [Runs -> RunState] /\ run[r].pc = "examine" /\ run[r].pc \in Entering
      /\ reserved' = reserved /\ InOrder(r)
  BY DEF ReservationInv, TypeOK, RefusalInv, Examine, At, Entering
<1>1. PICK label \in {"admit", "reserve", "release"} : Goes(r, label)
  BY DEF Examine
<1>2. label \in Labels
  BY LabelFacts
<1>3. PICK s \in RunState :
             /\ run' = [run EXCEPT ![r] = s]
             /\ s.locks = run[r].locks /\ s.refusedBy = run[r].refusedBy
  BY <1>0, <1>1, <1>2, GoesFields
<1>4. \A x \in Paths : reserved[x] = r => x \in s.locks
  BY <1>0, <1>3 DEF InOrder, At
<1>5. \A x \in s.locks, y \in PathsOf(r) \ s.locks : x < y
  BY <1>0, <1>3 DEF InOrder, Todo
<1> QED
  BY <1>0, <1>3, <1>4, <1>5, MovesOn

LEMMA ReleaseOrdered ==
    ASSUME ReservationInv, RefusalInv, NEW r \in Runs, Release(r)
    PROVE  RefusalInv'
<1>0. run \in [Runs -> RunState] /\ Remembered(r) /\ reserved \in [Paths -> Runs \cup {Nobody}]
  BY DEF ReservationInv, TypeOK
<1>1. PICK s \in RunState :
             /\ run' = [run EXCEPT ![r] = s] /\ s.pc \in {"done", "release"}
             /\ s.refusedBy = run[r].refusedBy
  BY <1>0, ReleaseFields
<1>2. \A x \in Paths : reserved'[x] = reserved[x] \/ (reserved[x] = r /\ reserved'[x] = Nobody)
  BY <1>0 DEF Release, Remembered, Last
<1>3. Leaves(r, s)
  BY <1>1, <1>2, StopLabels DEF Leaves
<1> QED
  BY <1>3, LeavesKeeps

LEMMA RefusalNext ==
    ASSUME ReservationInv, RefusalInv, [Next]_vars
    PROVE  RefusalInv'
<1>0. run \in [Runs -> RunState]
  BY DEF ReservationInv, TypeOK
<1>1. CASE UNCHANGED <<run, reserved>>
  BY <1>1 DEF RefusalInv, NoMutualRefusal, InOrder, RefusedAt, At, Todo, First, PathsOf
<1>2. ASSUME NEW r \in Runs, Work(r) PROVE RefusalInv'
  <2>1. PICK s \in RunState :
           /\ run' = [run EXCEPT ![r] = s] /\ s.pc \notin Entering
           /\ s.refusedBy = run[r].refusedBy /\ reserved' = reserved
    BY <1>2, WorkCareful DEF Careful, Proceeds
  <2>2. Leaves(r, s)
    BY <2>1 DEF Leaves
  <2> QED
    BY <2>2, LeavesKeeps
<1>3. ASSUME NEW r \in Runs, Interrupt(r) \/ Crash(r) PROVE RefusalInv'
  <2>1. PICK s : Stopped(r, s)
    BY <1>0, <1>3, InterruptStops, CrashStops
  <2>2. Leaves(r, s) /\ s \in RunState
    BY <2>1 DEF Leaves, Stopped
  <2> QED
    BY <2>2, LeavesKeeps
<1>4. ASSUME NEW r \in Runs, \/ Reserve(r) \/ Register(r) \/ Release(r) \/ Examine(r)
      PROVE  RefusalInv'
  BY <1>4, ReserveOrdered, RegisterOrdered, ReleaseOrdered, ExamineOrdered
<1>5. CASE OutsideWrites
  BY <1>1, <1>5 DEF OutsideWrites
<1>6. CASE UNCHANGED vars
  BY <1>1, <1>6 DEF vars
<1> QED
  BY <1>2, <1>3, <1>4, <1>5, <1>6, NextCases

LEMMA RefusalSafe == Spec => []RefusalInv
<1>1. Init => RefusalInv
  <2> SUFFICES ASSUME Init PROVE RefusalInv
    OBVIOUS
  <2>1. \A r \in Runs : run[r].refusedBy = Nobody /\ run[r].locks = {}
    BY DEF Init
  <2>2. \A x \in Paths : reserved[x] \notin Runs
    BY DEF Init
  <2> QED
    BY <2>1, <2>2 DEF RefusalInv, NoMutualRefusal, InOrder
<1>2. ReservationInv /\ RefusalInv /\ [Next]_vars => RefusalInv'
  BY RefusalNext
<1> QED
  BY <1>1, <1>2, ReservationsHeld, PTL DEF Spec

(* __enter__, sorted(paths): runs that want the same paths, however many and  *)
(* in whatever roles, never refuse each other, because everyone reserves in   *)
(* the order of the names.                                                    *)
THEOREM NeverBothRefused == Spec => []NoMutualRefusal
<1>1. RefusalInv => NoMutualRefusal
  BY DEF RefusalInv
<1> QED
  BY <1>1, RefusalSafe, PTL

-----------------------------------------------------------------------------
(* The signature and its JSON. *)

Marked(r) ==
    files[OutputOf[r]].by = r =>
        \/ files[BundleOf[r]] = [by |-> r, kind |-> "signature", n |-> files[OutputOf[r]].n]
        \/ files[BundleOf[r]].by \in Forced
        \/ Cut(r, files[OutputOf[r]])

Whole(r) == Found(r) /\ Publication(r) /\ Paired(r) /\ Marked(r)

Replaces(r) == run[r].pc \notin {"samefile", "unlink"}

LEMMA MarkerParts ==
    MarkerInv <=> (\A r \in Runs \ Forced : Whole(r)) /\ \A r \in Forced : Replaces(r)
BY DEF MarkerInv, Whole, Marked, CompletionMarker, Replaces

LEMMA MarkerPartsNext ==
    MarkerInv' <=> (\A r \in Runs \ Forced : Whole(r)') /\ \A r \in Forced : Replaces(r)'
BY DEF MarkerInv, Whole, Marked, CompletionMarker, Replaces

(* What a run does to a path: nothing, or it has reserved it and writes its   *)
(* own file or removes one; without force it finds nobody else's there.       *)
Changes(r, p) ==
    \/ files'[p] = files[p]
    \/ /\ reserved[p] = r
       /\ files'[p].by \in {r, Nobody}
       /\ r \in Forced => files'[p].by = r
       /\ r \notin Forced => files[p].by \in {r, Nobody, Outside}

Writes(r, p, f) ==
    /\ run[r].pc \in Working
    /\ p \in PathsOf(r) /\ files' = [files EXCEPT ![p] = f]
    /\ f.by \in {r, Nobody}
    /\ r \in Forced => f.by = r

LEMMA WritesChanges ==
    ASSUME ReservationInv, MarkerInv, NEW r \in Runs,
           files' = files \/ \E p, f : Writes(r, p, f)
    PROVE  \A p \in Paths : Changes(r, p)
<1>1. CASE files' = files
  BY <1>1 DEF Changes
<1>2. ASSUME NEW p, NEW f, Writes(r, p, f), NEW x \in Paths
      PROVE  Changes(r, x)
  <2>1. files \in [Paths -> File \cup {Absent}] /\ run[r].locks = PathsOf(r) /\ p \in Paths
    BY <1>2, PathsType DEF ReservationInv, TypeOK, Complete, Writes
  <2>2. CASE x # p
    BY <1>2, <2>1, <2>2 DEF Changes, Writes
  <2>3. CASE x = p
    <3>1. reserved[p] = r /\ files'[p] = f
      BY <1>2, <2>1 DEF ReservationInv, Remembered, Writes
    <3>2. r \notin Forced => files[p].by \in {r, Nobody, Outside}
      <4>1. SUFFICES ASSUME r \notin Forced PROVE files[p].by \in {r, Nobody, Outside}
        OBVIOUS
      <4>2. Found(r)
        BY <4>1 DEF MarkerInv
      <4>3. ~At(r, "examine")
        BY <1>2, LabelFacts DEF At, Writes, Entering
      <4> QED
        BY <1>2, <2>1, <4>2, <4>3 DEF Found, Writes
    <3> QED
      BY <1>2, <2>3, <3>1, <3>2 DEF Changes, Writes
  <2> QED
    BY <2>2, <2>3
<1> QED
  BY <1>1, <1>2

(* The files of the other unforced runs stay together. *)
LEMMA OthersWhole ==
    ASSUME ReservationInv, MarkerInv, NEW r \in Runs, NEW s, run' = [run EXCEPT ![r] = s],
           \A p \in Paths : Changes(r, p),
           NEW x \in Runs \ Forced, x # r
    PROVE  Whole(x)'
<1>1. /\ run'[x] = run[x] /\ Remembered(x) /\ Complete(x)
      /\ PathsOf(x) \subseteq Paths /\ BundleOf[x] \in Paths /\ OutputOf[x] \in Paths
      /\ BundleOf[x] \in PathsOf(x) /\ OutputOf[x] \in PathsOf(x)
      /\ x # Nobody /\ x # Outside
  BY PathsType DEF ReservationInv, TypeOK, PathsOf
<1>2. Found(x) /\ Publication(x) /\ Paired(x) /\ Marked(x)
  BY MarkerParts DEF Whole
<1>3. \A p \in run[x].locks : files'[p] = files[p]
  BY <1>1 DEF Remembered, Changes
<1>4. Found(x)'
  BY <1>1, <1>2, <1>3 DEF Found, At, Last
<1>5. Linked \cup {"link_bundle", "unstage"} \subseteq Working
  BY DEF Linked, Working, Publishing
<1>6. Publication(x)'
  <2>1. run[x].pc \in Linked \cup {"link_bundle", "unstage"} =>
          files'[BundleOf[x]] = files[BundleOf[x]] /\ files'[OutputOf[x]] = files[OutputOf[x]]
    BY <1>1, <1>3, <1>5 DEF Complete
  <2>2. files'[BundleOf[x]].by = x => files[BundleOf[x]].by = x
    BY <1>1 DEF Changes
  <2>3. files'[BundleOf[x]].by = x => files'[BundleOf[x]] = files[BundleOf[x]]
    BY <1>1 DEF Changes
  <2> QED
    BY <1>1, <1>2, <2>1, <2>2, <2>3 DEF Publication, Cut
<1>7. Paired(x)'
  <2>1. files'[BundleOf[x]].by = x => files'[BundleOf[x]] = files[BundleOf[x]]
    BY <1>1 DEF Changes
  <2>2. files[OutputOf[x]].by \in {x} \cup Forced => files'[OutputOf[x]].by \in {x} \cup Forced
    BY <1>1 DEF Changes
  <2> QED
    BY <1>1, <1>2, <2>1, <2>2 DEF Paired, Cut
<1>8. Marked(x)'
  <2>1. SUFFICES ASSUME files'[OutputOf[x]].by = x, ~(Cut(x, files[OutputOf[x]])')
                 PROVE  \/ files'[BundleOf[x]] =
                             [by |-> x, kind |-> "signature", n |-> files'[OutputOf[x]].n]
                        \/ files'[BundleOf[x]].by \in Forced
    BY DEF Marked
  <2>2. files'[OutputOf[x]] = files[OutputOf[x]]
    BY <1>1, <2>1 DEF Changes
  <2>3. \/ files[BundleOf[x]] =
                [by |-> x, kind |-> "signature", n |-> files[OutputOf[x]].n]
        \/ files[BundleOf[x]].by \in Forced
    BY <1>1, <1>2, <2>1, <2>2 DEF Marked, Cut
  <2>4. CASE files'[BundleOf[x]] = files[BundleOf[x]]
    BY <2>2, <2>3, <2>4
  <2>5. CASE r \in Forced /\ files'[BundleOf[x]].by = r
    BY <2>5
  <2>6. CASE r \notin Forced /\ files[BundleOf[x]].by \in {r, Nobody, Outside}
    BY <1>1, <2>3, <2>6
  <2> QED
    BY <1>1, <2>4, <2>5, <2>6 DEF Changes
<1> QED
  BY <1>4, <1>6, <1>7, <1>8 DEF Whole

(* A step keeps the invariant when it keeps the part of its own run. *)
LEMMA WholeRule ==
    ASSUME ReservationInv, MarkerInv, NEW r \in Runs, NEW s, run' = [run EXCEPT ![r] = s],
           files' = files \/ \E p, f : Writes(r, p, f),
           r \notin Forced => Whole(r)',
           r \in Forced => s.pc \notin {"samefile", "unlink"}
    PROVE  MarkerInv'
<1>1. \A p \in Paths : Changes(r, p)
  BY WritesChanges
<1>2. \A x \in Forced : Replaces(x)'
  BY MarkerParts DEF Replaces, ReservationInv, TypeOK
<1> QED
  BY <1>1, <1>2, OthersWhole, MarkerPartsNext

(* What the run found stays as it was, or is now its own. *)
LEMMA OwnFound ==
    ASSUME ReservationInv, MarkerInv, NEW r \in Runs \ Forced,
           NEW s \in RunState, run' = [run EXCEPT ![r] = s], s.locks = run[r].locks,
           s.pc \notin Entering, s.pc \in Working => run[r].pc \in Working,
           files' = files \/ \E p, f : Writes(r, p, f)
    PROVE  Found(r)'
<1>1. run'[r] = s /\ run[r].locks \subseteq Paths
  BY PathsType DEF ReservationInv, TypeOK, Remembered
<1>2. \A p \in Paths : Changes(r, p)
  BY WritesChanges
<1>3. run[r].pc \in Working => ~At(r, "examine")
  BY LabelFacts DEF At, Entering
<1>4. run[r].pc \in Working => \A p \in run[r].locks : files[p].by \in {r, Nobody, Outside}
  BY <1>3, MarkerParts DEF Whole, Found
<1>5. s.pc \in Working => \A p \in run[r].locks : files'[p].by \in {r, Nobody, Outside}
  BY <1>1, <1>2, <1>4 DEF Changes
<1> QED
  BY <1>1, <1>5 DEF Found

(* Steps away from the publication: the journal may be written. *)
LEMMA Aside ==
    ASSUME ReservationInv, MarkerInv, NEW r \in Runs,
           NEW s \in RunState, run' = [run EXCEPT ![r] = s], s.locks = run[r].locks,
           s.pc \notin Entering, s.pc \in Working => run[r].pc \in Working,
           run[r].pc # "crashed",
           s.pc \notin Linked \cup {"link_bundle", "unstage"},
           run[r].recovering => s.recovering,
           s.pc \in Published /\ s.n # 0 => s.recovering,
           run[r].broken => s.broken,
           r \notin Forced /\ run[r].pc \in Linked => s.broken,
           files' = files \/ \E f : Writes(r, JournalOf[r], f)
    PROVE  MarkerInv'
<1>0. /\ run'[r] = s /\ files \in [Paths -> File \cup {Absent}]
  BY DEF ReservationInv, TypeOK
<1>1. files'[BundleOf[r]] = files[BundleOf[r]] /\ files'[OutputOf[r]] = files[OutputOf[r]]
  BY <1>0 DEF Writes
<1>2. s.pc \notin {"samefile", "unlink"}
  BY DEF Linked
<1>3. ASSUME r \notin Forced PROVE Whole(r)'
  <2>1. Publication(r) /\ Paired(r) /\ Marked(r)
    BY <1>3, MarkerParts DEF Whole
  <2>2. Found(r)'
    BY <1>3, OwnFound
  <2>3. Publication(r)'
    BY <1>0, <1>1, <2>1 DEF Publication
  <2>4. Paired(r)'
    BY <1>0, <1>1, <1>3, <2>1 DEF Paired, Cut
  <2>5. Marked(r)'
    BY <1>0, <1>1, <2>1 DEF Marked, Cut
  <2> QED
    BY <2>2, <2>3, <2>4, <2>5 DEF Whole
<1> QED
  BY <1>2, <1>3, WholeRule

LEMMA HandlersFields ==
    ASSUME NEW s \in RunState, NEW u, u = Handled(s) \/ u = Unpersisted(s)
    PROVE  /\ u \in RunState /\ u.locks = s.locks /\ u.broken = s.broken
           /\ s.recovering => u.recovering
           /\ u.n = s.n /\ u.pc \in {"record", "release"}
<1>1. u \in RunState /\ u.locks = s.locks /\ u.pc \in {"record", "release"}
  BY HandlersType
<1>2. CASE u = Handled(s)
  <2>1. u.broken = s.broken /\ u.recovering = TRUE /\ u.n = s.n
    BY <1>2 DEF Handled, RunState
  <2> QED
    BY <1>1, <2>1
<1>3. CASE u = Unpersisted(s)
  <2>1. u.broken = s.broken /\ u.n = s.n
    BY <1>3 DEF Unpersisted, RunState
  <2>2. u.recovering = Masked(s)
    BY <1>3 DEF Unpersisted, RunState
  <2>3. s.recovering => Masked(s)
    BY DEF Masked
  <2> QED
    BY <1>1, <2>1, <2>2, <2>3
<1> QED
  BY <1>2, <1>3

LEMMA MarkerLabels ==
    /\ Linked \subseteq Working /\ Published \subseteq Working
    /\ {"record", "release", "mutate", "stage"} \cap (Linked \cup Published) = {}
    /\ {"record", "release", "mutate", "stage", "recheck", "crashed", "done"} \cap
          (Linked \cup {"link_bundle", "unstage"}) = {}
    /\ "crashed" \notin Working
BY DEF Linked, Published, Working, Publishing

LEMMA AsideHandled ==
    ASSUME ReservationInv, MarkerInv, NEW r \in Runs, run[r].pc \in Working,
           Becomes(r, Handled(run[r])) \/ Becomes(r, Unpersisted(run[r])),
           files' = files, r \notin Forced => run[r].pc \notin Linked
    PROVE  MarkerInv'
<1>1. PICK u : (u = Handled(run[r]) \/ u = Unpersisted(run[r])) /\ run' = [run EXCEPT ![r] = u]
  BY DEF Becomes
<1>2. run[r] \in RunState
  BY DEF ReservationInv, TypeOK
<1>3. /\ u \in RunState /\ u.locks = run[r].locks /\ u.broken = run[r].broken
      /\ run[r].recovering => u.recovering
      /\ u.pc \in {"record", "release"}
  <2>1. CASE u = Handled(run[r])
    BY <1>2, <2>1, HandlersFields
  <2>2. CASE u = Unpersisted(run[r])
    BY <1>2, <2>2, HandlersFields
  <2> QED
    BY <1>1, <2>1, <2>2
<1>4. /\ u.pc \notin Entering /\ u.pc \notin Linked \cup {"link_bundle", "unstage"}
      /\ u.pc \notin Published /\ run[r].pc # "crashed"
  BY <1>3, StopLabels, MarkerLabels
<1> QED
  BY <1>1, <1>3, <1>4, Aside

(* The evidence is refused, a failure cannot be recorded, or a plan is next. *)
LEMMA AsideGoes ==
    ASSUME ReservationInv, MarkerInv, NEW r \in Runs, run[r].pc \in Working,
           NEW label \in {"release", "stage"}, Goes(r, label), files' = files,
           run[r].pc \notin Linked
    PROVE  MarkerInv'
<1>0. label \in Labels /\ label \notin Entering
  BY DEF Labels, Working, Publishing, Entering
<1>1. PICK s \in RunState : /\ run' = [run EXCEPT ![r] = s] /\ s.pc = label
                            /\ s.locks = run[r].locks /\ s.broken = run[r].broken
                            /\ s.recovering = run[r].recovering
  BY <1>0, GoesFields DEF ReservationInv, TypeOK
<1>2. /\ s.pc \notin Entering /\ run[r].pc # "crashed"
      /\ s.pc \notin Linked \cup {"link_bundle", "unstage"} /\ s.pc \notin Published
  BY <1>0, <1>1, MarkerLabels
<1> QED
  BY <1>1, <1>2, Aside

LEMMA CheckpointWrites ==
    ASSUME NEW r \in Runs, run[r].pc \in Working, Checkpoint(r)
    PROVE  \E f : Writes(r, JournalOf[r], f)
<1>1. PICK f : f = [by |-> r, kind |-> "journal", n |-> run[r].n]
  OBVIOUS
<1>2. f.by = r /\ files' = [files EXCEPT ![JournalOf[r]] = f] /\ JournalOf[r] \in PathsOf(r)
  BY <1>1 DEF Checkpoint, PathsOf
<1>3. Writes(r, JournalOf[r], f)
  BY <1>2 DEF Writes
<1> QED
  BY <1>3

LEMMA AdmitMarked ==
    ASSUME ReservationInv, MarkerInv, NEW r \in Runs, Admit(r)
    PROVE  MarkerInv'
<1>1. run[r].pc = "admit" /\ run[r].pc \in Working /\ run[r].pc \notin Linked /\ run[r] \in RunState
  BY DEF Admit, At, Working, Publishing, Linked, ReservationInv, TypeOK
<1>2. CASE (Goes(r, "release") \/ Goes(r, "stage")) /\ UNCHANGED files
  BY <1>1, <1>2, AsideGoes
<1>3. CASE Becomes(r, Handled(run[r])) /\ UNCHANGED files
  BY <1>1, <1>3, AsideHandled
<1>4. CASE Checkpoint(r) /\ Becomes(r, [run[r] EXCEPT !.pc = "mutate", !.mutated = TRUE])
  <2>1. PICK s : s = [run[r] EXCEPT !.pc = "mutate", !.mutated = TRUE]
    OBVIOUS
  <2>2. "mutate" \in Labels
    BY DEF Labels, Working, Publishing
  <2>3. s \in RunState /\ s.locks = run[r].locks /\ s.pc = "mutate"
    BY <1>1, <2>1, <2>2 DEF RunState
  <2>4. s.broken = run[r].broken /\ s.recovering = run[r].recovering
    BY <1>1, <2>1 DEF RunState
  <2>5. run' = [run EXCEPT ![r] = s]
    BY <1>4, <2>1 DEF Becomes
  <2>6. /\ s.pc \notin Entering
        /\ s.pc \notin Linked \cup {"link_bundle", "unstage"} \cup Published
        /\ run[r].pc # "crashed"
    BY <1>1, <2>3, MarkerLabels DEF Entering
  <2>7. \E f : Writes(r, JournalOf[r], f)
    BY <1>1, <1>4, CheckpointWrites
  <2> QED
    BY <1>1, <2>3, <2>4, <2>5, <2>6, <2>7, Aside
<1> QED
  BY <1>2, <1>3, <1>4 DEF Admit

LEMMA NumberedMarked ==
    ASSUME ReservationInv, MarkerInv, NEW r \in Runs, run[r].pc \in Working, NEW k \in 0 .. 2,
           run[r].pc \notin Linked, Checkpoint(r),
           Becomes(r, [run[r] EXCEPT !.pc = "stage", !.n = k])
    PROVE  MarkerInv'
<1>1. run[r] \in RunState /\ "stage" \in Labels
  BY DEF ReservationInv, TypeOK, Labels, Working, Publishing
<1>2. PICK s : s = [run[r] EXCEPT !.pc = "stage", !.n = k]
  OBVIOUS
<1>3. s \in RunState /\ s.locks = run[r].locks /\ s.pc = "stage"
  BY <1>1, <1>2 DEF RunState
<1>4. s.broken = run[r].broken /\ s.recovering = run[r].recovering
  BY <1>1, <1>2 DEF RunState
<1>5. run' = [run EXCEPT ![r] = s]
  BY <1>2 DEF Becomes
<1>6. /\ s.pc \notin Entering
      /\ s.pc \notin Linked \cup {"link_bundle", "unstage"} \cup Published
      /\ run[r].pc # "crashed"
  BY <1>3, MarkerLabels DEF Entering
<1>7. \E f : Writes(r, JournalOf[r], f)
  BY CheckpointWrites
<1> QED
  BY <1>3, <1>4, <1>5, <1>6, <1>7, Aside

(* The successful outcome of a step of persist(), and its failure. *)
Advances(r, s, next) ==
    /\ s \in RunState
    /\ run' = [run EXCEPT ![r] = s] /\ s.pc = next
    /\ s.locks = run[r].locks /\ s.broken = run[r].broken /\ s.n = run[r].n
    /\ s.recovering = Masked(run[r])

LEMMA StepFields ==
    ASSUME run \in [Runs -> RunState], NEW r \in Runs, NEW label, NEW next \in Labels,
           Step(r, label, next)
    PROVE  /\ run[r].pc = label /\ files' = files
           /\ \/ Becomes(r, Unpersisted(run[r]))
              \/ \E s : Advances(r, s, next)
<1>1. run[r].pc = label /\ files' = files /\ run[r] \in RunState
  BY DEF Step, At
<1>2. CASE Becomes(r, [run[r] EXCEPT !.pc = next, !.recovering = Masked(run[r])])
  <2>0. PICK b \in BOOLEAN : b = Masked(run[r])
    BY <1>1 DEF Masked, RunState
  <2>1. PICK s : s = [run[r] EXCEPT !.pc = next, !.recovering = b]
    BY <2>0
  <2>2. s \in RunState /\ s.locks = run[r].locks /\ s.pc = next
    BY <1>1, <2>1 DEF RunState
  <2>3. s.broken = run[r].broken /\ s.n = run[r].n
    BY <1>1, <2>1 DEF RunState
  <2>6. s.recovering = Masked(run[r])
    BY <1>1, <2>0, <2>1 DEF RunState
  <2>4. run' = [run EXCEPT ![r] = s]
    BY <1>2, <2>0, <2>1 DEF Becomes
  <2>5. Advances(r, s, next)
    BY <2>2, <2>3, <2>4, <2>6 DEF Advances
  <2> QED
    BY <1>1, <2>5
<1> QED
  BY <1>1, <1>2 DEF Step

LEMMA StepMarked ==
    ASSUME ReservationInv, MarkerInv, NEW r \in Runs,
           Step(r, "stage", "recheck") \/ Step(r, "unstage", "release")
    PROVE  MarkerInv'
<1>0. run \in [Runs -> RunState] /\ {"recheck", "release"} \subseteq Labels
      /\ {"stage", "unstage", "recheck"} \subseteq Working /\ {"stage", "unstage"} \cap Linked = {}
      /\ {"recheck", "release"} \cap Entering = {} /\ "release" \notin Working
  BY DEF ReservationInv, TypeOK, Labels, Working, Publishing, Linked, Entering, Ended
<1>1. PICK next \in {"recheck", "release"} :
         /\ run[r].pc \in {"stage", "unstage"} /\ files' = files
         /\ \/ Becomes(r, Unpersisted(run[r]))
            \/ \E s : Advances(r, s, next)
  <2>1. CASE Step(r, "stage", "recheck")
    BY <1>0, <2>1, StepFields
  <2>2. CASE Step(r, "unstage", "release")
    BY <1>0, <2>2, StepFields
  <2> QED
    BY <2>1, <2>2
<1>2. CASE Becomes(r, Unpersisted(run[r]))
  BY <1>0, <1>1, <1>2, AsideHandled
<1>3. ASSUME NEW s, Advances(r, s, next) PROVE MarkerInv'
  <2>1. /\ s.pc \notin Entering /\ s.pc \notin Linked \cup {"link_bundle", "unstage"}
        /\ run[r].pc # "crashed" /\ run[r].pc \in Working /\ run[r].pc \notin Linked
    BY <1>0, <1>1, <1>3, MarkerLabels DEF Advances
  <2>2. /\ run[r].recovering => s.recovering
        /\ s.pc \in Published /\ s.n # 0 => s.recovering
    BY <1>3 DEF Advances, Masked
  <2> QED
    BY <1>1, <1>3, <2>1, <2>2, Aside DEF Advances
<1> QED
  BY <1>1, <1>2, <1>3

LEMMA RecheckMarked ==
    ASSUME ReservationInv, MarkerInv, NEW r \in Runs, Recheck(r)
    PROVE  MarkerInv'
<1>0. /\ run \in [Runs -> RunState] /\ "link_bundle" \in Labels
      /\ {"recheck", "link_bundle"} \subseteq Working /\ {"recheck", "link_bundle"} \cap Linked = {}
      /\ "link_bundle" \notin Entering /\ "link_bundle" \notin {"samefile", "unlink"}
  BY DEF ReservationInv, TypeOK, Labels, Working, Publishing, Linked, Entering
<1>1. run[r].pc = "recheck" /\ files' = files
  BY DEF Recheck, Step, At
<1>2. CASE Becomes(r, Unpersisted(run[r]))
  BY <1>0, <1>1, <1>2, AsideHandled
<1>3. CASE /\ r \in Forced \/ (files[OutputOf[r]] = Absent /\ files[BundleOf[r]] = Absent)
           /\ ~Becomes(r, Unpersisted(run[r])) /\ Step(r, "recheck", "link_bundle")
  <2>0. PICK s : Advances(r, s, "link_bundle")
    BY <1>0, <1>3, StepFields
  <2>1. /\ s \in RunState /\ run' = [run EXCEPT ![r] = s] /\ s.pc = "link_bundle"
        /\ s.locks = run[r].locks /\ s.broken = run[r].broken
        /\ s.n # 0 => s.recovering
    BY <2>0 DEF Advances, Masked
  <2>2. ASSUME r \notin Forced PROVE Whole(r)'
    <3>0. run'[r] = s
      BY <1>0, <2>1
    <3>1. Found(r)'
      BY <1>0, <1>1, <2>1, <2>2, OwnFound
    <3>2. files'[OutputOf[r]].by # r /\ files'[BundleOf[r]].by # r
      BY <1>1, <1>3, <2>2 DEF Absent
    <3>3. Publication(r)'
      BY <1>0, <2>1, <3>0, <3>2 DEF Publication
    <3> QED
      BY <3>1, <3>2, <3>3 DEF Whole, Paired, Marked
  <2> QED
    BY <1>0, <1>1, <2>1, <2>2, WholeRule
<1> QED
  BY <1>2, <1>3 DEF Recheck

LEMMA PublishWrites ==
    ASSUME ReservationInv, NEW r \in Runs, run[r].pc \in Working,
           NEW p \in {BundleOf[r], OutputOf[r]}, NEW kind, Publish(r, p, kind)
    PROVE  /\ \E f : Writes(r, p, f)
           /\ files'[p] = [by |-> r, kind |-> kind, n |-> run[r].n]
           /\ \A x \in Paths : x # p => files'[x] = files[x]
<1>1. PICK f : f = [by |-> r, kind |-> kind, n |-> run[r].n]
  OBVIOUS
<1>2. f.by = r /\ files' = [files EXCEPT ![p] = f] /\ p \in PathsOf(r) /\ p \in Paths
  BY <1>1 DEF Publish, PathsOf
<1>3. Writes(r, p, f)
  BY <1>2 DEF Writes
<1>4. files'[p] = f /\ \A x \in Paths : x # p => files'[x] = files[x]
  BY <1>2 DEF ReservationInv, TypeOK
<1> QED
  BY <1>1, <1>3, <1>4

LEMMA LinkLabels ==
    /\ {"link_bundle", "link_output", "samefile", "unlink", "unstage"} \subseteq Labels \cap Working
    /\ {"link_bundle", "link_output", "samefile", "unlink", "unstage"} \cap Entering = {}
    /\ Linked = {"link_output", "samefile", "unlink"}
    /\ Published = {"link_output", "samefile", "unlink", "link_bundle", "recheck", "unstage"}
BY DEF Labels, Working, Publishing, Entering, Linked, Published

LEMMA LinkBundleMarked ==
    ASSUME ReservationInv, MarkerInv, NEW r \in Runs, LinkBundle(r)
    PROVE  MarkerInv'
<1>0. /\ run \in [Runs -> RunState] /\ run[r].pc = "link_bundle" /\ run[r].pc \in Working
      /\ run[r].pc \notin Linked
  BY LinkLabels DEF ReservationInv, TypeOK, LinkBundle, At
<1>1. CASE Becomes(r, Unpersisted(run[r])) /\ UNCHANGED files
  BY <1>0, <1>1, AsideHandled
<1>2. CASE Publish(r, BundleOf[r], "signature") /\ Goes(r, "link_output")
  <2>1. PICK s \in RunState :
           /\ run' = [run EXCEPT ![r] = s] /\ s.pc = "link_output"
           /\ s.locks = run[r].locks /\ s.n = run[r].n /\ s.recovering = run[r].recovering
    BY <1>0, <1>2, LinkLabels, GoesFields
  <2>a. BundleOf[r] \in {BundleOf[r], OutputOf[r]} /\ OutputOf[r] \in Paths
        /\ Publish(r, BundleOf[r], "signature")
    BY <1>2
  <2>b. PICK p \in {BundleOf[r], OutputOf[r]}, kind \in {"signature"} :
           p = BundleOf[r] /\ Publish(r, p, kind)
    BY <2>a
  <2>c. /\ \E f : Writes(r, p, f)
        /\ files'[p] = [by |-> r, kind |-> kind, n |-> run[r].n]
        /\ \A x \in Paths : x # p => files'[x] = files[x]
    BY <1>0, <2>b, PublishWrites
  <2>2. /\ \E f : Writes(r, BundleOf[r], f)
        /\ files'[BundleOf[r]] = [by |-> r, kind |-> "signature", n |-> run[r].n]
        /\ files'[OutputOf[r]] = files[OutputOf[r]]
    BY <2>a, <2>b, <2>c
  <2>3. ASSUME r \notin Forced PROVE Whole(r)'
    <3>0. run'[r] = s
      BY <1>0, <2>1
    <3>1. Found(r)'
      BY <1>0, <2>1, <2>2, <2>3, LinkLabels, OwnFound
    <3>2. /\ files[OutputOf[r]].by = r => Cut(r, files[OutputOf[r]])
          /\ run[r].n # 0 => run[r].recovering
      BY <1>0, <2>3, MarkerParts, LinkLabels DEF Whole, Publication
    <3>6. files'[OutputOf[r]].by = r => Cut(r, files[OutputOf[r]])'
      BY <2>1, <2>2, <3>0, <3>2 DEF Cut
    <3>7. s.n # 0 => s.recovering
      BY <2>1, <3>2
    <3>8. files'[BundleOf[r]].n = s.n
      BY <2>1, <2>2
    <3>3. Publication(r)'
      BY <2>1, <2>2, <3>0, <3>6, <3>7, <3>8 DEF Publication
    <3>4. Paired(r)'
      BY <2>1, <3>0, LinkLabels DEF Paired
    <3>5. Marked(r)'
      BY <3>6 DEF Marked
    <3> QED
      BY <3>1, <3>3, <3>4, <3>5 DEF Whole
  <2> QED
    BY <2>1, <2>2, <2>3, WholeRule
<1> QED
  BY <1>1, <1>2 DEF LinkBundle

LEMMA LinkOutputMarked ==
    ASSUME ReservationInv, MarkerInv, NEW r \in Runs, LinkOutput(r)
    PROVE  MarkerInv'
<1>0. /\ run \in [Runs -> RunState] /\ run[r].pc = "link_output" /\ run[r].pc \in Working
      /\ run[r].pc \in Linked
  BY LinkLabels DEF ReservationInv, TypeOK, LinkOutput, At
<1>1. CASE r \in Forced /\ Becomes(r, Unpersisted(run[r])) /\ UNCHANGED files
  BY <1>0, <1>1, AsideHandled
<1>a. ASSUME r \notin Forced
      PROVE  /\ files[BundleOf[r]] = [by |-> r, kind |-> "signature", n |-> run[r].n]
             /\ files[OutputOf[r]].by = r => Cut(r, files[OutputOf[r]])
             /\ run[r].n # 0 => run[r].recovering
  BY <1>0, <1>a, MarkerParts, LinkLabels DEF Whole, Publication
<1>2. CASE r \notin Forced /\ Goes(r, "samefile") /\ UNCHANGED files
  <2>1. PICK s \in RunState :
           /\ run' = [run EXCEPT ![r] = s] /\ s.pc = "samefile"
           /\ s.locks = run[r].locks /\ s.n = run[r].n /\ s.recovering = run[r].recovering
    BY <1>0, <1>2, LinkLabels, GoesFields
  <2>2. run'[r] = s
    BY <1>0, <2>1
  <2>3. Found(r)'
    BY <1>0, <1>2, <2>1, LinkLabels, OwnFound
  <2>7. files'[OutputOf[r]].by = r => Cut(r, files[OutputOf[r]])'
    BY <1>2, <1>a, <2>1, <2>2 DEF Cut
  <2>4. Publication(r)'
    BY <1>2, <1>a, <2>1, <2>2, <2>7 DEF Publication
  <2>5. Paired(r)' /\ Marked(r)'
    BY <2>1, <2>2, <2>7, LinkLabels DEF Paired, Marked
  <2>6. Whole(r)'
    BY <2>3, <2>4, <2>5 DEF Whole
  <2> QED
    BY <1>2, <2>1, <2>6, WholeRule
<1>3. CASE Publish(r, OutputOf[r], "result") /\ Goes(r, "unstage")
  <2>1. PICK s \in RunState :
           /\ run' = [run EXCEPT ![r] = s] /\ s.pc = "unstage"
           /\ s.locks = run[r].locks /\ s.n = run[r].n /\ s.recovering = run[r].recovering
    BY <1>0, <1>3, LinkLabels, GoesFields
  <2>a. OutputOf[r] \in {BundleOf[r], OutputOf[r]} /\ BundleOf[r] \in Paths
        /\ Publish(r, OutputOf[r], "result")
    BY <1>3
  <2>b. PICK p \in {BundleOf[r], OutputOf[r]}, kind \in {"result"} :
           p = OutputOf[r] /\ Publish(r, p, kind)
    BY <2>a
  <2>c. /\ \E f : Writes(r, p, f)
        /\ files'[p] = [by |-> r, kind |-> kind, n |-> run[r].n]
        /\ \A x \in Paths : x # p => files'[x] = files[x]
    BY <1>0, <2>b, PublishWrites
  <2>2. /\ \E f : Writes(r, OutputOf[r], f)
        /\ files'[OutputOf[r]] = [by |-> r, kind |-> "result", n |-> run[r].n]
        /\ files'[BundleOf[r]] = files[BundleOf[r]]
    BY <2>a, <2>b, <2>c
  <2>3. ASSUME r \notin Forced PROVE Whole(r)'
    <3>0. run'[r] = s
      BY <1>0, <2>1
    <3>1. Found(r)'
      BY <1>0, <2>1, <2>2, <2>3, LinkLabels, OwnFound
    <3>2. Publication(r)'
      BY <1>a, <2>1, <2>2, <2>3, <3>0, LinkLabels DEF Publication
    <3>3. files'[OutputOf[r]].by = r /\ files'[OutputOf[r]].n = run[r].n
      BY <2>2
    <3>4. Paired(r)' /\ Marked(r)'
      BY <1>a, <2>2, <2>3, <3>3 DEF Paired, Marked
    <3> QED
      BY <3>1, <3>2, <3>4 DEF Whole
  <2>4. s.pc \notin {"samefile", "unlink"}
    BY <2>1
  <2> QED
    BY <2>1, <2>2, <2>3, <2>4, WholeRule
<1>4. CASE r \notin Forced /\ UNCHANGED files /\ Becomes(r, [run[r] EXCEPT !.pc = "samefile"])
  BY <1>2, <1>4 DEF Goes
<1> QED
  BY <1>1, <1>3, <1>4 DEF LinkOutput

LEMMA SameFileMarked ==
    ASSUME ReservationInv, MarkerInv, NEW r \in Runs, SameFile(r)
    PROVE  MarkerInv'
<1>0. /\ run \in [Runs -> RunState] /\ run[r].pc = "samefile" /\ run[r].pc \in Working
      /\ run[r].pc \in Linked /\ files' = files
  BY LinkLabels DEF ReservationInv, TypeOK, SameFile, At
<1>1. r \notin Forced
  BY <1>0, MarkerParts DEF Replaces
<1>2. /\ files[BundleOf[r]] = [by |-> r, kind |-> "signature", n |-> run[r].n]
      /\ files[OutputOf[r]].by = r => Cut(r, files[OutputOf[r]])
      /\ run[r].n # 0 => run[r].recovering
  BY <1>0, <1>1, MarkerParts, LinkLabels DEF Whole, Publication
<1>3. Goes(r, "unlink")
  BY <1>2 DEF SameFile
<1>4. PICK s \in RunState :
           /\ run' = [run EXCEPT ![r] = s] /\ s.pc = "unlink"
           /\ s.locks = run[r].locks /\ s.n = run[r].n /\ s.recovering = run[r].recovering
  BY <1>0, <1>3, LinkLabels, GoesFields
<1>5. run'[r] = s
  BY <1>0, <1>4
<1>6. Found(r)'
  BY <1>0, <1>1, <1>4, LinkLabels, OwnFound
<1>a. files'[OutputOf[r]].by = r => Cut(r, files[OutputOf[r]])'
  BY <1>0, <1>2, <1>4, <1>5 DEF Cut
<1>7. Publication(r)'
  BY <1>0, <1>2, <1>4, <1>5, <1>a DEF Publication
<1>8. Paired(r)' /\ Marked(r)'
  BY <1>4, <1>5, <1>a, LinkLabels DEF Paired, Marked
<1>9. Whole(r)'
  BY <1>6, <1>7, <1>8 DEF Whole
<1> QED
  BY <1>0, <1>1, <1>4, <1>9, WholeRule

LEMMA UnlinkMarked ==
    ASSUME ReservationInv, MarkerInv, NEW r \in Runs, Unlink(r)
    PROVE  MarkerInv'
<1>0. /\ run \in [Runs -> RunState] /\ run[r] \in RunState /\ run[r].pc = "unlink"
      /\ run[r].pc \in Working /\ run[r].pc \in Linked /\ run[r].pc # "crashed"
      /\ files \in [Paths -> File \cup {Absent}]
  BY LinkLabels DEF ReservationInv, TypeOK, Unlink, At
<1>1. r \notin Forced
  BY <1>0, MarkerParts DEF Replaces
<1>2. files[OutputOf[r]].by = r => Cut(r, files[OutputOf[r]])
  BY <1>0, <1>1, MarkerParts, LinkLabels DEF Whole, Publication
<1>3. PICK u : u = Unpersisted(run[r])
  OBVIOUS
<1>4. /\ u \in RunState /\ u.locks = run[r].locks /\ u.broken = run[r].broken
      /\ run[r].recovering => u.recovering
      /\ u.pc \in {"record", "release"}
  BY <1>0, <1>3, HandlersFields
<1>5. /\ u.pc \notin Entering /\ u.pc \notin Linked \cup {"link_bundle", "unstage"}
      /\ u.pc \notin Published /\ u.pc \notin {"samefile", "unlink"}
  BY <1>4, StopLabels, MarkerLabels
<1>6. CASE files' = [files EXCEPT ![BundleOf[r]] = Absent] /\ Becomes(r, Unpersisted(run[r]))
  <2>1. run' = [run EXCEPT ![r] = u] /\ run'[r] = u
    BY <1>0, <1>3, <1>6 DEF Becomes
  <2>2. \E p, f : Writes(r, p, f)
    <3>1. Writes(r, BundleOf[r], Absent)
      BY <1>0, <1>1, <1>6 DEF Writes, PathsOf, Absent
    <3> QED
      BY <3>1
  <2>3. Found(r)'
    BY <1>0, <1>1, <1>4, <1>5, <2>1, <2>2, OwnFound
  <2>4. /\ files'[BundleOf[r]].by # r
        /\ files'[OutputOf[r]].by = r => Cut(r, files[OutputOf[r]])'
    BY <1>0, <1>2, <1>4, <1>6, <2>1 DEF Absent, Cut
  <2>5. Publication(r)'
    BY <1>4, <1>5, <2>1, <2>4 DEF Publication
  <2>6. Whole(r)'
    BY <2>3, <2>4, <2>5 DEF Whole, Paired, Marked
  <2> QED
    BY <1>1, <1>4, <2>1, <2>2, <2>6, WholeRule
<1>7. CASE Becomes(r, [Unpersisted(run[r]) EXCEPT !.broken = TRUE]) /\ UNCHANGED files
  <2>1. PICK s : s = [u EXCEPT !.broken = TRUE]
    OBVIOUS
  <2>2. s \in RunState /\ s.locks = u.locks /\ s.pc = u.pc
    BY <1>4, <2>1 DEF RunState
  <2>3. s.broken = TRUE /\ s.recovering = u.recovering
    BY <1>4, <2>1 DEF RunState
  <2>4. run' = [run EXCEPT ![r] = s]
    BY <1>3, <1>7, <2>1 DEF Becomes
  <2> QED
    BY <1>0, <1>4, <1>5, <1>7, <2>2, <2>3, <2>4, Aside
<1> QED
  BY <1>6, <1>7 DEF Unlink

(* While a run reserves, nothing is published and nothing is removed. *)
LEMMA EnteringMarked ==
    ASSUME ReservationInv, MarkerInv, NEW r \in Runs, files' = files,
           run[r].pc \in Entering \cup {"release"},
           NEW s \in RunState, run' = [run EXCEPT ![r] = s],
           s.pc \in {"register", "reserve", "examine", "admit", "release", "done"},
           s.recovering = run[r].recovering, run[r].broken => s.broken,
           r \notin Forced /\ s.pc \notin {"release", "done"} =>
               \A p \in s.locks : \/ s.pc = "examine" /\ Last(p, s.locks)
                                 \/ files[p].by \in {r, Nobody, Outside}
    PROVE  MarkerInv'
<1>0. run'[r] = s
  BY DEF ReservationInv, TypeOK
<1>1. /\ {"register", "reserve", "examine", "admit", "release", "done"} \cap
            (Linked \cup Published \cup {"link_bundle", "unstage", "crashed"}) = {}
      /\ (Entering \cup {"release"}) \cap (Linked \cup {"crashed"}) = {}
      /\ {"release", "done"} \cap (Entering \cup Working) = {}
  BY DEF Linked, Published, Entering, Working, Publishing
<1>2. ASSUME r \notin Forced PROVE Whole(r)'
  <2>1. Publication(r) /\ Paired(r) /\ Marked(r)
    BY <1>2, MarkerParts DEF Whole
  <2>2. Found(r)'
    BY <1>0, <1>1, <1>2 DEF Found, At, Last
  <2>3. Publication(r)'
    BY <1>0, <1>1, <2>1 DEF Publication
  <2>4. Paired(r)'
    BY <1>0, <1>1, <2>1 DEF Paired, Cut
  <2>5. Marked(r)'
    BY <1>0, <2>1 DEF Marked, Cut
  <2> QED
    BY <2>2, <2>3, <2>4, <2>5 DEF Whole
<1>3. s.pc \notin {"samefile", "unlink"}
  OBVIOUS
<1> QED
  BY <1>2, <1>3, WholeRule

LEMMA ReserveMarked ==
    ASSUME ReservationInv, MarkerInv, NEW r \in Runs, Reserve(r)
    PROVE  MarkerInv'
<1>0. /\ run \in [Runs -> RunState] /\ run[r] \in RunState /\ files' = files
      /\ run[r].pc = "reserve" /\ run[r].pc \in Entering
      /\ {"register", "release"} \subseteq Labels
  BY LabelFacts DEF ReservationInv, TypeOK, Reserve, At, Entering
<1>1. \E s \in RunState :
         /\ run' = [run EXCEPT ![r] = s] /\ s.pc \in {"register", "release"}
         /\ s.locks = run[r].locks /\ s.recovering = run[r].recovering
         /\ s.broken = run[r].broken
  <2>1. CASE Goes(r, "register") \/ Goes(r, "release")
    BY <1>0, <2>1, GoesFields
  <2>2. ASSUME NEW p \in Paths,
               Becomes(r, [run[r] EXCEPT !.pc = "release", !.refusedBy = reserved[p]])
        PROVE  \E s \in RunState :
                 /\ run' = [run EXCEPT ![r] = s] /\ s.pc \in {"register", "release"}
                 /\ s.locks = run[r].locks /\ s.recovering = run[r].recovering
                 /\ s.broken = run[r].broken
    <3>1. PICK s : s = [run[r] EXCEPT !.pc = "release", !.refusedBy = reserved[p]]
      OBVIOUS
    <3>2. reserved[p] \in Runs \cup {Nobody}
      BY DEF ReservationInv, TypeOK
    <3>3. s \in RunState /\ s.pc = "release" /\ s.locks = run[r].locks
      BY <1>0, <3>1, <3>2 DEF RunState
    <3>4. s.recovering = run[r].recovering /\ s.broken = run[r].broken
      BY <1>0, <3>1 DEF RunState
    <3>5. run' = [run EXCEPT ![r] = s]
      BY <2>2, <3>1 DEF Becomes
    <3> QED
      BY <3>3, <3>4, <3>5
  <2> QED
    BY <2>1, <2>2 DEF Reserve
<1>2. r \notin Forced => \A p \in run[r].locks : files[p].by \in {r, Nobody, Outside}
  BY <1>0, MarkerParts DEF Whole, Found, At
<1>3. PICK s \in RunState :
         /\ run' = [run EXCEPT ![r] = s] /\ s.pc \in {"register", "release"}
         /\ s.locks = run[r].locks /\ s.recovering = run[r].recovering
         /\ s.broken = run[r].broken
  BY <1>1
<1>4. s.pc \in {"register", "reserve", "examine", "admit", "release", "done"}
  BY <1>3
<1>5. r \notin Forced /\ s.pc \notin {"release", "done"} =>
        \A p \in s.locks : \/ s.pc = "examine" /\ Last(p, s.locks)
                          \/ files[p].by \in {r, Nobody, Outside}
  BY <1>2, <1>3
<1> QED
  BY <1>0, <1>3, <1>4, <1>5, EnteringMarked

LEMMA RegisterMarked ==
    ASSUME ReservationInv, RefusalInv, MarkerInv, NEW r \in Runs, Register(r)
    PROVE  MarkerInv'
<1>0. /\ run \in [Runs -> RunState] /\ files' = files /\ PathsOf(r) \subseteq Paths
      /\ run[r].pc = "register" /\ run[r].pc \in Entering
      /\ run[r].locks \subseteq PathsOf(r)
  BY PathsType DEF ReservationInv, TypeOK, Remembered, Register, At, Entering
<1>1. PICK p \in Paths, s \in RunState :
         /\ First(p, Todo(r))
         /\ run' = [run EXCEPT ![r] = s] /\ s.pc \in {"examine", "release"}
         /\ s.locks = run[r].locks \cup {p}
         /\ s.recovering = run[r].recovering /\ s.broken = run[r].broken
  BY <1>0, RegisterFields
<1>2. r \notin Forced => \A x \in run[r].locks : files[x].by \in {r, Nobody, Outside}
  BY <1>0, MarkerParts DEF Whole, Found, At
<1>3. Last(p, s.locks)
  <2>1. \A x \in run[r].locks : x < p
    BY <1>0, <1>1 DEF RefusalInv, InOrder, First
  <2>2. \A x \in s.locks : x \in Nat /\ p \in Nat
    BY <1>0, <1>1
  <2> QED
    BY <1>1, <2>1, <2>2 DEF Last
<1>4. s.pc \in {"register", "reserve", "examine", "admit", "release", "done"}
  BY <1>1
<1>5. r \notin Forced /\ s.pc \notin {"release", "done"} =>
        \A x \in s.locks : \/ s.pc = "examine" /\ Last(x, s.locks)
                          \/ files[x].by \in {r, Nobody, Outside}
  BY <1>1, <1>2, <1>3
<1> QED
  BY <1>0, <1>1, <1>4, <1>5, EnteringMarked

LEMMA ExamineMarked ==
    ASSUME ReservationInv, MarkerInv, NEW r \in Runs, Examine(r)
    PROVE  MarkerInv'
<1>0. /\ run \in [Runs -> RunState] /\ files' = files /\ run[r].locks \subseteq Paths
      /\ run[r].pc = "examine" /\ run[r].pc \in Entering
      /\ {"admit", "reserve", "release"} \subseteq Labels
  BY LabelFacts, PathsType DEF ReservationInv, TypeOK, Remembered, Examine, At, Entering
<1>1. PICK p \in Paths, label \in {"admit", "reserve", "release"} :
         /\ Last(p, run[r].locks) /\ Goes(r, label)
         /\ r \notin Forced /\ label # "release" => files[p] = Absent
  BY DEF Examine
<1>2. PICK s \in RunState :
         /\ run' = [run EXCEPT ![r] = s] /\ s.pc = label
         /\ s.locks = run[r].locks
         /\ s.recovering = run[r].recovering /\ s.broken = run[r].broken
  BY <1>0, <1>1, GoesFields
<1>3. ASSUME r \notin Forced, label # "release", NEW x \in run[r].locks
      PROVE  files[x].by \in {r, Nobody, Outside}
  <2>1. CASE Last(x, run[r].locks)
    <3>1. x \in Nat /\ p \in Nat
      BY <1>0
    <3>2. x <= p /\ p <= x
      BY <1>1, <1>3, <2>1 DEF Last
    <3>3. x = p
      BY <3>1, <3>2
    <3> QED
      BY <1>1, <1>3, <3>3 DEF Absent
  <2>2. CASE ~Last(x, run[r].locks)
    BY <1>0, <1>3, <2>2, MarkerParts DEF Whole, Found
  <2> QED
    BY <2>1, <2>2
<1>4. s.pc \in {"register", "reserve", "examine", "admit", "release", "done"}
  BY <1>1, <1>2
<1>5. r \notin Forced /\ s.pc \notin {"release", "done"} =>
        \A x \in s.locks : \/ s.pc = "examine" /\ Last(x, s.locks)
                          \/ files[x].by \in {r, Nobody, Outside}
  BY <1>2, <1>3
<1> QED
  BY <1>0, <1>2, <1>4, <1>5, EnteringMarked

LEMMA ReleaseMarked ==
    ASSUME ReservationInv, MarkerInv, NEW r \in Runs, Release(r)
    PROVE  MarkerInv'
<1>0. /\ run \in [Runs -> RunState] /\ files' = files /\ run[r].pc = "release"
  BY DEF ReservationInv, TypeOK, Release, At
<1>1. PICK s \in RunState :
             /\ run' = [run EXCEPT ![r] = s] /\ s.pc \in {"done", "release"}
             /\ s.recovering = run[r].recovering /\ (run[r].broken => s.broken)
  BY <1>0, ReleaseFields
<1>2. s.pc \in {"register", "reserve", "examine", "admit", "release", "done"}
      /\ run[r].pc \in Entering \cup {"release"} /\ ~(s.pc \notin {"release", "done"})
  BY <1>0, <1>1
<1> QED
  BY <1>0, <1>1, <1>2, EnteringMarked

(* A run that is killed is excused, and a signal reaches the publication of  *)
(* a plan only.                                                              *)
LEMMA StoppedMarked ==
    ASSUME ReservationInv, MarkerInv, NEW r \in Runs, NEW s, Stopped(r, s)
    PROVE  MarkerInv'
<1>0. /\ s \in RunState /\ run' = [run EXCEPT ![r] = s] /\ run'[r] = s /\ files' = files
      /\ s.locks = run[r].locks /\ s.pc \notin Entering
      /\ s.pc \in {"crashed", "record", "done", "release", "samefile"}
      /\ run[r].recovering => s.recovering
  BY DEF ReservationInv, TypeOK, Stopped
<1>1. /\ s.pc \in Working => run[r].pc \in Working
      /\ s.pc # "samefile" => s.pc \notin Linked \cup {"link_bundle", "unstage"} \cup Published
      /\ s.pc # "unlink"
  BY <1>0, StopLabels, MarkerLabels DEF Stopped, Published, Linked, Plan
<1>2. ASSUME r \notin Forced PROVE Whole(r)'
  <2>1. Publication(r) /\ Paired(r) /\ Marked(r)
    BY <1>2, MarkerParts DEF Whole
  <2>2. Found(r)'
    BY <1>0, <1>1, <1>2, OwnFound
  <2>3. s.pc = "crashed" \/ (s.recovering /\ ~run[r].recovering)
    BY DEF Stopped
  <2>4. Publication(r)'
    <3>1. CASE s.pc # "samefile"
      BY <1>0, <1>1, <2>1, <3>1 DEF Publication
    <3>2. CASE s.pc = "samefile"
      <4>1. /\ run[r].pc \in {"link_output", "unstage"} /\ s.n = run[r].n /\ run[r].n = 0
            /\ s.recovering /\ ~run[r].recovering
        BY <3>2, StopLabels DEF Stopped, Plan
      <4>2. run[r].pc \in Linked \cup {"unstage"}
        BY <4>1, LinkLabels
      <4>3. files[BundleOf[r]] = [by |-> r, kind |-> "signature", n |-> run[r].n]
        BY <2>1, <4>2 DEF Publication
      <4>4. files[OutputOf[r]].by = r => files[OutputOf[r]].n = 0
        <5>1. SUFFICES ASSUME files[OutputOf[r]].by = r PROVE files[OutputOf[r]].n = 0
          OBVIOUS
        <5>2. files[BundleOf[r]].by \notin Forced
          BY <1>2, <4>3
        <5>3. files[BundleOf[r]].n = 0
          BY <4>1, <4>3
        <5> QED
          BY <2>1, <4>1, <5>1, <5>2, <5>3 DEF Marked, Cut
      <4> QED
        BY <1>0, <4>1, <4>3, <4>4 DEF Publication, Cut
    <3> QED
      BY <3>1, <3>2
  <2>5. Paired(r)'
    <3>1. files[BundleOf[r]].by = r /\ ~run[r].recovering => files[BundleOf[r]].n = 0
      BY <2>1 DEF Publication
    <3> QED
      BY <1>0, <2>1, <2>3, <3>1 DEF Paired, Cut
  <2>6. Marked(r)'
    BY <1>0, <2>1 DEF Marked, Cut
  <2> QED
    BY <2>2, <2>4, <2>5, <2>6 DEF Whole
<1>3. r \in Forced => s.pc \notin {"samefile", "unlink"}
  BY <1>0, <1>1, StopLabels DEF Stopped
<1> QED
  BY <1>0, <1>2, <1>3, WholeRule

LEMMA OutsideMarked ==
    ASSUME ReservationInv, MarkerInv, OutsideWrites
    PROVE  MarkerInv'
<1>1. PICK f : f = [by |-> Outside, kind |-> "other", n |-> 0]
  OBVIOUS
<1>2. PICK p \in Paths : files[p] = Absent /\ files' = [files EXCEPT ![p] = f]
  BY <1>1 DEF OutsideWrites
<1>3. /\ f.by = Outside /\ run' = run /\ files \in [Paths -> File \cup {Absent}]
      /\ Absent.by = Nobody
  BY <1>1 DEF OutsideWrites, ReservationInv, TypeOK, Absent
<1>4. \A x \in Paths : files'[x] = files[x] \/ (files[x].by = Nobody /\ files'[x].by = Outside)
  BY <1>2, <1>3
<1>5. ASSUME NEW r \in Runs \ Forced PROVE Whole(r)'
  <2>0. /\ run[r].locks \subseteq Paths /\ BundleOf[r] \in Paths /\ OutputOf[r] \in Paths
        /\ r # Nobody /\ r # Outside /\ Nobody \notin Forced
    BY PathsType DEF ReservationInv, Remembered
  <2>1. Found(r) /\ Publication(r) /\ Paired(r) /\ Marked(r)
    BY MarkerParts DEF Whole
  <2>2. Found(r)'
    BY <1>3, <1>4, <2>0, <2>1 DEF Found, At, Last
  <2>3. Publication(r)'
    <3>1. run[r].pc \in Linked \cup {"unstage"} => files'[BundleOf[r]] = files[BundleOf[r]]
      <4>1. SUFFICES ASSUME run[r].pc \in Linked \cup {"unstage"} PROVE files[BundleOf[r]].by # Nobody
        BY <1>4, <2>0
      <4>2. files[BundleOf[r]] = [by |-> r, kind |-> "signature", n |-> run[r].n]
        BY <2>1, <4>1 DEF Publication
      <4> QED
        BY <2>0, <4>2
    <3>2. files'[OutputOf[r]].by = r => files'[OutputOf[r]] = files[OutputOf[r]]
      BY <1>4, <2>0
    <3>3. files'[BundleOf[r]].by = r => files'[BundleOf[r]] = files[BundleOf[r]]
      BY <1>4, <2>0
    <3> QED
      BY <1>3, <2>1, <3>1, <3>2, <3>3 DEF Publication, Cut
  <2>4. Paired(r)'
    BY <1>3, <1>4, <2>0, <2>1 DEF Paired, Cut
  <2>5. Marked(r)'
    BY <1>3, <1>4, <2>0, <2>1 DEF Marked, Cut
  <2> QED
    BY <2>2, <2>3, <2>4, <2>5 DEF Whole
<1>6. \A r \in Forced : Replaces(r)'
  BY <1>3, MarkerParts DEF Replaces
<1> QED
  BY <1>5, <1>6, MarkerPartsNext

LEMMA WorkMarked ==
    ASSUME ReservationInv, MarkerInv, NEW r \in Runs, Work(r)
    PROVE  MarkerInv'
<1>1. CASE Examine(r)
  BY <1>1, ExamineMarked
<1>2. CASE Admit(r)
  BY <1>2, AdmitMarked
<1>3. CASE Mutate(r)
  <2>1. run[r].pc \in Working /\ run[r].pc \notin Linked
    BY <1>3 DEF Mutate, At, Working, Publishing, Linked
  <2>2. CASE Becomes(r, Handled(run[r])) /\ UNCHANGED files
    BY <2>1, <2>2, AsideHandled
  <2>3. CASE Checkpoint(r) /\ Becomes(r, [run[r] EXCEPT !.pc = "stage", !.n = 1])
    <3>1. 1 \in 0 .. 2
      OBVIOUS
    <3> QED
      BY <2>1, <2>3, <3>1, NumberedMarked
  <2> QED
    BY <1>3, <2>2, <2>3 DEF Mutate
<1>4. CASE RecordFailure(r)
  <2>1. run[r].pc \in Working /\ run[r].pc \notin Linked
    BY <1>4 DEF RecordFailure, At, Working, Publishing, Linked
  <2>2. CASE Goes(r, "release") /\ UNCHANGED files
    BY <2>1, <2>2, AsideGoes
  <2>3. CASE Checkpoint(r) /\ Becomes(r, [run[r] EXCEPT !.pc = "stage", !.n = 2])
    <3>1. 2 \in 0 .. 2
      OBVIOUS
    <3> QED
      BY <2>1, <2>3, <3>1, NumberedMarked
  <2> QED
    BY <1>4, <2>2, <2>3 DEF RecordFailure
<1>5. CASE Stage(r) \/ Unstage(r)
  BY <1>5, StepMarked DEF Stage, Unstage
<1> QED
  BY <1>1, <1>2, <1>3, <1>4, <1>5, RecheckMarked, LinkBundleMarked, LinkOutputMarked,
     SameFileMarked, UnlinkMarked DEF Work

LEMMA MarkerNext ==
    ASSUME ReservationInv, RefusalInv, MarkerInv, [Next]_vars
    PROVE  MarkerInv'
<1>0. run \in [Runs -> RunState]
  BY DEF ReservationInv, TypeOK
<1>1. CASE UNCHANGED vars
  BY <1>1 DEF vars, MarkerInv, CompletionMarker, Found, Publication, Paired, At, Last, Cut
<1>2. ASSUME NEW r \in Runs, Interrupt(r) \/ Crash(r) PROVE MarkerInv'
  <2>1. PICK s : Stopped(r, s)
    BY <1>0, <1>2, InterruptStops, CrashStops
  <2> QED
    BY <2>1, StoppedMarked
<1>3. ASSUME NEW r \in Runs, Reserve(r) \/ Register(r) \/ Release(r) \/ Examine(r) \/ Work(r)
      PROVE  MarkerInv'
  BY <1>3, ReserveMarked, RegisterMarked, ReleaseMarked, ExamineMarked, WorkMarked
<1> QED
  BY <1>1, <1>2, <1>3, OutsideMarked, NextCases

LEMMA MarkerSafe == Spec => []MarkerInv
<1>1. Init => MarkerInv
  <2> SUFFICES ASSUME Init PROVE MarkerInv
    OBVIOUS
  <2>1. \A p \in Paths : files[p].by \notin Runs
    BY DEF Init, Absent
  <2>2. \A r \in Runs : run[r].pc = "reserve" /\ run[r].locks = {}
    BY DEF Init
  <2>3. \A r \in Runs : BundleOf[r] \in Paths /\ OutputOf[r] \in Paths
    OBVIOUS
  <2>4. "reserve" \notin Linked \cup {"link_bundle", "unstage"} \cup Published
    BY DEF Linked, Published
  <2>5. \A r \in Runs : files[BundleOf[r]].by # r /\ files[OutputOf[r]].by # r
    BY <2>1, <2>3
  <2>6. CompletionMarker
    BY <2>5 DEF CompletionMarker
  <2>7. \A r \in Runs : Found(r) /\ Paired(r)
    BY <2>2, <2>5 DEF Found, Paired
  <2>8. \A r \in Runs : Publication(r)
    BY <2>2, <2>4, <2>5 DEF Publication
  <2> QED
    BY <2>2, <2>6, <2>7, <2>8 DEF MarkerInv
<1>2. ReservationInv /\ RefusalInv /\ MarkerInv /\ [Next]_vars => MarkerInv'
  BY MarkerNext
<1> QED
  BY <1>1, <1>2, ReservationsHeld, RefusalSafe, PTL DEF Spec

(* persist(), the JSON last as completion marker: whoever finds the JSON of   *)
(* an unforced run finds the signature made for it, whatever fails, is        *)
(* interrupted or is killed, and whatever the other runs share with it; but   *)
(* for the plan of a dry run that a signal cut.                               *)
THEOREM MarkerMeansSigned == Spec => []CompletionMarker
<1>1. MarkerInv => CompletionMarker
  BY DEF MarkerInv
<1> QED
  BY <1>1, MarkerSafe, PTL

(* persist(), cleanup: a run that ends without its JSON leaves no signature,  *)
(* unless it could not remove it, or it was a dry run that a signal cut.      *)
THEOREM SignaturesCleaned == Spec => []NoOrphanSignature
<1>1. MarkerInv => NoOrphanSignature
  BY DEF MarkerInv, NoOrphanSignature, Paired, Linked
<1> QED
  BY <1>1, MarkerSafe, PTL

-----------------------------------------------------------------------------
(* What a run may change of the files it finds *)

Rightful(r, p) ==
    \/ r \in Forced /\ p \in PathsOf(r)
    \/ p = JournalOf[r]
    \/ /\ p = BundleOf[r] /\ files[p].by = r
       /\ files[OutputOf[r]].by # r \/ Cut(r, files[OutputOf[r]])

OwnFilesOnly(r) ==
    \A p \in Paths : files[p] # Absent /\ files'[p] # files[p] => Rightful(r, p)

LEMMA OneWritten ==
    ASSUME files \in [Paths -> File \cup {Absent}], NEW x, NEW f, files' = [files EXCEPT ![x] = f],
           NEW p \in Paths, files'[p] # files[p]
    PROVE  p = x
OBVIOUS

LEMMA CheckpointRightful ==
    ASSUME ReservationInv, NEW r \in Runs, Checkpoint(r)
    PROVE  OwnFilesOnly(r)
<1>1. files \in [Paths -> File \cup {Absent}]
  BY DEF ReservationInv, TypeOK
<1> QED
  BY <1>1, OneWritten DEF Checkpoint, OwnFilesOnly, Rightful

LEMMA PublishRightful ==
    ASSUME ReservationInv, NEW r \in Runs, NEW x \in PathsOf(r), NEW kind, Publish(r, x, kind)
    PROVE  OwnFilesOnly(r)
<1>1. files \in [Paths -> File \cup {Absent}]
  BY DEF ReservationInv, TypeOK
<1> QED
  BY <1>1, OneWritten DEF Publish, OwnFilesOnly, Rightful

(* Only the run itself has the names it unlinks, since it found nothing there. *)
LEMMA UnlinkRightful ==
    ASSUME ReservationInv, MarkerInv, NEW r \in Runs, Unlink(r)
    PROVE  OwnFilesOnly(r)
<1>1. files \in [Paths -> File \cup {Absent}]
  BY DEF ReservationInv, TypeOK
<1>2. r \notin Forced /\ run[r].pc = "unlink"
  BY DEF MarkerInv, Unlink, At
<1>3. /\ files[BundleOf[r]].by = r
      /\ files[OutputOf[r]].by # r \/ Cut(r, files[OutputOf[r]])
  <2>1. Publication(r)
    BY <1>2 DEF MarkerInv
  <2>2. run[r].pc \in Linked /\ run[r].pc \in Linked \cup {"link_bundle"}
    BY <1>2 DEF Linked
  <2>3. files[BundleOf[r]] = [by |-> r, kind |-> "signature", n |-> run[r].n]
    BY <2>1, <2>2 DEF Publication
  <2> QED
    BY <2>1, <2>2, <2>3 DEF Publication
<1>4. files' = files \/ files' = [files EXCEPT ![BundleOf[r]] = Absent]
  BY DEF Unlink
<1> QED
  BY <1>1, <1>3, <1>4, OneWritten DEF OwnFilesOnly, Rightful

LEMMA WorkRightful ==
    ASSUME ReservationInv, MarkerInv, NEW r \in Runs, Workflow(r) \/ Interrupt(r) \/ Crash(r)
    PROVE  OwnFilesOnly(r) /\ \E s : run' = [run EXCEPT ![r] = s]
<1> USE DEF Becomes, Goes
<1>1. CASE files' = files
  <2>1. OwnFilesOnly(r)
    BY <1>1 DEF OwnFilesOnly
  <2> QED
    BY <2>1 DEF Workflow, Reserve, Register, Examine, Admit, Mutate, RecordFailure, Stage, Recheck,
                LinkBundle, LinkOutput, SameFile, Unlink, Unstage, Release, Step, Interrupt, Crash
<1>2. CASE Admit(r) \/ Mutate(r) \/ RecordFailure(r)
  <2>1. Checkpoint(r) \/ files' = files
    BY <1>2 DEF Admit, Mutate, RecordFailure
  <2>2. \E s : run' = [run EXCEPT ![r] = s]
    BY <1>2 DEF Admit, Mutate, RecordFailure
  <2> QED BY <1>1, <2>1, <2>2, CheckpointRightful
<1>3. CASE LinkBundle(r) \/ LinkOutput(r)
  <2>1. \/ Publish(r, BundleOf[r], "signature") \/ Publish(r, OutputOf[r], "result")
        \/ files' = files
    BY <1>3 DEF LinkBundle, LinkOutput
  <2>2. \E s : run' = [run EXCEPT ![r] = s]
    BY <1>3 DEF LinkBundle, LinkOutput
  <2>3. BundleOf[r] \in PathsOf(r) /\ OutputOf[r] \in PathsOf(r)
    BY DEF PathsOf
  <2> QED BY <1>1, <2>1, <2>2, <2>3, PublishRightful
<1>4. CASE Unlink(r)
  <2>1. \E s : run' = [run EXCEPT ![r] = s]
    BY <1>4 DEF Unlink
  <2> QED BY <1>4, <2>1, UnlinkRightful
<1>5. CASE \/ Reserve(r) \/ Register(r) \/ Examine(r) \/ Stage(r) \/ Recheck(r) \/ SameFile(r)
           \/ Unstage(r) \/ Release(r) \/ Interrupt(r) \/ Crash(r)
  <2>1. files' = files
    BY <1>5 DEF Reserve, Register, Examine, Stage, Recheck, SameFile, Unstage, Release, Step,
                Interrupt, Crash
  <2> QED BY <1>1, <2>1
<1> QED
  BY <1>2, <1>3, <1>4, <1>5 DEF Workflow

(* persist() and _publish, "never a preexisting ... file owned by someone     *)
(* else" (deployment_records.py:137-138): of the files at its paths, a run    *)
(* without force changes its journal, and removes a signature of its own      *)
(* whose JSON is not there or is the plan of its interrupted dry run; no      *)
(* other file, in no order of steps.                                          *)
THEOREM ForeignFilesKept == Spec => KeepsForeignFiles
<1> DEFINE Kept == \A p \in Paths :
                      files[p] # Absent /\ files'[p] # files[p] /\ run' # run =>
                         \E r \in Runs :
                            /\ run'[r] # run[r]
                            /\ \/ r \in Forced /\ p \in PathsOf(r)
                               \/ p = JournalOf[r]
                               \/ /\ p = BundleOf[r] /\ files[p].by = r
                                  /\ \/ files[OutputOf[r]].by # r
                                     \/ Cut(r, files[OutputOf[r]])
<1>1. ReservationInv /\ MarkerInv /\ [Next]_vars => [Kept]_vars
  <2> SUFFICES ASSUME ReservationInv, MarkerInv, Next, run' # run
               PROVE  Kept
    BY DEF vars
  <2>1. PICK r \in Runs : Workflow(r) \/ Interrupt(r) \/ Crash(r)
    BY DEF Next, OutsideWrites
  <2>2. OwnFilesOnly(r) /\ \E s : run' = [run EXCEPT ![r] = s]
    BY <2>1, WorkRightful
  <2>3. run'[r] # run[r]
    <3>1. run \in [Runs -> RunState]
      BY DEF ReservationInv, TypeOK
    <3>2. PICK s : run' = [run EXCEPT ![r] = s]
      BY <2>2
    <3>3. CASE s = run[r]
      BY <3>1, <3>2, <3>3
    <3> QED BY <3>1, <3>2, <3>3
  <2> QED BY <2>2, <2>3 DEF OwnFilesOnly, Rightful
<1> QED
  BY <1>1, ReservationsHeld, MarkerSafe, PTL DEF Spec, KeepsForeignFiles
=============================================================================
