-------------------------- MODULE DeploymentProofs --------------------------
(***************************************************************************)
(* Theorems about Deployment, for any set of runs, any contents and any    *)
(* bound on what goes wrong: types and mutual exclusion, the refinement of *)
(* GuardedChange, what belongs to others, and then what is said at the     *)
(* end: by records, by a normal return, and by the verdict on a rollback.  *)
(***************************************************************************)
EXTENDS DeploymentInvariant, TLAPS

USE TargetAssumption, DeploymentAssumption
    DEF TargetAssumption, DeploymentAssumption

-----------------------------------------------------------------------------
(* The operators on the state of one run: they stay in the type, keep the  *)
(* run coherent, and forget nothing that the run has learnt.               *)

Keeps(s, t) ==
    /\ t.original = s.original /\ t.mutated = s.mutated /\ t.uid = s.uid
    /\ t.pc \notin {"acquire", "prepared"}
    /\ s.pc = "release" => t.pc \in Ended

Continues(s, t) == t \in CoherentState /\ Keeps(s, t)

LEMMA NoContentFact == NoContent \notin Content
BY DEF NoContent, Content

LEMMA LeftType ==
    ASSUME NEW s \in RunState
    PROVE  Left(s) \in RunState
<1>1. Unread \in Snapshot
  BY DEF Snapshot, Unread, Content
<1>2. 0 \in 0 .. (Attempts - 1)
  OBVIOUS
<1> QED
  BY <1>1, <1>2 DEF RunState, Left

(* Moving on to another label. *)
LEMMA LabelType ==
    ASSUME NEW s \in RunState, NEW label \in Labels
    PROVE  [s EXCEPT !.pc = label] \in RunState
BY DEF RunState

LEMMA HandledContinues ==
    ASSUME NEW s \in CoherentState, NEW status \in Statuses, s.pc # "release"
    PROVE  Continues(s, Handled(s, status))
<1>1. s \in RunState /\ Coherent(s)
  BY DEF CoherentState
<1>2. Handled(s, status) \in RunState
  BY ZenonT(60), <1>1, LeftType DEF RunState, Handled, Labels, Recovery, Recording
<1>3. Coherent(Handled(s, status))
  BY <1>1 DEF RunState, Handled, Left, Coherent, Unacquired, Acquired, Mutating,
              Body, Recovery
<1>4. Keeps(s, Handled(s, status))
  BY <1>1 DEF RunState, Handled, Left, Keeps
<1> QED
  BY <1>2, <1>3, <1>4 DEF Continues, CoherentState

LEMMA RollbackContinues ==
    ASSUME NEW s \in CoherentState, NEW verdict \in Verdicts, s.pc # "release"
    PROVE  Continues(s, RollbackEnds(s, verdict))
<1>1. s \in RunState /\ Coherent(s)
  BY DEF CoherentState
<1>2. RollbackEnds(s, verdict) \in RunState
  BY <1>1 DEF RunState, RollbackEnds, Labels, Recording
<1>3. Coherent(RollbackEnds(s, verdict))
  BY <1>1 DEF RunState, RollbackEnds, Coherent, Unacquired, Acquired, Mutating,
              Body, Recovery
<1>4. Keeps(s, RollbackEnds(s, verdict))
  BY <1>1 DEF RunState, RollbackEnds, Keeps
<1> QED
  BY <1>2, <1>3, <1>4 DEF Continues, CoherentState

LEMMA FinallyContinues ==
    ASSUME NEW s \in CoherentState, NEW exit \in Exits, s.pc # "release"
    PROVE  Continues(s, Finally(s, exit))
<1>1. s \in RunState /\ Coherent(s)
  BY DEF CoherentState
<1>2. Finally(s, exit) \in RunState
  BY <1>1 DEF RunState, Finally, Labels, Releasing, Ended
<1>3. Coherent(Finally(s, exit))
  BY <1>1 DEF RunState, Finally, Coherent, Unacquired, Acquired, Mutating,
              Body, Recovery
<1>4. Keeps(s, Finally(s, exit))
  BY <1>1 DEF RunState, Finally, Keeps
<1> QED
  BY <1>2, <1>3, <1>4 DEF Continues, CoherentState

(* The end of a run, whatever its last label. *)
LEMMA EndContinues ==
    ASSUME NEW s \in CoherentState, NEW label \in Ended
    PROVE  /\ Continues(s, [s EXCEPT !.pc = label])
           /\ Continues(s, [s EXCEPT !.pc = label, !.recovering = TRUE])
           /\ Continues(s, Unreleased(s))
<1>1. s \in RunState /\ Coherent(s)
  BY DEF CoherentState
<1> DEFINE t1 == [s EXCEPT !.pc = label]
           t2 == [s EXCEPT !.pc = label, !.recovering = TRUE]
           t3 == Unreleased(s)
<1>2. t1 \in RunState /\ t2 \in RunState /\ t3 \in RunState
  BY ZenonT(60), <1>1 DEF RunState, Unreleased, Labels, Ended, Exits
<1>3. Coherent(t1) /\ Coherent(t2) /\ Coherent(t3)
  BY <1>1 DEF RunState, Unreleased, Coherent, Unacquired, Acquired, Mutating,
              Body, Recovery, Ended
<1>4. Keeps(s, t1) /\ Keeps(s, t2) /\ Keeps(s, t3)
  BY <1>1 DEF RunState, Unreleased, Keeps, Ended
<1> QED
  BY <1>2, <1>3, <1>4 DEF Continues, CoherentState

LEMMA FailedContinues ==
    ASSUME NEW s \in CoherentState
    PROVE  /\ Continues(s, Failed(s))
           /\ s.pc # "release" => Continues(s, Conflicted(s))
<1>1. "failed" \in Statuses /\ {"failed", "skipped-conflict"} \subseteq Verdicts
  BY DEF Statuses, Verdicts
<1>2. "done" \in Ended
  BY DEF Ended
<1>3. "release" \in Releasing /\ "release" \notin Recovery
  BY DEF Releasing, Recovery
<1> QED
  BY <1>1, <1>2, <1>3, HandledContinues, RollbackContinues, EndContinues
     DEF Failed, Conflicted

LEMMA InterruptedContinues ==
    ASSUME NEW s \in CoherentState
    PROVE  Continues(s, Interrupted(s))
<1>1. "interrupted" \in Statuses /\ "done" \in Ended /\ "release" \in Releasing
  BY DEF Statuses, Ended, Releasing
<1> QED
  BY <1>1, HandledContinues, EndContinues DEF Interrupted

LEMMA RetriedContinues ==
    ASSUME NEW s \in CoherentState, NEW label,
           \/ s.pc = "acquire" /\ label = "acquire_read"
           \/ s.pc = "apply" /\ label = "apply_read"
    PROVE  Continues(s, Retried(s, label))
<1>1. s \in RunState /\ Coherent(s)
  BY DEF CoherentState
<1>2. "failed" \in Statuses
  BY DEF Statuses
<1> DEFINE t == [s EXCEPT !.pc = label, !.tries = @ + 1]
<1>3. ASSUME s.tries + 1 < Attempts
      PROVE  Continues(s, t)
  <2>1. s.tries \in 0 .. (Attempts - 1)
    BY <1>1 DEF RunState
  <2>2. s.tries + 1 \in 0 .. (Attempts - 1)
    BY <1>3, <2>1
  <2>3. label \in Labels
    BY DEF Labels, Body
  <2>4. t \in RunState
    BY <1>1, <2>2, <2>3 DEF RunState
  <2>5. Coherent(t) /\ Keeps(s, t)
    BY <1>1 DEF RunState, Coherent, Keeps, Unacquired, Acquired, Mutating,
                Body, Recovery
  <2> QED
    BY <2>4, <2>5 DEF Continues, CoherentState
<1> QED
  BY <1>2, <1>3, HandledContinues DEF Retried

LEMMA CallErredContinues ==
    ASSUME NEW s \in CoherentState, s.pc \in Operations
    PROVE  Continues(s, CallErred(s))
BY RetriedContinues, FailedContinues DEF CallErred, Operations

LEMMA PatchedContinues ==
    ASSUME NEW s \in CoherentState, s.pc \in Operations
    PROVE  Continues(s, Patched(s))
<1>1. s \in RunState /\ Coherent(s)
  BY DEF CoherentState
<1>2. Left(s) \in RunState
  BY <1>1, LeftType
<1>3. CASE s.pc = "acquire"
  <2>1. Patched(s) = [Left(s) EXCEPT !.pc = "acquire_check"]
    BY <1>3 DEF Patched
  <2>2. Patched(s) \in RunState
    BY <1>2, <2>1, LabelType DEF Labels, Body
  <2>3. Coherent(Patched(s)) /\ Keeps(s, Patched(s))
    BY <1>1, <1>3, <2>1 DEF RunState, Left, Coherent, Keeps, Unacquired,
       Acquired, Mutating, Body, Recovery
  <2> QED
    BY <2>2, <2>3 DEF Continues, CoherentState
<1>4. CASE s.pc = "apply"
  <2>1. Patched(s) = [Left(s) EXCEPT !.pc = "rollout"]
    BY <1>4 DEF Patched
  <2>2. Patched(s) \in RunState
    BY <1>2, <2>1, LabelType DEF Labels, Body
  <2>3. Coherent(Patched(s)) /\ Keeps(s, Patched(s))
    BY <1>1, <1>4, <2>1 DEF RunState, Left, Coherent, Keeps, Unacquired,
       Acquired, Mutating, Body, Recovery
  <2> QED
    BY <2>2, <2>3 DEF Continues, CoherentState
<1>5. CASE s.pc = "restore"
  <2>1. Patched(s) = [s EXCEPT !.pc = "restore_rollout", !.restored = TRUE]
    BY <1>5 DEF Patched
  <2>2. Patched(s) \in RunState
    BY <1>1, <2>1 DEF RunState, Labels, Recovery
  <2>3. Coherent(Patched(s)) /\ Keeps(s, Patched(s))
    BY <1>1, <1>5, <2>1 DEF RunState, Coherent, Keeps, Unacquired,
       Acquired, Mutating, Body, Recovery
  <2> QED
    BY <2>2, <2>3 DEF Continues, CoherentState
<1>6. CASE s.pc = "release"
  BY <1>6, EndContinues DEF Patched, Ended
<1> QED
  BY <1>3, <1>4, <1>5, <1>6 DEF Operations

(* Steps along the body and the recovery that only move on. *)
LEMMA MoveContinues ==
    ASSUME NEW s \in CoherentState, NEW label \in Labels,
           s.pc \notin {"release", "prepare"}, label \notin {"acquire", "prepared", "apply"},
           label \in Unacquired => s.pc \in Unacquired,
           label \in Acquired => s.pc \in Acquired,
           label \in Mutating => s.pc \in Mutating
    PROVE  Continues(s, [s EXCEPT !.pc = label])
<1>1. s \in RunState /\ Coherent(s)
  BY DEF CoherentState
<1>2. [s EXCEPT !.pc = label] \in RunState
  BY <1>1, LabelType
<1>3. [s EXCEPT !.pc = label].pc = label
  BY <1>1 DEF RunState
<1>4. Coherent([s EXCEPT !.pc = label]) /\ Keeps(s, [s EXCEPT !.pc = label])
  BY <1>1, <1>3 DEF RunState, Coherent, Keeps
<1> QED
  BY <1>2, <1>4 DEF Continues, CoherentState

-----------------------------------------------------------------------------
(* One step of a run, seen from outside its operators. *)

(* It learns the version it claims; what it has acquired; that the journal *)
(* is written; that it may mutate.                                         *)
Claims(r, t) ==
    /\ run[r].pc = "acquire_read" /\ t.pc = "acquire" /\ obj.lock = NoRun
    /\ t.uid = obj.uid /\ t.seen = Seen
    /\ t.original = NoContent /\ ~t.mutated

Acquires(r, t) ==
    /\ run[r].pc \in {"acquire_read", "acquire_check"} /\ t.pc = "prepare"
    /\ OwnedBy(r, run[r].uid) /\ t.uid = run[r].uid
    /\ t.original = obj.content /\ ~t.mutated

Prepares(r, t) ==
    /\ run[r].pc = "prepare" /\ t.pc = "prepared"
    /\ t.uid = run[r].uid /\ t.original = run[r].original /\ ~t.mutated
    /\ journal'[r].previous = run[r].original

Marks(r, t) ==
    /\ run[r].pc = "prepared" /\ t.pc = "apply_read"
    /\ t.uid = run[r].uid /\ t.original = run[r].original /\ t.mutated

Learns(r, t) == Claims(r, t) \/ Acquires(r, t) \/ Prepares(r, t) \/ Marks(r, t)

Progress(r) ==
    \E t \in CoherentState :
        Becomes(r, t) /\ (Keeps(run[r], t) \/ Learns(r, t))

LEMMA Continuing ==
    ASSUME NEW r \in Runs, NEW t, Continues(run[r], t), Becomes(r, t)
    PROVE  Progress(r)
BY DEF Continues, Progress

LEMMA WorkflowProgress ==
    ASSUME TypeInv, NEW r \in Runs, Workflow(r)
    PROVE  run[r].pc \notin Ended /\ Progress(r)
<1> DEFINE s == run[r]
<1>0. s \in CoherentState /\ s \in RunState /\ Coherent(s) /\ obj \in Object
      /\ journal \in [Runs -> Record \cup {NoRecord}]
  BY DEF TypeInv, TypeOK, CoherentState
<1>l. /\ {"acquire_read", "acquire", "acquire_check"} \subseteq Labels \cap Unacquired
      /\ {"prepare", "prepared"} \subseteq Labels \cap Acquired
      /\ {"apply_read", "apply", "smoke", "verify", "succeed", "stage", "confirm",
          "publish", "published", "restore_verify", "restore", "restore_confirm"}
            \subseteq Labels \cap Mutating
      /\ {"publish_failure", "release", "done"} \subseteq Labels
      /\ Unacquired \cap Acquired = {} /\ Unacquired \cap Mutating = {}
      /\ Acquired \cap Mutating = {}
      /\ "record_failure" \notin Unacquired \cup Acquired \cup Mutating
      /\ "publish_failure" \notin Unacquired \cup Acquired \cup Mutating
      /\ "release" \notin Unacquired \cup Acquired \cup Mutating
      /\ "release_read" \notin Unacquired \cup Acquired \cup Mutating
      /\ "done" \notin Unacquired \cup Acquired \cup Mutating
      /\ "preflight" \in Unacquired
      /\ {"rollout", "restore_read", "restore_rollout"} \subseteq Mutating
  BY DEF Labels, Unacquired, Acquired, Mutating, Body, Recovery, Recording,
         Releasing, Ended
<1>e. Exits = {"none", "returned", "raised", "escaped", "release-failed", "unreleased"}
      /\ {"not-required", "succeeded"} \subseteq Verdicts
  BY DEF Exits, Verdicts
<1>f. ASSUME s.pc # "release"
      PROVE  Continues(s, Failed(s)) /\ Continues(s, Conflicted(s))
  BY <1>0, <1>f, FailedContinues
<1>1. ASSUME Preflight(r) PROVE Progress(r)
  <2>1. s.pc = "preflight"
    BY <1>1 DEF Preflight, At
  <2>2. Continues(s, [s EXCEPT !.pc = "acquire_read"])
    BY <1>0, <1>l, <2>1, MoveContinues
  <2> QED
    BY <1>1, <1>f, <2>1, <2>2, Continuing DEF Preflight
<1>2. ASSUME AcquireRead(r) PROVE Progress(r)
  <2>1. s.pc = "acquire_read" /\ s.original = NoContent /\ ~s.mutated
    BY <1>0, <1>2, <1>l DEF AcquireRead, At, Coherent
  <2>2. CASE OwnedBy(r, s.uid) /\ Becomes(r, [Left(s) EXCEPT !.pc = "prepare",
                                                    !.original = obj.content])
    <3> DEFINE t == [Left(s) EXCEPT !.pc = "prepare", !.original = obj.content]
    <3>1. Left(s) \in RunState /\ obj.content \in Content
      BY <1>0, LeftType DEF Object
    <3>2. t \in RunState
      BY <1>l, <3>1 DEF RunState
    <3>3. t.pc = "prepare" /\ t.original = obj.content /\ ~t.mutated /\ t.uid = s.uid
      BY <1>0, <2>1 DEF RunState, Left
    <3>4. t \in CoherentState
      BY <1>l, <3>1, <3>2, <3>3 DEF CoherentState, Coherent
    <3>5. Acquires(r, t)
      BY <2>1, <2>2, <3>3 DEF Acquires
    <3> QED
      BY <2>2, <3>4, <3>5 DEF Progress, Learns
  <2>3. CASE Becomes(r, Failed(s))
    BY <1>f, <2>1, <2>3, Continuing
  <2>4. CASE /\ obj.lock = NoRun
             /\ Becomes(r, [s EXCEPT !.pc = "acquire", !.uid = obj.uid,
                                     !.attempted = TRUE, !.seen = Seen])
    <3> DEFINE t == [s EXCEPT !.pc = "acquire", !.uid = obj.uid,
                              !.attempted = TRUE, !.seen = Seen]
    <3>1. Seen \in Snapshot /\ obj.uid \in Nat
      BY <1>0 DEF Seen, Snapshot, Object, Content
    <3>2. t \in RunState
      BY <1>0, <1>l, <3>1 DEF RunState
    <3>3. /\ t.pc = "acquire" /\ t.original = NoContent /\ ~t.mutated
          /\ t.uid = obj.uid /\ t.seen = Seen
      BY <1>0, <2>1 DEF RunState
    <3>4. t \in CoherentState
      BY <1>l, <3>2, <3>3 DEF CoherentState, Coherent
    <3>5. Claims(r, t)
      BY <2>1, <2>4, <3>3 DEF Claims
    <3> QED
      BY <2>4, <3>4, <3>5 DEF Progress, Learns
  <2> QED
    BY <1>2, <2>2, <2>3, <2>4 DEF AcquireRead
<1>3. ASSUME AcquireCheck(r) PROVE Progress(r)
  <2>1. s.pc = "acquire_check" /\ s.original = NoContent /\ ~s.mutated
    BY <1>0, <1>3, <1>l DEF AcquireCheck, At, Coherent
  <2>2. CASE OwnedBy(r, s.uid) /\ Becomes(r, [s EXCEPT !.pc = "prepare",
                                                       !.original = obj.content])
    <3> DEFINE t == [s EXCEPT !.pc = "prepare", !.original = obj.content]
    <3>1. obj.content \in Content
      BY <1>0 DEF Object
    <3>2. t \in RunState
      BY <1>0, <1>l, <3>1 DEF RunState
    <3>3. t.pc = "prepare" /\ t.original = obj.content /\ ~t.mutated /\ t.uid = s.uid
      BY <1>0, <2>1 DEF RunState
    <3>4. t \in CoherentState
      BY <1>l, <3>1, <3>2, <3>3 DEF CoherentState, Coherent
    <3>5. Acquires(r, t)
      BY <2>1, <2>2, <3>3 DEF Acquires
    <3> QED
      BY <2>2, <3>4, <3>5 DEF Progress, Learns
  <2>3. CASE Becomes(r, Conflicted(s))
    BY <1>f, <2>1, <2>3, Continuing
  <2> QED
    BY <1>3, <2>2, <2>3 DEF AcquireCheck, Conflict
<1>4. ASSUME Prepare(r) PROVE Progress(r)
  <2> DEFINE t == [s EXCEPT !.pc = "prepared"]
  <2>1. s.pc = "prepare" /\ s.original \in Content /\ ~s.mutated
    BY <1>0, <1>4, <1>l DEF Prepare, At, Coherent
  <2>2. t \in RunState /\ t.pc = "prepared"
    BY <1>0, <1>l, LabelType DEF RunState
  <2>3. t.original = s.original /\ ~t.mutated /\ t.uid = s.uid
    BY <1>0, <2>1 DEF RunState
  <2>4. t \in CoherentState
    BY <1>l, <2>1, <2>2, <2>3 DEF CoherentState, Coherent
  <2>5. journal'[r].previous = s.original
    BY <1>0, <1>4 DEF Prepare, Journal
  <2>6. Prepares(r, t)
    BY <2>1, <2>2, <2>3, <2>5 DEF Prepares
  <2> QED
    BY <1>4, <2>4, <2>6 DEF Prepare, Progress, Learns
<1>5. ASSUME MarkMutation(r) PROVE Progress(r)
  <2> DEFINE t == [s EXCEPT !.pc = "apply_read", !.mutated = TRUE]
  <2>1. s.pc = "prepared" /\ s.original \in Content
    BY <1>0, <1>5, <1>l DEF MarkMutation, At, Coherent
  <2>2. t \in RunState
    BY <1>0, <1>l DEF RunState
  <2>3. t.pc = "apply_read" /\ t.original = s.original /\ t.mutated /\ t.uid = s.uid
    BY <1>0 DEF RunState
  <2>4. t \in CoherentState
    BY <1>l, <2>1, <2>2, <2>3 DEF CoherentState, Coherent
  <2>5. Marks(r, t)
    BY <2>1, <2>3 DEF Marks
  <2> QED
    BY <1>5, <2>4, <2>5 DEF MarkMutation, Progress, Learns
<1>6. ASSUME ApplyRead(r) PROVE Progress(r)
  <2> DEFINE t == [s EXCEPT !.pc = "apply", !.seen = Seen]
  <2>1. s.pc = "apply_read" /\ s.mutated /\ s.original \in Content
    BY <1>0, <1>6, <1>l DEF ApplyRead, At, Coherent
  <2>2. CASE SameContent(obj.content, s.original) /\ Becomes(r, t)
    <3>1. Seen \in Snapshot /\ Seen.audit = obj.content.audit
      BY <1>0 DEF Seen, Snapshot, Object, Content
    <3>2. t \in RunState
      BY <1>0, <1>l, <3>1 DEF RunState
    <3>3. /\ t.pc = "apply" /\ t.original = s.original /\ t.mutated
          /\ t.uid = s.uid /\ t.seen = Seen
      BY <1>0, <2>1 DEF RunState
    <3>4. t.seen.audit = t.original.audit
      BY <2>2, <3>1, <3>3 DEF SameContent
    <3>5. t \in CoherentState
      BY <1>l, <2>1, <3>2, <3>3, <3>4 DEF CoherentState, Coherent
    <3>6. Keeps(s, t)
      BY <2>1, <3>3 DEF Keeps
    <3> QED
      BY <2>2, <3>5, <3>6 DEF Progress
  <2>3. CASE Becomes(r, Conflicted(s))
    BY <1>f, <2>1, <2>3, Continuing
  <2> QED
    BY <1>6, <2>2, <2>3 DEF ApplyRead, Conflict
<1>7. ASSUME Rollout(r) PROVE Progress(r)
  <2>1. s.pc = "rollout"
    BY <1>7 DEF Rollout, At
  <2>2. Continues(s, [s EXCEPT !.pc = "smoke"])
    BY <1>0, <1>l, <2>1, MoveContinues
  <2> QED
    BY <1>7, <1>f, <2>1, <2>2, Continuing DEF Rollout
<1>8. ASSUME Smoke(r) PROVE Progress(r)
  <2>1. s.pc = "smoke"
    BY <1>8 DEF Smoke, At
  <2>2. Continues(s, [s EXCEPT !.pc = "verify"])
    BY <1>0, <1>l, <2>1, MoveContinues
  <2>3. Continues(s, Finally(s, "escaped"))
    BY <1>0, <1>e, <2>1, FinallyContinues
  <2> QED
    BY <1>8, <1>f, <2>1, <2>2, <2>3, Continuing DEF Smoke
<1>v. ASSUME NEW label, NEW next, label # "release",
             Verified(r, label, next), Continues(s, next)
      PROVE  Progress(r)
  BY <1>v, <1>f, Continuing DEF Verified, Conflict, At
<1>9. ASSUME Verify(r) PROVE Progress(r)
  <2>1. s.pc = "verify"
    BY <1>9 DEF Verify, Verified, At
  <2>2. Continues(s, [s EXCEPT !.pc = "succeed"])
    BY <1>0, <1>l, <2>1, MoveContinues
  <2> QED
    BY <1>9, <1>v, <2>2 DEF Verify
<1>10. ASSUME Succeed(r) PROVE Progress(r)
  <2>1. s.pc = "succeed"
    BY <1>10 DEF Succeed, At
  <2>2. Continues(s, [s EXCEPT !.pc = "stage"])
    BY <1>0, <1>l, <2>1, MoveContinues
  <2> QED
    BY <1>10, <2>2, Continuing DEF Succeed
<1>11. ASSUME Stage(r) PROVE Progress(r)
  <2> DEFINE t == [s EXCEPT !.pc = "confirm", !.recovering = TRUE]
  <2>1. s.pc = "stage" /\ s.mutated /\ s.original \in Content
    BY <1>0, <1>11, <1>l DEF Stage, At, Coherent, Mutating, Body
  <2>2. t \in RunState
    BY <1>0, <1>l DEF RunState
  <2>3. t.pc = "confirm" /\ t.original = s.original /\ t.mutated /\ t.uid = s.uid
    BY <1>0, <2>1 DEF RunState
  <2>4. t \in CoherentState
    BY <1>l, <2>1, <2>2, <2>3 DEF CoherentState, Coherent
  <2>5. Keeps(s, t)
    BY <2>1, <2>3 DEF Keeps
  <2> QED
    BY <1>11, <2>4, <2>5 DEF Stage, Progress
<1>12. ASSUME Confirm(r) PROVE Progress(r)
  <2>1. s.pc = "confirm"
    BY <1>12 DEF Confirm, Verified, At
  <2>2. Continues(s, [s EXCEPT !.pc = "publish"])
    BY <1>0, <1>l, <2>1, MoveContinues
  <2> QED
    BY <1>12, <1>v, <2>2 DEF Confirm
<1>13. ASSUME PublishSuccess(r) PROVE Progress(r)
  <2>1. s.pc = "publish"
    BY <1>13 DEF PublishSuccess, At
  <2>2. Continues(s, [s EXCEPT !.pc = "published"])
    BY <1>0, <1>l, <2>1, MoveContinues
  <2> QED
    BY <1>13, <2>2, Continuing DEF PublishSuccess
<1>14. ASSUME Cleanup(r) PROVE Progress(r)
  <2>1. s.pc = "published"
    BY <1>14 DEF Cleanup, At
  <2>2. Continues(s, Finally(s, "returned"))
    BY <1>0, <1>e, <2>1, FinallyContinues
  <2> QED
    BY <1>14, <1>f, <2>1, <2>2, Continuing DEF Cleanup
<1>15. ASSUME RestoreRead(r) PROVE Progress(r)
  <2>1. s.pc = "restore_read"
    BY <1>15 DEF RestoreRead, At
  <2>2. Continues(s, RollbackEnds(s, "not-required"))
    BY <1>0, <1>e, <2>1, RollbackContinues
  <2>3. Continues(s, [s EXCEPT !.pc = "restore_verify"])
    BY <1>0, <1>l, <2>1, MoveContinues
  <2> QED
    BY <1>15, <1>f, <2>1, <2>2, <2>3, Continuing DEF RestoreRead, Conflict
<1>16. ASSUME RestoreVerify(r) PROVE Progress(r)
  <2>1. s.pc = "restore_verify"
    BY <1>16 DEF RestoreVerify, Verified, At
  <2>2. Continues(s, [s EXCEPT !.pc = "restore"])
    <3>1. "restore" \in Labels \cap Mutating
      BY DEF Labels, Mutating, Recovery, Unacquired, Acquired, Body
    <3> QED
      BY <1>0, <1>l, <2>1, <3>1, MoveContinues
  <2> QED
    BY <1>16, <1>v, <2>2 DEF RestoreVerify
<1>17. ASSUME RestoreRollout(r) PROVE Progress(r)
  <2>1. s.pc = "restore_rollout"
    BY <1>17 DEF RestoreRollout, At
  <2>2. Continues(s, [s EXCEPT !.pc = "restore_confirm"])
    BY <1>0, <1>l, <2>1, MoveContinues
  <2> QED
    BY <1>17, <1>f, <2>1, <2>2, Continuing DEF RestoreRollout
<1>18. ASSUME RestoreConfirm(r) PROVE Progress(r)
  <2>1. s.pc = "restore_confirm"
    BY <1>18 DEF RestoreConfirm, Verified, At
  <2>2. Continues(s, RollbackEnds(s, "succeeded"))
    BY <1>0, <1>e, <2>1, RollbackContinues
  <2> QED
    BY <1>18, <1>v, <2>2 DEF RestoreConfirm
<1>19. ASSUME RecordFailure(r) PROVE Progress(r)
  <2>1. s.pc = "record_failure"
    BY <1>19 DEF RecordFailure, At
  <2>2. Continues(s, Finally(s, "raised"))
    BY <1>0, <1>e, <2>1, FinallyContinues
  <2>3. Continues(s, [s EXCEPT !.pc = "publish_failure"])
    BY <1>0, <1>l, <2>1, MoveContinues
  <2> QED
    BY <1>19, <2>2, <2>3, Continuing DEF RecordFailure
<1>20. ASSUME PublishFailure(r) PROVE Progress(r)
  <2>1. s.pc = "publish_failure"
    BY <1>20 DEF PublishFailure, At
  <2>2. Continues(s, Finally(s, "raised"))
    BY <1>0, <1>e, <2>1, FinallyContinues
  <2> QED
    BY <1>20, <2>2, Continuing DEF PublishFailure
<1>21. ASSUME ReleaseRead(r) PROVE Progress(r)
  <2>1. s.pc = "release_read"
    BY <1>21 DEF ReleaseRead, At
  <2>2. /\ Continues(s, [s EXCEPT !.pc = "release"])
        /\ Continues(s, [s EXCEPT !.pc = "done"])
    BY <1>0, <1>l, <2>1, MoveContinues
  <2> QED
    BY <1>21, <2>2, Continuing DEF ReleaseRead
<1>22. ASSUME PatchAnswered(r) PROVE Progress(r)
  <2>1. Continues(s, Patched(s)) /\ Continues(s, CallErred(s))
    BY <1>0, <1>22, PatchedContinues, CallErredContinues DEF PatchAnswered
  <2> QED
    BY <1>22, <2>1, Continuing DEF PatchAnswered
<1>23. ASSUME ReadRefused(r) PROVE Progress(r)
  BY <1>0, <1>23, FailedContinues, Continuing DEF ReadRefused
<1>24. s.pc \notin Ended
  BY DEF Workflow, Preflight, AcquireRead, AcquireCheck, Prepare, MarkMutation,
         ApplyRead, Rollout, Smoke, Verify, Succeed, Stage, Confirm,
         PublishSuccess, Cleanup, RestoreRead, RestoreVerify, RestoreRollout,
         RestoreConfirm, RecordFailure, PublishFailure, ReleaseRead,
         PatchAnswered, ReadRefused, Verified, At, Ended, Operations, Reads
<1> QED
  BY <1>1, <1>2, <1>3, <1>4, <1>5, <1>6, <1>7, <1>8, <1>9, <1>10, <1>11, <1>12,
     <1>13, <1>14, <1>15, <1>16, <1>17, <1>18, <1>19, <1>20, <1>21, <1>22, <1>23,
     <1>24 DEF Workflow

LEMMA MishapProgress ==
    ASSUME TypeInv, NEW r \in Runs, Mishap(r)
    PROVE  run[r].pc \notin Ended /\ Progress(r)
<1> DEFINE s == run[r]
<1>0. s \in CoherentState /\ Continues(s, Failed(s)) /\ Continues(s, Interrupted(s))
  BY FailedContinues, InterruptedContinues DEF TypeInv
<1>1. ASSUME s.pc \in Operations
      PROVE  Continues(s, CallErred(s))
  BY <1>0, <1>1, CallErredContinues
<1>2. Continues(s, [s EXCEPT !.pc = "crashed"])
  BY <1>0, EndContinues DEF Ended
<1>3. Progress(r)
  BY <1>0, <1>1, <1>2, Continuing
     DEF Mishap, PatchLost, PatchDelayed, Interrupt, CallFails, WriteFails, Crash
<1>4. s.pc \notin Ended
  BY DEF Mishap, PatchLost, PatchDelayed, Interrupt, CallFails, WriteFails, Crash,
         Interruptible, Ended, Operations, Calls, Reads
<1> QED
  BY <1>3, <1>4

(* A step of a run writes the object with its own pending patch or not at   *)
(* all, and leaves behind no other request than that patch.                 *)
LEMMA RunWrites ==
    ASSUME NEW r \in Runs, Workflow(r) \/ Mishap(r)
    PROVE  /\ \/ obj' = obj
              \/ /\ run[r].pc \in Operations /\ Passes(PatchOf(r))
                 /\ obj' = Effect(PatchOf(r))
           /\ \/ late' = late
              \/ /\ run[r].pc \in Operations /\ obj' = obj
                 /\ late' = late \cup {PatchOf(r)}
<1>1. CASE Workflow(r)
  <2>1. late' = late /\ (PatchAnswered(r) \/ obj' = obj)
    BY <1>1 DEF Workflow, Preflight, AcquireRead, AcquireCheck, Prepare, MarkMutation,
         ApplyRead, Rollout, Smoke, Verify, Succeed, Stage, Confirm,
         PublishSuccess, Cleanup, RestoreRead, RestoreVerify, RestoreRollout,
         RestoreConfirm, RecordFailure, PublishFailure, ReleaseRead,
         PatchAnswered, ReadRefused, Verified
  <2> QED
    BY <2>1 DEF PatchAnswered, Receive
<1>2. CASE Mishap(r)
  BY <1>2 DEF Mishap, PatchLost, PatchDelayed, Interrupt, CallFails, WriteFails,
              Crash, Receive
<1> QED
  BY <1>1, <1>2

LEMMA RunSpends ==
    ASSUME TypeOK, NEW r \in Runs, Workflow(r) \/ Mishap(r)
    PROVE  spent' \in Spent /\ spent'.meddles = spent.meddles /\ spent'.edits = spent.edits
<1>1. \/ spent' = spent
      \/ spent' = [spent EXCEPT !.faults = @ + 1]
      \/ spent' = [spent EXCEPT !.lates = @ + 1]
      \/ spent' = [spent EXCEPT !.crashes = @ + 1]
  <2>1. CASE Workflow(r)
    BY <2>1 DEF Workflow, Preflight, AcquireRead, AcquireCheck, Prepare,
         MarkMutation, ApplyRead, Rollout, Smoke, Verify, Succeed, Stage, Confirm,
         PublishSuccess, Cleanup, RestoreRead, RestoreVerify, RestoreRollout,
         RestoreConfirm, RecordFailure, PublishFailure, ReleaseRead,
         PatchAnswered, ReadRefused, Verified, Fault
  <2>2. CASE Mishap(r)
    BY <2>2 DEF Mishap, PatchLost, PatchDelayed, Interrupt, CallFails, WriteFails,
                Crash, Fault
  <2> QED
    BY <2>1, <2>2
<1>2. spent \in Spent
  BY DEF TypeOK
<1> QED
  BY <1>1, <1>2 DEF Spent

(* The records a run writes are records. *)
LEMMA RunRecords ==
    ASSUME TypeInv, NEW r \in Runs, Workflow(r) \/ Mishap(r)
    PROVE  /\ journal' \in [Runs -> Record \cup {NoRecord}]
           /\ result' \in [Runs -> Record \cup {NoRecord}]
<1>1. run[r] \in RunState
  BY DEF TypeInv, TypeOK
<1>2. ASSUME NEW status \in Statuses, NEW rollback \in Verdicts
      PROVE  [status |-> status, rollback |-> rollback,
              previous |-> run[r].original] \in Record
  BY <1>1 DEF Record, RunState
<1>3. /\ {"prepared", "succeeded"} \subseteq Statuses /\ "none" \in Verdicts
      /\ run[r].status \in Statuses /\ run[r].rollback \in Verdicts
  BY <1>1 DEF Statuses, Verdicts, RunState
<1>4. /\ journal \in [Runs -> Record \cup {NoRecord}]
      /\ result \in [Runs -> Record \cup {NoRecord}]
  BY DEF TypeInv, TypeOK
<1>5. CASE Prepare(r) \/ Succeed(r) \/ PublishSuccess(r) \/ RecordFailure(r)
           \/ PublishFailure(r)
  BY <1>2, <1>3, <1>4, <1>5 DEF Prepare, Succeed, PublishSuccess, RecordFailure,
     PublishFailure, Journal, Publish
<1>6. CASE UNCHANGED <<journal, result>>
  BY <1>4, <1>6
<1>7. \/ Prepare(r) \/ Succeed(r) \/ PublishSuccess(r) \/ RecordFailure(r)
      \/ PublishFailure(r) \/ UNCHANGED <<journal, result>>
  <2>1. CASE Workflow(r)
    BY <2>1 DEF Workflow, Preflight, AcquireRead, AcquireCheck, MarkMutation,
         ApplyRead, Rollout, Smoke, Verify, Stage, Confirm, Cleanup, RestoreRead,
         RestoreVerify, RestoreRollout, RestoreConfirm, ReleaseRead,
         PatchAnswered, ReadRefused, Verified
  <2>2. CASE Mishap(r)
    BY <2>2 DEF Mishap, PatchLost, PatchDelayed, Interrupt, CallFails, WriteFails,
                Crash
  <2> QED
    BY <2>1, <2>2
<1> QED
  BY <1>5, <1>6, <1>7

-----------------------------------------------------------------------------
(* Type correctness. *)

LEMMA DeployedType ==
    ASSUME NEW r \in Runs, NEW c \in Content
    PROVE  Deployed(r, c) \in Content
<1>1. ImageOf[r] \in Images /\ AuditOf[r] \in Audits
  OBVIOUS
<1> QED
  BY <1>1 DEF Content, Deployed

LEMMA PatchOfType ==
    ASSUME NEW r \in Runs, TypeInv, run[r].pc \in Operations
    PROVE  PatchOf(r) \in Request
<1>1. run[r] \in RunState
  BY DEF TypeInv, TypeOK
<1> QED
  BY <1>1 DEF PatchOf, Request, RunState

(* Every write leaves an object with another version and another writer. *)
LEMMA StampType ==
    ASSUME NEW o \in Object, NEW n \in Nat, NEW a \in Runs \cup {Outside}
    PROVE  [o EXCEPT !.rv = n, !.actor = a] \in Object
BY DEF Object

LEMMA EffectType ==
    ASSUME NEW q \in Request, obj \in Object, q.op = "restore" => q.from \in Content
    PROVE  Effect(q) \in Object
<1>1. q.seen \in Snapshot /\ q.run \in Runs /\ q.op \in Operations
  BY DEF Request
<1>2. q.seen.audit \in Audits /\ q.seen.extra \in Extras
  BY <1>1 DEF Snapshot
<1>3. obj.content \in Content
  BY DEF Object
<1>4. Written(q) \in Object
  <2>1. CASE q.op = "acquire"
    <3>1. [obj.content EXCEPT !.audit = q.seen.audit] \in Content
      BY <1>2, <1>3 DEF Content
    <3> QED
      BY <1>1, <1>2, <2>1, <3>1 DEF Written, Object
  <2>2. CASE q.op = "apply"
    BY <1>1, <1>3, <2>2, DeployedType DEF Written, Object
  <2>3. CASE q.op = "restore"
    <3>1. q.from \in Content
      BY <2>3
    <3>2. [obj.content EXCEPT !.img = q.from.img, !.audit = q.from.audit,
                              !.by = q.from.by] \in Content
      BY <1>3, <3>1 DEF Content
    <3> QED
      BY <2>3, <3>2 DEF Written, Object
  <2>4. CASE q.op = "release"
    BY <2>4 DEF Written, Object
  <2> QED
    BY <1>1, <2>1, <2>2, <2>3, <2>4 DEF Operations
<1>5. Written(q).rv + 1 \in Nat
  BY <1>4 DEF Object
<1> QED
  BY <1>1, <1>4, <1>5, StampType DEF Effect

LEMMA PatchEffectType ==
    ASSUME NEW r \in Runs, TypeInv, run[r].pc \in Operations
    PROVE  Effect(PatchOf(r)) \in Object
<1>1. run[r] \in CoherentState /\ obj \in Object
  BY DEF TypeInv, TypeOK
<1>2. PatchOf(r).op = "restore" => PatchOf(r).from \in Content
  BY <1>1 DEF PatchOf, CoherentState, Coherent, Mutating, Recovery, Unacquired,
              Acquired, Body
<1> QED
  BY <1>1, <1>2, PatchOfType, EffectType

LEMMA OutsideWriteType ==
    ASSUME NEW o \in Object, obj \in Object, OutsideWrite(o)
    PROVE  obj' \in Object /\ obj'.rv = obj.rv + 1
<1>1. obj.rv + 1 \in Nat
  BY DEF Object
<1>2. obj' \in Object
  BY <1>1, StampType DEF OutsideWrite
<1>3. obj'.rv = obj.rv + 1
  BY <1>1 DEF OutsideWrite, Object
<1> QED
  BY <1>2, <1>3

LEMMA TypeStep ==
    ASSUME TypeInv, LateInv, [Next]_vars
    PROVE  TypeInv'
<1>0. /\ obj \in Object /\ late \in SUBSET Request /\ spent \in Spent
      /\ run \in [Runs -> RunState] /\ run \in [Runs -> CoherentState]
      /\ journal \in [Runs -> Record \cup {NoRecord}]
      /\ result \in [Runs -> Record \cup {NoRecord}]
  BY DEF TypeInv, TypeOK
<1>1. ASSUME NEW r \in Runs, Workflow(r) \/ Mishap(r)
      PROVE  TypeInv'
  <2>1. PICK t \in CoherentState : Becomes(r, t)
    BY <1>1, WorkflowProgress, MishapProgress DEF Progress
  <2>2. run' \in [Runs -> CoherentState] /\ run' \in [Runs -> RunState]
    BY <1>0, <2>1 DEF Becomes, CoherentState
  <2>3. obj' \in Object
    BY <1>0, <1>1, RunWrites, PatchEffectType
  <2>4. late' \in SUBSET Request
    BY <1>0, <1>1, RunWrites, PatchOfType
  <2> QED
    BY <1>1, <2>2, <2>3, <2>4, RunSpends, RunRecords, <1>0 DEF TypeInv, TypeOK
<1>2. ASSUME Environment, UNCHANGED <<run, journal, result>>
      PROVE  TypeInv'
  <2>1. late' \in SUBSET Request
    BY <1>0, <1>2 DEF Environment, ControllerWrites, ToolEdits, LockStripped,
                      Recreated, LateArrival
  <2>2. spent' \in Spent
    BY <1>0, <1>2 DEF Environment, ControllerWrites, ToolEdits, LockStripped,
                      Recreated, LateArrival, Spent
  <2>3. obj' \in Object
    <3>1. CASE ControllerWrites
      BY <1>0, <3>1, OutsideWriteType DEF ControllerWrites, Object
    <3>2. CASE ToolEdits
      <4>1. PICK i \in Images \cup {Unpinned}, p \in Rests, a \in Audits :
              OutsideWrite([obj EXCEPT !.content =
                              [img |-> i, rest |-> p, audit |-> a, by |-> Outside]])
        BY <3>2 DEF ToolEdits
      <4>2. [img |-> i, rest |-> p, audit |-> a, by |-> Outside] \in Content
        BY DEF Content
      <4>3. \A c \in Content : [obj EXCEPT !.content = c] \in Object
        BY <1>0 DEF Object
      <4> QED
        BY <1>0, <4>1, <4>2, <4>3, OutsideWriteType
    <3>3. CASE LockStripped
      BY <1>0, <3>3, OutsideWriteType DEF LockStripped, Object
    <3>4. CASE Recreated
      <4>1. [obj EXCEPT !.uid = @ + 1, !.lock = NoRun, !.content = Base,
                        !.extra = BaseExtra] \in Object
        <5>1. obj.uid + 1 \in Nat \ {0}
          BY <1>0 DEF Object
        <5> QED
          BY <1>0, <5>1 DEF Object
      <4> QED
        BY <1>0, <3>4, <4>1, OutsideWriteType DEF Recreated
    <3>5. ASSUME NEW q \in late, LateArrival(q)
          PROVE  obj' \in Object
      <4>1. q.op = "restore" => q.from \in Content
        BY DEF LateInv, Faithful
      <4> QED
        BY <1>0, <3>5, <4>1, EffectType DEF LateArrival, Receive
    <3> QED
      BY <1>2, <3>1, <3>2, <3>3, <3>4, <3>5 DEF Environment
  <2> QED
    BY <1>0, <1>2, <2>1, <2>2, <2>3 DEF TypeInv, TypeOK
<1>3. ASSUME NEW r \in Runs, OperatorUnlocks(r)
      PROVE  TypeInv'
  <2>1. [obj EXCEPT !.lock = NoRun] \in Object
    BY <1>0 DEF Object
  <2>2. obj' \in Object
    BY <1>0, <1>3, <2>1, OutsideWriteType DEF OperatorUnlocks
  <2> QED
    BY <1>0, <1>3, <2>2 DEF OperatorUnlocks, TypeInv, TypeOK
<1>4. CASE UNCHANGED vars
  BY <1>0, <1>4 DEF vars, TypeInv, TypeOK
<1> QED
  BY <1>1, <1>2, <1>3, <1>4 DEF Next

-----------------------------------------------------------------------------
(* What no step changes: an object version is used once, and a run does not *)
(* forget what it has acquired, that it has mutated, or that it has ended.  *)

LEMMA EffectVersion ==
    ASSUME obj \in Object, NEW q \in Request, q.op = "restore" => q.from \in Content
    PROVE  Effect(q).rv = obj.rv + 1 /\ Effect(q).uid = obj.uid
           /\ Effect(q).lock = Written(q).lock
<1>1. q.op \in Operations
  BY DEF Request
<1> QED
  BY <1>1 DEF Effect, Written, Object, Operations

LEMMA VersionGrows ==
    ASSUME TypeInv, LateInv, [Next]_vars
    PROVE  obj' = obj \/ obj'.rv = obj.rv + 1
<1>0. obj \in Object /\ late \in SUBSET Request
  BY DEF TypeInv, TypeOK
<1>1. ASSUME NEW r \in Runs, Workflow(r) \/ Mishap(r)
      PROVE  obj' = obj \/ obj'.rv = obj.rv + 1
  <2>1. ASSUME run[r].pc \in Operations
        PROVE  PatchOf(r) \in Request /\ (PatchOf(r).op = "restore" => PatchOf(r).from \in Content)
    <3>1. run[r] \in CoherentState
      BY DEF TypeInv
    <3> QED
      BY <2>1, <3>1, PatchOfType DEF PatchOf, CoherentState, Coherent, Mutating,
         Recovery, Unacquired, Acquired, Body
  <2> QED
    BY <1>0, <1>1, <2>1, RunWrites, EffectVersion
<1>2. CASE Environment
  <2>1. ASSUME NEW q \in late, LateArrival(q)
        PROVE  obj' = obj \/ obj'.rv = obj.rv + 1
    <3>1. q \in Request /\ (q.op = "restore" => q.from \in Content)
      BY <1>0 DEF LateInv, Faithful
    <3> QED
      BY <1>0, <2>1, <3>1, EffectVersion DEF LateArrival, Receive
  <2>3. CASE ControllerWrites
    BY <1>0, <2>3 DEF ControllerWrites, OutsideWrite, Object
  <2>4. CASE ToolEdits
    BY <1>0, <2>4 DEF ToolEdits, OutsideWrite, Object
  <2>5. CASE LockStripped
    BY <1>0, <2>5 DEF LockStripped, OutsideWrite, Object
  <2>6. CASE Recreated
    BY <1>0, <2>6 DEF Recreated, OutsideWrite, Object
  <2> QED
    BY <1>2, <2>1, <2>3, <2>4, <2>5, <2>6 DEF Environment
<1>3. ASSUME NEW r \in Runs, OperatorUnlocks(r)
      PROVE  obj'.rv = obj.rv + 1
  BY <1>0, <1>3 DEF OperatorUnlocks, OutsideWrite, Object
<1>4. CASE UNCHANGED vars
  BY <1>4 DEF vars
<1> QED
  BY <1>1, <1>2, <1>3, <1>4 DEF Next

LEMMA Remembers ==
    ASSUME TypeInv, [Next]_vars, NEW r \in Runs
    PROVE  /\ run[r].original # NoContent =>
                 run'[r].original = run[r].original /\ run'[r].uid = run[r].uid
           /\ run[r].mutated => run'[r].mutated
           /\ run[r].pc \in Ended => run'[r] = run[r]
           /\ run[r].pc = "release" => run'[r] = run[r] \/ run'[r].pc \in Ended
           /\ run'[r] # run[r] => Workflow(r) \/ Mishap(r)
<1>0. run \in [Runs -> CoherentState]
  BY DEF TypeInv
<1>1. ASSUME NEW x \in Runs, Workflow(x) \/ Mishap(x)
      PROVE  /\ x # r => run'[r] = run[r]
             /\ run[x].pc \notin Ended
             /\ run[x].original # NoContent =>
                   run'[x].original = run[x].original /\ run'[x].uid = run[x].uid
             /\ run[x].mutated => run'[x].mutated
             /\ run[x].pc = "release" => run'[x].pc \in Ended
  <2>1. run[x].pc \notin Ended /\ Progress(x)
    BY <1>1, WorkflowProgress, MishapProgress
  <2>2. PICK t \in CoherentState : Becomes(x, t) /\ (Keeps(run[x], t) \/ Learns(x, t))
    BY <2>1 DEF Progress
  <2>3. run'[x] = t /\ (x # r => run'[r] = run[r])
    BY <1>0, <2>2 DEF Becomes
  <2>4. Coherent(run[x])
    BY <1>0 DEF CoherentState
  <2>5. CASE Keeps(run[x], t)
    BY <2>1, <2>3, <2>5 DEF Keeps
  <2>6. CASE Learns(x, t)
    BY <2>1, <2>3, <2>4, <2>6 DEF Learns, Claims, Acquires, Prepares, Marks,
       Coherent, Unacquired, Acquired
  <2> QED
    BY <2>2, <2>5, <2>6
<1>2. CASE UNCHANGED run
  BY <1>2
<1>3. CASE UNCHANGED vars
  BY <1>2, <1>3 DEF vars
<1> QED
  BY <1>1, <1>2, <1>3 DEF Next, OperatorUnlocks

-----------------------------------------------------------------------------
(* The journal goes before the mutation. *)

LEMMA JournalWrites ==
    ASSUME TypeInv, NEW r \in Runs, Workflow(r) \/ Mishap(r)
    PROVE  /\ journal'[r].previous \in {journal[r].previous, run[r].original}
           /\ \A x \in Runs \ {r} : journal'[x] = journal[x]
<1>1. journal \in [Runs -> Record \cup {NoRecord}]
  BY DEF TypeInv, TypeOK
<1>2. CASE Prepare(r) \/ Succeed(r) \/ RecordFailure(r)
  BY <1>1, <1>2 DEF Prepare, Succeed, RecordFailure, Journal
<1>3. Prepare(r) \/ Succeed(r) \/ RecordFailure(r) \/ UNCHANGED journal
  BY DEF Workflow, Preflight, AcquireRead, AcquireCheck, MarkMutation,
         ApplyRead, Rollout, Smoke, Verify, Stage, Confirm, PublishSuccess, Cleanup,
         RestoreRead, RestoreVerify, RestoreRollout, RestoreConfirm,
         PublishFailure, ReleaseRead, PatchAnswered, ReadRefused, Verified,
         Mishap, PatchLost, PatchDelayed, Interrupt, CallFails, WriteFails, Crash
<1> QED
  BY <1>2, <1>3

LEMMA JournalStep ==
    ASSUME TypeInv, JournalInv, [Next]_vars
    PROVE  JournalInv'
<1>1. ASSUME NEW r \in Runs, Workflow(r) \/ Mishap(r), NEW x \in Runs
      PROVE  Journaled(x)'
  <2>0. run \in [Runs -> CoherentState] /\ Coherent(run[r]) /\ Journaled(x)
    BY DEF TypeInv, CoherentState, JournalInv
  <2>1. run[r].pc \notin Ended /\ Progress(r)
    BY <1>1, WorkflowProgress, MishapProgress
  <2>2. PICK t \in CoherentState : Becomes(r, t) /\ (Keeps(run[r], t) \/ Learns(r, t))
    BY <2>1 DEF Progress
  <2>3. run'[r] = t /\ (x # r => run'[x] = run[x])
    BY <2>0, <2>2 DEF Becomes
  <2>4. CASE x # r
    BY <1>1, <2>0, <2>3, <2>4, JournalWrites DEF Journaled
  <2>5. CASE x = r
    <3>1. /\ journal'[r].previous \in {journal[r].previous, run[r].original}
          /\ journal[r].previous \in {NoContent, run[r].original}
          /\ run[r].mutated \/ run[r].pc = "prepared" =>
                journal[r].previous = run[r].original
      BY <1>1, <2>0, <2>5, JournalWrites DEF Journaled
    <3>2. CASE Keeps(run[r], t)
      BY <2>3, <2>5, <3>1, <3>2 DEF Keeps, Journaled
    <3>3. CASE Claims(r, t) \/ Acquires(r, t)
      <4>1. run[r].original = NoContent
        BY <2>0, <3>3 DEF Claims, Acquires, Coherent, Unacquired
      <4> QED
        BY <2>3, <2>5, <3>1, <3>3, <4>1 DEF Claims, Acquires, Journaled
    <3>4. CASE Prepares(r, t)
      BY <2>3, <2>5, <3>1, <3>4 DEF Prepares, Journaled
    <3>5. CASE Marks(r, t)
      BY <2>3, <2>5, <3>1, <3>5 DEF Marks, Journaled
    <3> QED
      BY <2>2, <3>2, <3>3, <3>4, <3>5 DEF Learns
  <2> QED
    BY <2>4, <2>5
<1>2. CASE UNCHANGED <<run, journal>>
  BY <1>2 DEF JournalInv, Journaled
<1> QED
  BY <1>1, <1>2 DEF Next, OperatorUnlocks, vars, JournalInv

-----------------------------------------------------------------------------
(* Patches under way: a claim is good for one version only. *)

LEMMA ClaimStep ==
    ASSUME TypeInv, LateInv, ClaimInv, [Next]_vars
    PROVE  ClaimInv'
<1>0. /\ obj \in Object /\ obj.rv \in Nat
      /\ run \in [Runs -> CoherentState] /\ run \in [Runs -> RunState]
  BY DEF TypeInv, TypeOK, Object
<1>1. SUFFICES ASSUME NEW r \in Runs, run'[r].pc = "acquire"
               PROVE  Current(PatchOf(r))'
  BY DEF ClaimInv
<1>2. CASE run'[r] = run[r]
  <2>1. Current(PatchOf(r)) /\ PatchOf(r)' = PatchOf(r)
    BY <1>1, <1>2 DEF ClaimInv, PatchOf
  <2>2. PatchOf(r).op = "acquire" /\ PatchOf(r).seen.rv <= obj.rv
    BY <1>1, <1>2, <2>1 DEF Current, PatchOf
  <2>3. PatchOf(r).seen.rv \in Nat
    BY <1>0 DEF PatchOf, RunState, Snapshot
  <2> QED
    BY <1>0, <2>1, <2>2, <2>3, VersionGrows DEF Current
<1>3. CASE run'[r] # run[r]
  <2>1. Workflow(r) \/ Mishap(r)
    BY <1>3, Remembers
  <2>2. Progress(r)
    BY <2>1, WorkflowProgress, MishapProgress
  <2>3. PICK t \in CoherentState : Becomes(r, t) /\ (Keeps(run[r], t) \/ Learns(r, t))
    BY <2>2 DEF Progress
  <2>4. run'[r] = t
    BY <1>0, <2>3 DEF Becomes
  <2>5. Claims(r, t)
    BY <1>1, <2>3, <2>4 DEF Keeps, Learns, Acquires, Prepares, Marks
  <2>6. obj' = obj
    BY <2>1, <2>5, RunWrites DEF Claims, Operations
  <2>7. PatchOf(r)'.seen = Seen
    BY <2>4, <2>5 DEF Claims, PatchOf
  <2> QED
    BY <1>0, <2>5, <2>6, <2>7 DEF Current, Claims, Seen
<1> QED
  BY <1>2, <1>3

LEMMA LateStep ==
    ASSUME TypeInv, LateInv, ClaimInv, [Next]_vars
    PROVE  LateInv'
<1>0. /\ obj \in Object /\ obj.rv \in Nat /\ late \in SUBSET Request
      /\ run \in [Runs -> CoherentState]
  BY DEF TypeInv, TypeOK, Object
<1>1. ASSUME NEW q \in late
      PROVE  Faithful(q)' /\ Current(q)'
  <2>1. /\ q.seen.rv \in Nat /\ q.run \in Runs
    BY <1>0 DEF Request, Snapshot
  <2>2. Faithful(q) /\ Current(q)
    BY DEF LateInv
  <2>3. Faithful(q)'
    BY <2>1, <2>2, Remembers, NoContentFact DEF Faithful
  <2>4. Current(q)'
    BY <1>0, <2>1, <2>2, VersionGrows DEF Current
  <2> QED
    BY <2>3, <2>4
<1>3. ASSUME NEW r \in Runs, Workflow(r) \/ Mishap(r), run[r].pc \in Operations,
             obj' = obj, NEW q, q = PatchOf(r)
      PROVE  Faithful(q)' /\ Current(q)'
  <2>1. /\ q.op = run[r].pc /\ q.run = r /\ q.seen = run[r].seen
        /\ q.from = run[r].original
    BY <1>3 DEF PatchOf
  <2>2. Coherent(run[r])
    BY <1>0 DEF CoherentState
  <2>3. CASE run[r].pc = "acquire"
    <3>1. Current(q)
      BY <1>3, <2>3 DEF ClaimInv
    <3> QED
      BY <1>3, <2>1, <2>3, <3>1 DEF Faithful, Current
  <2>4. CASE run[r].pc \in {"apply", "restore"}
    <3>1. run[r].mutated /\ run[r].original \in Content
      BY <2>2, <2>4 DEF Coherent, Mutating, Recovery, Body, Unacquired, Acquired
    <3>2. run'[r].mutated /\ run'[r].original = run[r].original
      BY <1>3, <3>1, Remembers, NoContentFact DEF Next
    <3>3. q.op = "apply" => q.seen.audit = q.from.audit
      BY <2>1, <2>2 DEF Coherent
    <3> QED
      BY <2>1, <2>4, <3>1, <3>2, <3>3 DEF Faithful, Current
  <2>5. CASE run[r].pc = "release"
    <3>1. Progress(r)
      BY <1>3, WorkflowProgress, MishapProgress
    <3>2. run'[r].pc \in Ended
      BY <1>0, <2>5, <3>1 DEF Progress, Becomes, Keeps, Learns, Claims, Acquires,
                              Prepares, Marks
    <3> QED
      BY <2>1, <2>5, <3>2 DEF Faithful, Current
  <2> QED
    BY <1>3, <2>3, <2>4, <2>5 DEF Operations
<1>4. ASSUME NEW r \in Runs, Workflow(r) \/ Mishap(r), NEW q \in late'
      PROVE  q \in late \/ (run[r].pc \in Operations /\ obj' = obj /\ q = PatchOf(r))
  BY <1>4, RunWrites
<1>5. CASE late' \subseteq late
  BY <1>1, <1>5 DEF LateInv
<1>6. ASSUME NEW r \in Runs, Workflow(r) \/ Mishap(r)
      PROVE  LateInv'
  BY <1>1, <1>3, <1>4, <1>6 DEF LateInv
<1>7. CASE Environment
  BY <1>5, <1>7 DEF Environment, ControllerWrites, ToolEdits, LockStripped,
                    Recreated, LateArrival
<1> QED
  BY <1>5, <1>6, <1>7 DEF Next, OperatorUnlocks, vars

-----------------------------------------------------------------------------
(* Mutual exclusion. *)

(* A patch that the API server accepts leaves every other owner its lock. *)
LEMMA AcceptedKeepsLock ==
    ASSUME TypeInv, NEW q \in Request, Passes(q), obj' = Effect(q), Current(q),
           q.op = "restore" => q.from \in Content,
           NEW x \in Runs, OwnedBy(x, run[x].uid),
           q.op = "release" => q.run # x
    PROVE  obj'.uid = obj.uid /\ obj'.lock = x
<1>0. obj \in Object /\ q.op \in Operations /\ q.run \in Runs
  BY DEF TypeInv, TypeOK, Request
<1>1. obj'.uid = obj.uid /\ obj'.lock = Written(q).lock
  BY <1>0, EffectVersion
<1>2. obj.lock = x /\ x # NoRun
  BY DEF OwnedBy
<1>3. q.op # "acquire"
  BY <1>2 DEF Passes, VersionUnchanged, Current
<1>4. q.op # "release"
  BY <1>2 DEF Passes, LockIsMine
<1>5. Written(q).lock = obj.lock
  BY <1>0, <1>3, <1>4 DEF Written, Operations, Object
<1> QED
  BY <1>1, <1>2, <1>5

LEMMA LockStep ==
    ASSUME TypeInv, LateInv, ClaimInv, LockHeld, [Next]_vars
    PROVE  LockHeld'
<1>0. /\ obj \in Object /\ late \in SUBSET Request /\ spent \in Spent
      /\ run \in [Runs -> CoherentState] /\ run \in [Runs -> RunState]
  BY DEF TypeInv, TypeOK
<1>1. SUFFICES ASSUME spent'.meddles = 0, NEW x \in Runs, Owning(x)'
               PROVE  OwnedBy(x, run[x].uid)'
  BY DEF LockHeld
<1>2. run[x].pc \notin Ended /\ (run[x].original # NoContent => Owning(x))
  BY <1>1, Remembers DEF Owning
<1>3. ASSUME spent.meddles = 0, run[x].original # NoContent
      PROVE  OwnedBy(x, run[x].uid) /\ run'[x].uid = run[x].uid
  BY <1>2, <1>3, Remembers DEF LockHeld
<1>4. ASSUME NEW r \in Runs, Workflow(r) \/ Mishap(r)
      PROVE  OwnedBy(x, run[x].uid)'
  <2>1. spent.meddles = 0
    BY <1>1, <1>4, RunSpends DEF TypeInv
  <2>2. CASE run[x].original # NoContent
    <3>1. OwnedBy(x, run[x].uid) /\ run'[x].uid = run[x].uid
      BY <1>3, <2>1, <2>2
    <3>2. CASE obj' = obj
      BY <3>1, <3>2 DEF OwnedBy
    <3>3. CASE run[r].pc \in Operations /\ Passes(PatchOf(r)) /\ obj' = Effect(PatchOf(r))
      <4> DEFINE q == PatchOf(r)
      <4>1. q \in Request /\ q.op = run[r].pc /\ q.run = r /\ q.from = run[r].original
        BY <3>3, PatchOfType DEF PatchOf
      <4>2. Current(q)
        BY <4>1 DEF ClaimInv, Current
      <4>3. q.op = "restore" => q.from \in Content
        BY <1>0, <4>1 DEF CoherentState, Coherent, Mutating, Recovery, Unacquired,
                          Acquired, Body
      <4>4. q.op = "release" => q.run # x
        <5>1. SUFFICES ASSUME run[r].pc = "release", r = x
                       PROVE  FALSE
          BY <4>1
        <5>2. run'[x].pc \in Ended
          <6>1. Progress(x)
            BY <1>4, <5>1, WorkflowProgress, MishapProgress
          <6> QED
            BY <1>0, <5>1, <6>1 DEF Progress, Becomes, Keeps, Learns, Claims,
                                    Acquires, Prepares, Marks
        <5> QED
          BY <1>1, <5>2 DEF Owning
      <4> HIDE DEF q
      <4>5. obj'.uid = obj.uid /\ obj'.lock = x
        BY <3>1, <3>3, <4>1, <4>2, <4>3, <4>4, AcceptedKeepsLock DEF q
      <4> QED
        BY <3>1, <4>5 DEF OwnedBy
    <3> QED
      BY <1>4, <3>2, <3>3, RunWrites
  <2>3. CASE run[x].original = NoContent
    <3>1. run'[x] # run[x]
      BY <1>1, <2>3 DEF Owning
    <3>2. Workflow(x) \/ Mishap(x)
      BY <3>1, Remembers
    <3>3. PICK t \in CoherentState : Becomes(x, t) /\ (Keeps(run[x], t) \/ Learns(x, t))
      BY <3>2, WorkflowProgress, MishapProgress DEF Progress
    <3>4. run'[x] = t
      BY <1>0, <3>3 DEF Becomes
    <3>5. t.original # NoContent
      BY <1>1, <3>4 DEF Owning
    <3>6. Coherent(run[x])
      BY <1>0 DEF CoherentState
    <3>7. Acquires(x, t)
      BY <2>3, <3>3, <3>5, <3>6, NoContentFact
         DEF Keeps, Learns, Claims, Prepares, Marks, Coherent, Acquired
    <3>8. obj' = obj
      BY <3>2, <3>7, RunWrites DEF Acquires, Operations
    <3> QED
      BY <3>4, <3>7, <3>8 DEF Acquires, OwnedBy
  <2> QED
    BY <2>2, <2>3
<1>5. ASSUME NEW q \in late, LateArrival(q), run' = run
      PROVE  OwnedBy(x, run[x].uid)'
  <2>1. spent.meddles = 0 /\ OwnedBy(x, run[x].uid)
    BY <1>1, <1>3, <1>5 DEF LateArrival, Owning
  <2>2. /\ q \in Request /\ Current(q) /\ (q.op = "restore" => q.from \in Content)
        /\ q.op = "release" => q.run # x
    BY <1>0, <1>2 DEF LateInv, Faithful
  <2>3. CASE obj' = obj
    BY <1>5, <2>1, <2>3 DEF OwnedBy
  <2>4. CASE Passes(q) /\ obj' = Effect(q)
    BY <1>5, <2>1, <2>2, <2>4, AcceptedKeepsLock DEF OwnedBy
  <2> QED
    BY <1>5, <2>3, <2>4 DEF LateArrival, Receive
<1>6. ASSUME ControllerWrites \/ ToolEdits, run' = run
      PROVE  OwnedBy(x, run[x].uid)'
  <2>1. spent.meddles = 0 /\ OwnedBy(x, run[x].uid)
    BY <1>0, <1>1, <1>3, <1>6 DEF ControllerWrites, ToolEdits, Spent, Owning
  <2>2. obj'.uid = obj.uid /\ obj'.lock = obj.lock
    BY <1>0, <1>6 DEF ControllerWrites, ToolEdits, OutsideWrite, Object
  <2> QED
    BY <1>6, <2>1, <2>2 DEF OwnedBy
<1>7. CASE LockStripped \/ Recreated
  BY <1>0, <1>1, <1>7 DEF LockStripped, Recreated, Spent
<1>8. ASSUME NEW r \in Runs, OperatorUnlocks(r)
      PROVE  FALSE
  <2>1. OwnedBy(x, run[x].uid)
    BY <1>1, <1>3, <1>8 DEF OperatorUnlocks, Owning
  <2> QED
    BY <1>2, <1>8, <2>1 DEF OperatorUnlocks, OwnedBy
<1>9. CASE UNCHANGED vars
  BY <1>1, <1>3, <1>9 DEF vars, Owning, OwnedBy
<1> QED
  BY <1>4, <1>5, <1>6, <1>7, <1>8, <1>9 DEF Next, Environment

-----------------------------------------------------------------------------
(* The theorems. *)

LEMMA InvInit == Init => Inv
<1> SUFFICES ASSUME Init PROVE Inv
  OBVIOUS
<1>1. Unread \in Snapshot
  BY DEF Unread, Snapshot, Content
<1>2. obj \in Object /\ spent \in Spent /\ late = {}
  BY DEF Init, ObjectInit, Object, Spent
<1>3. ASSUME NEW r \in Runs
      PROVE  run[r] \in CoherentState /\ run[r].pc = "preflight"
             /\ run[r].original = NoContent /\ ~run[r].mutated
  <2>1. run[r] \in RunState
    BY <1>1 DEF Init, RunState, Labels, Body, Statuses, Verdicts, Exits
  <2>2. run[r].pc = "preflight" /\ run[r].original = NoContent /\ ~run[r].mutated
    BY DEF Init
  <2> QED
    BY <2>1, <2>2 DEF CoherentState, Coherent, Acquired, Mutating, Recovery, Unacquired
<1>4. run \in [Runs -> CoherentState] /\ run \in [Runs -> RunState]
  BY <1>3 DEF Init, CoherentState
<1>5. TypeInv
  BY <1>2, <1>4 DEF TypeInv, TypeOK, Init
<1>6. LateInv /\ ClaimInv /\ LockHeld
  BY <1>2, <1>3 DEF LateInv, ClaimInv, LockHeld, Owning
<1>7. JournalInv
  BY <1>3 DEF JournalInv, Journaled, Init, NoRecord
<1> QED
  BY <1>5, <1>6, <1>7 DEF Inv

LEMMA InvStep == Inv /\ [Next]_vars => Inv'
BY TypeStep, LateStep, ClaimStep, JournalStep, LockStep DEF Inv

(* The invariant of DeploymentInvariant holds in every reachable state of     *)
(* deployment.py and deployment_guard.py, whatever fails and interferes.      *)
THEOREM InvHolds == Spec => []Inv
BY InvInit, InvStep, PTL DEF Spec

(* Every variable keeps its type; in particular the retry loops of acquire    *)
(* and apply never exceed their bound.                                        *)
THEOREM TypeCorrect == Spec => []TypeOK
<1>1. Inv => TypeOK
  BY DEF Inv, TypeInv
<1> QED
  BY <1>1, InvHolds, PTL

(* Mutual exclusion of deployment runs, for any number of them: unless the    *)
(* lock was stripped or the object recreated, a run between its acquisition   *)
(* and its end is the one the lock annotation names.                          *)
THEOREM MutualExclusion == Spec => []LockHeld
<1>1. Inv => LockHeld
  BY DEF Inv
<1> QED
  BY <1>1, InvHolds, PTL

-----------------------------------------------------------------------------
(* Refinement: every step of Deployment is a step of GuardedChange or none  *)
(* of its business.                                                         *)

OnRecord == [r \in Runs |-> journal[r].previous]

(* Putting image and audit keys back over an unchanged rest is all of it. *)
LEMMA PutBack ==
    ASSUME NEW c \in Content, NEW d \in Content, c.rest = d.rest
    PROVE  [c EXCEPT !.img = d.img, !.audit = d.audit, !.by = d.by] = d
<1> DEFINE e == [c EXCEPT !.img = d.img, !.audit = d.audit, !.by = d.by]
<1>1. e \in Content
  BY DEF Content
<1>2. e.img = d.img /\ e.rest = d.rest /\ e.audit = d.audit /\ e.by = d.by
  BY DEF Content
<1>3. ASSUME NEW x \in Content
      PROVE  x = [img |-> x.img, rest |-> x.rest, audit |-> x.audit, by |-> x.by]
  BY DEF Content
<1> HIDE DEF e
<1>4. e = d
  BY <1>1, <1>2, <1>3
<1> QED
  BY <1>4 DEF e

LEMMA PatchRefines ==
    ASSUME obj \in Object, NEW q \in Request, Passes(q), obj' = Effect(q), Current(q),
           q.op \in {"apply", "restore"} =>
               q.from \in Content /\ journal[q.run].previous = q.from,
           q.op = "apply" => q.seen.audit = q.from.audit,
           UNCHANGED journal
    PROVE  Guarded!Next
<1> DEFINE r == q.run
<1>0. r \in Runs /\ q.op \in Operations /\ obj.content \in Content /\ obj.rv \in Nat
  BY DEF Request, Object
<1>1. /\ obj'.content = Written(q).content /\ obj'.lock = Written(q).lock
      /\ obj'.actor = r
  BY <1>0 DEF Effect, Written, Object, Operations
<1>2. OnRecord[r] = journal[r].previous /\ OnRecord' = OnRecord
  BY <1>0 DEF OnRecord
<1>3. CASE q.op = "acquire"
  <2>1. obj.lock = NoRun /\ obj.content.audit = q.seen.audit
    BY <1>3 DEF Passes, VersionUnchanged, Current
  <2>2. [obj.content EXCEPT !.audit = q.seen.audit] = obj.content
    BY <1>0, <2>1 DEF Content
  <2>3. obj'.content = obj.content /\ obj'.lock = r
    BY <1>0, <1>1, <1>3, <2>2 DEF Written, Object
  <2>4. Guarded!Take(r)
    BY <1>1, <1>2, <2>1, <2>3 DEF Guarded!Take, OnRecord
  <2> QED
    BY <1>0, <2>4 DEF Guarded!Next
<1>4. CASE q.op = "apply"
  <2>1. obj.lock = r /\ SameContent(obj.content, q.from) /\ OnRecord[r] = q.from
    BY <1>2, <1>4 DEF Passes, LockIsMine, BaseUnchanged, SameContent
  <2>2. obj'.content = Deployed(r, obj.content) /\ obj'.lock = obj.lock
    BY <1>0, <1>1, <1>4 DEF Written, Object
  <2>3. Guarded!Change(r)
    BY <1>1, <1>2, <1>4, <2>1, <2>2, NoContentFact DEF Guarded!Change, OnRecord
  <2> QED
    BY <1>0, <2>3 DEF Guarded!Next
<1>5. CASE q.op = "restore"
  <2>1. /\ obj.lock = r /\ SameContent(obj.content, Deployed(r, q.from))
        /\ OnRecord[r] = q.from /\ q.from \in Content
    BY <1>2, <1>5 DEF Passes, LockIsMine, DeploymentUntouched
  <2>2. /\ obj'.content = [obj.content EXCEPT !.img = q.from.img,
                             !.audit = q.from.audit, !.by = q.from.by]
        /\ obj'.lock = obj.lock
    BY <1>0, <1>1, <1>5 DEF Written, Object
  <2>3. obj.content.rest = q.from.rest
    BY <2>1 DEF SameContent, SameTemplate, Deployed, Content
  <2>4. obj'.content = q.from
    BY ZenonT(60), <1>0, <2>1, <2>2, <2>3, PutBack
  <2>5. Guarded!Revert(r)
    BY <1>1, <1>2, <2>1, <2>2, <2>4, NoContentFact DEF Guarded!Revert, OnRecord
  <2> QED
    BY <1>0, <2>5 DEF Guarded!Next
<1>6. CASE q.op = "release"
  <2>1. obj.lock = r
    BY <1>6 DEF Passes, LockIsMine
  <2>2. obj'.content = obj.content /\ obj'.lock = NoRun
    BY <1>0, <1>1, <1>6 DEF Written, Object
  <2>3. Guarded!Leave(r)
    BY <1>1, <1>2, <2>1, <2>2 DEF Guarded!Leave, OnRecord
  <2> QED
    BY <1>0, <2>3 DEF Guarded!Next
<1> QED
  BY <1>0, <1>3, <1>4, <1>5, <1>6 DEF Operations

LEMMA OthersRefine ==
    ASSUME UNCHANGED journal, obj'.actor = Outside,
           obj'.lock \in {obj.lock, NoRun},
           \/ obj'.content = obj.content
           \/ obj'.content \in Content /\ obj'.content.by = Outside
    PROVE  Guarded!Next
BY DEF Guarded!Next, Guarded!Others

LEMMA RefinementStep ==
    ASSUME Inv, [Next]_vars
    PROVE  [Guarded!Next]_Guarded!vars
<1>0. /\ obj \in Object /\ late \in SUBSET Request
      /\ run \in [Runs -> CoherentState] /\ run \in [Runs -> RunState]
      /\ journal \in [Runs -> Record \cup {NoRecord}]
      /\ LateInv /\ JournalInv /\ TypeInv
  BY DEF Inv, TypeInv, TypeOK
<1>1. ASSUME UNCHANGED <<obj, journal>>
      PROVE  UNCHANGED Guarded!vars
  BY <1>1 DEF Guarded!vars
<1>2. ASSUME NEW r \in Runs, Workflow(r) \/ Mishap(r)
      PROVE  [Guarded!Next]_Guarded!vars
  <2>1. CASE obj' = obj
    <3>1. CASE journal'[r].previous = journal[r].previous
      <4>1. OnRecord' = OnRecord
        BY <1>2, <3>1, JournalWrites, <1>0 DEF OnRecord
      <4> QED
        BY <2>1, <4>1 DEF Guarded!vars, OnRecord
    <3>2. CASE journal'[r].previous # journal[r].previous
      <4>1. /\ journal[r].previous = NoContent
            /\ journal'[r].previous = run[r].original
            /\ run[r].original \in Content
        BY <1>0, <1>2, <3>2, JournalWrites DEF JournalInv, Journaled, RunState
      <4>2. OnRecord' = [OnRecord EXCEPT ![r] = run[r].original]
        BY <1>2, <4>1, JournalWrites, <1>0 DEF OnRecord
      <4>3. OnRecord[r] = NoContent
        BY <4>1 DEF OnRecord
      <4>4. Guarded!Note(r)
        BY <2>1, <4>1, <4>2, <4>3 DEF Guarded!Note, OnRecord
      <4> QED
        BY <4>4 DEF Guarded!Next
    <3> QED
      BY <3>1, <3>2
  <2>2. CASE obj' # obj
    <3> DEFINE q == PatchOf(r)
    <3>1. run[r].pc \in Operations /\ Passes(q) /\ obj' = Effect(q)
      BY <1>2, <2>2, RunWrites
    <3>2. /\ q \in Request /\ q.op = run[r].pc /\ q.run = r
          /\ q.from = run[r].original /\ q.seen = run[r].seen
      BY <1>0, <3>1, PatchOfType DEF PatchOf
    <3>3. Current(q)
      BY <3>2 DEF Current, ClaimInv, Inv
    <3>4. Coherent(run[r]) /\ Journaled(r)
      BY <1>0 DEF CoherentState, JournalInv
    <3>5. q.op \in {"apply", "restore"} =>
             q.from \in Content /\ journal[q.run].previous = q.from
      BY <3>2, <3>4 DEF Coherent, Mutating, Recovery, Unacquired, Acquired, Body,
                        Journaled
    <3>6. q.op = "apply" => q.seen.audit = q.from.audit
      BY <3>2, <3>4 DEF Coherent
    <3>7. UNCHANGED journal
      <4>1. CASE Workflow(r)
        BY <2>2, <4>1 DEF Workflow, Preflight, AcquireRead, AcquireCheck, Prepare,
         MarkMutation, ApplyRead, Rollout, Smoke, Verify, Succeed, Stage, Confirm,
         PublishSuccess, Cleanup, RestoreRead, RestoreVerify, RestoreRollout,
         RestoreConfirm, RecordFailure, PublishFailure, ReleaseRead,
         PatchAnswered, ReadRefused, Verified
      <4>2. CASE Mishap(r)
        BY <4>2 DEF Mishap, PatchLost, PatchDelayed, Interrupt, CallFails,
                    WriteFails, Crash
      <4> QED
        BY <1>2, <4>1, <4>2
    <3> HIDE DEF q
    <3> QED
      BY <1>0, <3>1, <3>2, <3>3, <3>5, <3>6, <3>7, PatchRefines
  <2> QED
    BY <2>1, <2>2
<1>3. ASSUME NEW q \in late, LateArrival(q), UNCHANGED journal
      PROVE  [Guarded!Next]_Guarded!vars
  <2>1. q \in Request /\ Faithful(q) /\ Current(q) /\ q.run \in Runs
    BY <1>0 DEF LateInv, Request
  <2>2. q.op \in {"apply", "restore"} =>
           q.from \in Content /\ journal[q.run].previous = q.from
    BY <1>0, <2>1 DEF Faithful, JournalInv, Journaled
  <2>3. q.op = "apply" => q.seen.audit = q.from.audit
    BY <2>1 DEF Faithful
  <2>4. CASE Passes(q) /\ obj' = Effect(q)
    BY <1>0, <1>3, <2>1, <2>2, <2>3, <2>4, PatchRefines
  <2> QED
    BY <1>1, <1>3, <2>4 DEF LateArrival, Receive
<1>4. ASSUME ControllerWrites, UNCHANGED journal
      PROVE  Guarded!Next
  <2>1. obj'.actor = Outside /\ obj'.lock = obj.lock /\ obj'.content = obj.content
    BY <1>0, <1>4 DEF ControllerWrites, OutsideWrite, Object
  <2> QED
    BY <1>4, <2>1, OthersRefine
<1>5. ASSUME ToolEdits, UNCHANGED journal
      PROVE  Guarded!Next
  <2>1. PICK i \in Images \cup {Unpinned}, p \in Rests, a \in Audits :
          OutsideWrite([obj EXCEPT !.content =
                          [img |-> i, rest |-> p, audit |-> a, by |-> Outside]])
    BY <1>5 DEF ToolEdits
  <2> DEFINE c == [img |-> i, rest |-> p, audit |-> a, by |-> Outside]
  <2>2. c \in Content /\ c.by = Outside
    BY DEF Content
  <2> HIDE DEF c
  <2>3. obj' = [[obj EXCEPT !.content = c] EXCEPT !.rv = obj.rv + 1, !.actor = Outside]
    BY <2>1 DEF OutsideWrite, c
  <2>4. obj'.actor = Outside /\ obj'.lock = obj.lock /\ obj'.content = c
    BY <1>0, <2>3 DEF Object
  <2> QED
    BY <1>5, <2>2, <2>4, OthersRefine
<1>6. ASSUME LockStripped, UNCHANGED journal
      PROVE  Guarded!Next
  <2>1. obj'.actor = Outside /\ obj'.lock = NoRun /\ obj'.content = obj.content
    BY <1>0, <1>6 DEF LockStripped, OutsideWrite, Object
  <2> QED
    BY <1>6, <2>1, OthersRefine
<1>7. ASSUME Recreated, UNCHANGED journal
      PROVE  Guarded!Next
  <2>1. obj'.actor = Outside /\ obj'.lock = NoRun /\ obj'.content = Base
    BY <1>0, <1>7 DEF Recreated, OutsideWrite, Object
  <2> QED
    BY <1>7, <2>1, OthersRefine
<1>8. ASSUME NEW r \in Runs, OperatorUnlocks(r)
      PROVE  Guarded!Next
  <2>1. obj'.actor = Outside /\ obj'.lock = NoRun /\ obj'.content = obj.content
    BY <1>0, <1>8 DEF OperatorUnlocks, OutsideWrite, Object
  <2> QED
    BY <1>8, <2>1, OthersRefine DEF OperatorUnlocks
<1> QED
  BY <1>1, <1>2, <1>3, <1>4, <1>5, <1>6, <1>7, <1>8 DEF Next, Environment, vars

LEMMA RefinementInit ==
    ASSUME Init
    PROVE  Guarded!Init
<1>1. obj.lock = NoRun /\ obj.content = Base /\ obj.actor = Outside
  BY DEF Init, ObjectInit
<1>2. OnRecord = [r \in Runs |-> NoContent]
  BY DEF Init, NoRecord, OnRecord
<1> QED
  BY <1>1, <1>2 DEF Guarded!Init, OnRecord

(* Deployment implements GuardedChange: whatever is lost, late or repeated   *)
(* between kubectl and the API server, a run changes the object only while    *)
(* it is the owner, only from the content that is in its journal, and takes   *)
(* back exactly its own change.                                               *)
THEOREM Refinement == Spec => Promise
<1>1. Init => Guarded!Init
  BY RefinementInit
<1>2. Inv /\ [Next]_vars => [Guarded!Next]_Guarded!vars
  BY RefinementStep
<1> QED
  BY <1>1, <1>2, InvHolds, PTL DEF Spec, Promise, Guarded!Spec

-----------------------------------------------------------------------------
(* Runs keep what belongs to others. *)

LEMMA PatchKeepsForeign ==
    ASSUME obj \in Object, NEW q \in Request, Passes(q), Current(q), obj' = Effect(q)
    PROVE  /\ obj'.extra = obj.extra /\ obj'.uid = obj.uid /\ obj'.actor = q.run
           /\ obj'.lock # obj.lock => {obj.lock, obj'.lock} = {NoRun, q.run}
<1>0. q.op \in Operations /\ obj.rv \in Nat
  BY DEF Request, Object
<1>1. /\ obj'.extra = Written(q).extra /\ obj'.uid = obj.uid /\ obj'.actor = q.run
      /\ obj'.lock = Written(q).lock
  BY <1>0 DEF Effect, Written, Object, Operations
<1>2. CASE q.op = "acquire"
  BY <1>1, <1>2 DEF Passes, VersionUnchanged, Current, Written, Object
<1>3. CASE q.op = "release"
  BY <1>1, <1>3 DEF Passes, LockIsMine, Written, Object
<1>4. CASE q.op \in {"apply", "restore"}
  BY <1>1, <1>4 DEF Written, Object
<1> QED
  BY <1>0, <1>2, <1>3, <1>4 DEF Operations

(* The patches of runs lose no annotation of a controller, although acquire() *)
(* rewrites the whole map, and take the lock from nobody but themselves.      *)
THEOREM ForeignStateSafe == Spec => ForeignStateKept
<1> DEFINE Kept(r) ==
      (obj'.rv # obj.rv /\ obj'.actor = r) =>
            /\ obj'.extra = obj.extra
            /\ obj'.uid = obj.uid
            /\ obj'.lock # obj.lock => {obj.lock, obj'.lock} = {NoRun, r}
<1>1. ASSUME Inv, [Next]_vars, NEW r \in Runs
      PROVE  Kept(r)
  <2>0. /\ obj \in Object /\ late \in SUBSET Request /\ TypeInv /\ LateInv
        /\ Outside \notin Runs
    BY <1>1 DEF Inv, TypeInv, TypeOK
  <2>1. ASSUME NEW x \in Runs, Workflow(x) \/ Mishap(x)
        PROVE  Kept(r)
    <3>1. CASE obj' = obj
      BY <3>1
    <3>2. CASE run[x].pc \in Operations /\ Passes(PatchOf(x)) /\ obj' = Effect(PatchOf(x))
      <4>1. PatchOf(x) \in Request /\ PatchOf(x).run = x
        BY <2>0, <3>2, PatchOfType DEF PatchOf
      <4>2. Current(PatchOf(x))
        BY <1>1, <3>2 DEF Inv, ClaimInv, Current, PatchOf
      <4> QED
        BY <2>0, <3>2, <4>1, <4>2, PatchKeepsForeign
    <3> QED
      BY <2>1, <3>1, <3>2, RunWrites
  <2>2. ASSUME NEW q \in late, LateArrival(q)
        PROVE  Kept(r)
    <3>1. q \in Request /\ Current(q)
      BY <2>0 DEF LateInv
    <3> QED
      BY <2>0, <2>2, <3>1, PatchKeepsForeign DEF LateArrival, Receive
  <2>4. CASE ControllerWrites
    BY <2>0, <2>4 DEF ControllerWrites, OutsideWrite, Object
  <2>5. CASE ToolEdits
    BY <2>0, <2>5 DEF ToolEdits, OutsideWrite, Object
  <2>6. CASE LockStripped \/ Recreated
    BY <2>0, <2>6 DEF LockStripped, Recreated, OutsideWrite, Object
  <2>7. CASE \E x \in Runs : OperatorUnlocks(x)
    BY <2>0, <2>7 DEF OperatorUnlocks, OutsideWrite, Object
  <2>8. CASE UNCHANGED vars
    BY <2>8 DEF vars
  <2> QED
    BY <1>1, <2>1, <2>2, <2>4, <2>5, <2>6, <2>7, <2>8 DEF Next, Environment
<1>2. ASSUME Inv, [Next]_vars
      PROVE  [\A r \in Runs : Kept(r)]_vars
  BY <1>1, <1>2
<1> QED
  BY <1>2, InvHolds, PTL DEF Spec, ForeignStateKept

-----------------------------------------------------------------------------
(* What records say, from the order of writes and from signals being masked *)
(* once the success transaction or the handler has begun.                   *)

(* From here on a second signal is ignored. *)
Masked == {"confirm", "publish", "published"} \cup Recovery \cup Recording

(* Where a result can be on disk, unless cleaning up after it fails *)
Settled == {"published"} \cup Releasing \cup Ended

RecordOf(s, status, rollback) ==
    [status |-> status, rollback |-> rollback, previous |-> s.original]

MaskInv(r) == run[r].pc \in Masked => run[r].recovering

ResultInv(r) ==
    /\ run[r].pc \in {"stage", "confirm", "publish"} =>
          journal[r] = RecordOf(run[r], "succeeded", "none")
    /\ run[r].pc = "publish_failure" =>
          journal[r] = RecordOf(run[r], run[r].status, run[r].rollback)
    /\ result[r] # NoRecord => run[r].pc \in Settled /\ journal[r] = result[r]

-----------------------------------------------------------------------------
(* One step of a run, by what it does to the records *)

(* A failure or conflict outside release() is handled or ends the rollback. *)
LEMMA FailureOutcome ==
    ASSUME NEW s \in RunState, s.pc \notin Releasing \cup Ended,
           s.pc \in Recovery => s.recovering,
           NEW t, t \in {Failed(s), Conflicted(s)} \/ (t = Interrupted(s) /\ ~s.recovering)
    PROVE  t.pc \in {"restore_read", "record_failure"} /\ t.recovering
<1>1. t \in {Handled(s, "failed"), Handled(s, "interrupted")}
      \/ (s.pc \in Recovery /\ t \in {RollbackEnds(s, "failed"), RollbackEnds(s, "skipped-conflict")})
  BY DEF Failed, Conflicted, Interrupted
<1> QED
  BY <1>1 DEF RunState, Handled, Left, RollbackEnds

(* Nothing is recorded, and nothing that will be. *)
Advances(s, t) ==
    /\ UNCHANGED <<journal, result>>
    /\ s.pc \notin Settled
    /\ t.pc \notin {"stage", "confirm", "publish", "published", "publish_failure"}
    /\ t.pc \in Masked => t.recovering

(* The end of the success transaction, and the "finally" clause *)
Retires(s, t) ==
    /\ UNCHANGED <<journal, result>>
    /\ s.pc \in {"published"} \cup Releasing /\ t.pc \in Releasing \cup Ended

Records(r) == Prepare(r) \/ Succeed(r) \/ Stage(r) \/ Confirm(r) \/ PublishSuccess(r) \/ RecordFailure(r)
              \/ PublishFailure(r) \/ Cleanup(r)

LEMMA RunKinds ==
    ASSUME TypeInv, NEW r \in Runs, MaskInv(r), Workflow(r) \/ Mishap(r)
    PROVE  \/ Advances(run[r], run'[r])
           \/ Retires(run[r], run'[r])
           \/ Records(r)
<1> DEFINE s == run[r]
           t == run'[r]
<1>0. s \in RunState /\ run \in [Runs -> RunState]
  BY DEF TypeInv, TypeOK
<1>1. s.pc \in Recovery => s.recovering
  BY DEF MaskInv, Masked
<1>l. /\ {"confirm", "publish", "published", "stage", "publish_failure", "record_failure",
          "restore_read"} \cap (Releasing \cup Ended) = {}
      /\ {"published", "stage", "confirm", "publish"} \cap Recovery = {}
  BY DEF Releasing, Ended, Recovery
<1>2. ASSUME \/ Becomes(r, Failed(s)) \/ Becomes(r, Conflicted(s))
             \/ Becomes(r, Interrupted(s)) /\ ~s.recovering,
             UNCHANGED <<journal, result>>, s.pc \notin Settled
      PROVE  Advances(s, t)
  <2>1. t \in {Failed(s), Conflicted(s)} \/ (t = Interrupted(s) /\ ~s.recovering)
    BY <1>0, <1>2 DEF Becomes
  <2>2. t.pc \in {"restore_read", "record_failure"} /\ t.recovering
    BY <1>0, <1>1, <1>2, <2>1, FailureOutcome DEF Settled
  <2> QED
    BY <1>2, <2>2 DEF Advances
<1>3. ASSUME Preflight(r) \/ AcquireRead(r) \/ AcquireCheck(r) \/ MarkMutation(r)
             \/ ApplyRead(r)
      PROVE  Advances(s, t)
  <2>1. /\ s.pc \in {"preflight", "acquire_read", "acquire_check", "prepared", "apply_read"}
        /\ UNCHANGED <<journal, result>>
    BY <1>3 DEF Preflight, AcquireRead, AcquireCheck, MarkMutation, ApplyRead, At
  <2>2. s.pc \notin Settled
    BY <2>1 DEF Settled, Releasing, Ended
  <2>3. CASE Becomes(r, Failed(s)) \/ Becomes(r, Conflicted(s))
    BY <1>2, <2>1, <2>2, <2>3
  <2>4. CASE ~(Becomes(r, Failed(s)) \/ Becomes(r, Conflicted(s)))
    <3>1. t.pc \in {"acquire_read", "acquire", "prepare", "apply_read", "apply"}
      <4>1. \/ t = [s EXCEPT !.pc = "acquire_read"]
            \/ t = [Left(s) EXCEPT !.pc = "prepare", !.original = obj.content]
            \/ t = [s EXCEPT !.pc = "acquire", !.uid = obj.uid, !.attempted = TRUE, !.seen = Seen]
            \/ t = [s EXCEPT !.pc = "prepare", !.original = obj.content]
            \/ t = [s EXCEPT !.pc = "apply_read", !.mutated = TRUE]
            \/ t = [s EXCEPT !.pc = "apply", !.seen = Seen]
        BY <1>0, <1>3, <2>4 DEF Preflight, AcquireRead, AcquireCheck, MarkMutation, ApplyRead,
           Becomes, Conflict
      <4> QED
        BY <1>0, <4>1 DEF Left, RunState
    <3> QED
      BY <2>1, <2>2, <3>1 DEF Advances, Masked, Recovery, Recording
  <2> QED
    BY <2>3, <2>4
<1>5. ASSUME Rollout(r) \/ Smoke(r) \/ Verify(r)
      PROVE  Advances(s, t)
  <2>1. s.pc \in {"rollout", "smoke", "verify"} /\ UNCHANGED <<journal, result>>
    BY <1>5 DEF Rollout, Smoke, Verify, Verified, At
  <2>2. s.pc \notin Settled
    BY <2>1 DEF Settled, Releasing, Ended
  <2>3. CASE Becomes(r, Failed(s)) \/ Becomes(r, Conflicted(s))
    BY <1>2, <2>1, <2>2, <2>3
  <2>4. CASE ~(Becomes(r, Failed(s)) \/ Becomes(r, Conflicted(s)))
    <3>1. t.pc \in {"smoke", "verify", "succeed", "release_read", "done"}
      <4>1. CASE Becomes(r, Finally(s, "escaped"))
        BY <1>0, <4>1 DEF Becomes, Finally, RunState
      <4>2. CASE ~Becomes(r, Finally(s, "escaped"))
        <5>1. \E label \in {"smoke", "verify", "succeed"} : t = [s EXCEPT !.pc = label]
          BY <1>0, <1>5, <2>4, <4>2 DEF Rollout, Smoke, Verify, Verified, Becomes, Conflict
        <5> QED
          BY <1>0, <5>1 DEF RunState
      <4> QED
        BY <4>1, <4>2
    <3> QED
      BY <2>1, <2>2, <3>1 DEF Advances, Masked, Recovery, Recording
  <2> QED
    BY <2>3, <2>4
<1>6. ASSUME RestoreRead(r) \/ RestoreVerify(r) \/ RestoreRollout(r) \/ RestoreConfirm(r)
      PROVE  Advances(s, t)
  <2>1. s.pc \in Recovery /\ UNCHANGED <<journal, result>> /\ s.recovering
    BY <1>1, <1>6 DEF RestoreRead, RestoreVerify, RestoreRollout, RestoreConfirm, Verified, At,
       Recovery
  <2>2. s.pc \notin Settled
    BY <2>1 DEF Settled, Releasing, Ended, Recovery
  <2>3. CASE Becomes(r, Failed(s)) \/ Becomes(r, Conflicted(s))
    BY <1>2, <2>1, <2>2, <2>3
  <2>4. CASE ~(Becomes(r, Failed(s)) \/ Becomes(r, Conflicted(s)))
    <3>1. /\ t.pc \in {"record_failure", "restore_verify", "restore", "restore_confirm"}
          /\ t.recovering = s.recovering
      <4>1. \/ \E label \in {"restore_verify", "restore", "restore_confirm"} :
                  t = [s EXCEPT !.pc = label]
            \/ \E verdict \in {"not-required", "succeeded"} : t = RollbackEnds(s, verdict)
        BY <1>0, <1>6, <2>4 DEF RestoreRead, RestoreVerify, RestoreRollout, RestoreConfirm,
           Verified, Becomes, Conflict
      <4> QED
        BY <1>0, <4>1 DEF RollbackEnds, RunState
    <3> QED
      BY <2>1, <2>2, <3>1 DEF Advances
  <2> QED
    BY <2>3, <2>4
<1>7. ASSUME ReleaseRead(r) PROVE Retires(s, t)
  <2>1. t.pc \in {"release", "done"}
    BY <1>0, <1>7 DEF ReleaseRead, Becomes, RunState
  <2> QED
    BY <1>7, <2>1 DEF ReleaseRead, At, Retires, Releasing, Ended
<1>8. ASSUME s.pc \in Operations, UNCHANGED <<journal, result>>,
             \/ Becomes(r, Patched(s)) \/ Becomes(r, CallErred(s)) \/ Becomes(r, Failed(s))
             \/ Interruptible(r) /\ Becomes(r, Interrupted(s))
      PROVE  Advances(s, t) \/ Retires(s, t)
  <2>1. CASE s.pc = "release"
    <3>1. t.pc = "done"
      <4>1. t \in {[s EXCEPT !.pc = "done"], Unreleased(s),
                   [s EXCEPT !.pc = "done", !.recovering = TRUE]}
        BY <1>0, <1>8, <2>1 DEF Becomes, Patched, CallErred, Failed, Interrupted, Recovery, Releasing
      <4> QED
        BY <1>0, <4>1 DEF Unreleased, RunState
    <3> QED
      BY <1>8, <2>1, <3>1 DEF Retires, Releasing, Ended
  <2>2. CASE s.pc # "release"
    <3>1. s.pc \in {"acquire", "apply", "restore"} /\ s.pc \notin Settled
      BY <1>8, <2>2 DEF Operations, Settled, Releasing, Ended
    <3>2. CASE \/ Becomes(r, Failed(s)) \/ Becomes(r, Conflicted(s))
               \/ Becomes(r, Interrupted(s)) /\ ~s.recovering
      BY <1>2, <1>8, <3>1, <3>2
    <3>3. CASE Becomes(r, Patched(s))
      <4>1. /\ t.pc \in {"acquire_check", "rollout", "restore_rollout"}
            /\ s.pc = "restore" => t.recovering = s.recovering
            /\ s.pc # "restore" => t.pc # "restore_rollout"
        BY <1>0, <3>1, <3>3 DEF Becomes, Patched, Left, RunState
      <4> QED
        BY <1>1, <1>8, <3>1, <4>1 DEF Advances, Masked, Recovery, Recording
    <3>4. CASE Becomes(r, CallErred(s)) /\ ~Becomes(r, Conflicted(s)) /\ ~Becomes(r, Failed(s))
      <4>1. /\ t.pc \in {"acquire_read", "apply_read", "restore_read", "record_failure"}
            /\ t.pc \in Masked => t.recovering
        BY <1>0, <3>1, <3>4 DEF Becomes, CallErred, Retried, Handled, Left, RunState, Masked,
           Recovery, Recording
      <4> QED
        BY <1>8, <3>1, <4>1 DEF Advances
    <3> QED
      BY <1>8, <3>2, <3>3, <3>4 DEF Interruptible
  <2> QED
    BY <2>1, <2>2
<1>9. ASSUME Interrupt(r) PROVE Advances(s, t) \/ Retires(s, t)
  <2>1. /\ Becomes(r, Interrupted(s)) /\ ~s.recovering /\ s.pc \notin Ended
        /\ UNCHANGED <<journal, result>>
    BY <1>9 DEF Interrupt, Interruptible
  <2>2. CASE s.pc \in Releasing
    <3>1. t.pc = "done"
      BY <1>0, <2>1, <2>2 DEF Becomes, Interrupted, RunState
    <3> QED
      BY <2>1, <2>2, <3>1 DEF Retires, Ended
  <2>3. CASE s.pc \notin Releasing
    <3>1. s.pc # "published"
      BY <2>1 DEF MaskInv, Masked
    <3> QED
      BY <1>2, <2>1, <2>3, <3>1 DEF Settled
  <2> QED
    BY <2>2, <2>3
<1>10. ASSUME CallFails(r) \/ ReadRefused(r) \/ WriteFails(r)
       PROVE  Advances(s, t) \/ Retires(s, t)
  <2>1. /\ Becomes(r, Failed(s)) /\ UNCHANGED <<journal, result>>
        /\ s.pc \in Calls \cup {"prepare", "succeed", "stage", "publish"}
    BY <1>10 DEF CallFails, ReadRefused, WriteFails, Calls
  <2>2. CASE s.pc = "release_read"
    <3>1. t.pc = "done"
      BY <1>0, <2>1, <2>2 DEF Becomes, Failed, Unreleased, Recovery, Releasing, RunState
    <3> QED
      BY <2>1, <2>2, <3>1 DEF Retires, Releasing, Ended
  <2>3. CASE s.pc # "release_read"
    <3>1. s.pc \notin Settled
      BY <2>1, <2>3 DEF Calls, Reads, Settled, Releasing, Ended
    <3> QED
      BY <1>2, <2>1, <3>1
  <2> QED
    BY <2>2, <2>3
<1>11. ASSUME Crash(r) PROVE Advances(s, t) \/ Retires(s, t)
  <2>1. /\ t.pc = "crashed"
        /\ s.pc \notin Ended /\ UNCHANGED <<journal, result>>
    BY <1>0, <1>11 DEF Crash, Becomes, RunState
  <2> QED
    BY <2>1 DEF Advances, Retires, Settled, Masked, Recovery, Recording, Releasing, Ended
<1>12. CASE Workflow(r)
  BY <1>3, <1>5, <1>6, <1>7, <1>8, <1>10, <1>12 DEF Workflow, Records, PatchAnswered
<1>13. CASE Mishap(r)
  BY <1>8, <1>9, <1>10, <1>11, <1>13 DEF Mishap, PatchLost, PatchDelayed
<1> QED
  BY <1>12, <1>13

(* What those steps do that write records, or are next to one *)
Recorded(r, s, t) ==
    \/ /\ s.pc = "prepare" /\ t.pc = "prepared" /\ UNCHANGED result
       /\ \E rec \in Record : journal' = [journal EXCEPT ![r] = rec]
    \/ /\ s.pc = "succeed" /\ t.pc = "stage" /\ UNCHANGED result
       /\ journal' = [journal EXCEPT ![r] = RecordOf(s, "succeeded", "none")]
    \/ /\ s.pc = "stage" /\ t.pc = "confirm" /\ t.recovering /\ UNCHANGED <<journal, result>>
    \/ /\ s.pc = "confirm" /\ t.pc = "publish" /\ t.recovering /\ UNCHANGED <<journal, result>>
    \/ /\ s.pc = "publish" /\ t.pc = "published" /\ t.recovering /\ UNCHANGED journal
       /\ result' = [result EXCEPT ![r] = RecordOf(s, "succeeded", "none")]
    \/ /\ s.pc = "record_failure" /\ t.pc = "publish_failure" /\ t.recovering /\ UNCHANGED result
       /\ t.status = s.status /\ t.rollback = s.rollback
       /\ journal' = [journal EXCEPT ![r] = RecordOf(s, s.status, s.rollback)]
    \/ /\ s.pc = "publish_failure" /\ t.pc \in Releasing \cup Ended /\ UNCHANGED journal
       /\ UNCHANGED result \/ result' = [result EXCEPT ![r] = RecordOf(s, s.status, s.rollback)]

LEMMA RecordedSteps ==
    ASSUME TypeInv, NEW r \in Runs, MaskInv(r), Records(r)
    PROVE  \/ Advances(run[r], run'[r]) \/ Retires(run[r], run'[r])
           \/ /\ Recorded(r, run[r], run'[r])
              /\ run'[r].original = run[r].original
           \/ CleanupFails /\ run[r].pc = "published" /\ run'[r].recovering
<1> DEFINE s == run[r]
           t == run'[r]
           Goal == \/ Advances(s, t) \/ Retires(s, t)
                   \/ Recorded(r, s, t) /\ t.original = s.original
                   \/ CleanupFails /\ s.pc = "published" /\ t.recovering
<1>0. s \in RunState /\ run \in [Runs -> RunState]
  BY DEF TypeInv, TypeOK
<1>1. s.pc \in Masked => s.recovering
  BY DEF MaskInv
<1>l. Masked = {"confirm", "publish", "published", "record_failure", "publish_failure"} \cup Recovery
  BY DEF Masked, Recording
<1>2. CASE Prepare(r)
  <2>1. t = [s EXCEPT !.pc = "prepared"] /\ s.pc = "prepare"
    BY <1>0, <1>2 DEF Prepare, Becomes, At
  <2>2. [status |-> "prepared", rollback |-> "none", previous |-> s.original] \in Record
    BY <1>0 DEF Record, RunState, Statuses, Verdicts
  <2> QED
    BY <1>0, <1>2, <2>1, <2>2 DEF Prepare, Journal, Recorded, RunState
<1>3. CASE Succeed(r)
  <2>1. t = [s EXCEPT !.pc = "stage"] /\ s.pc = "succeed"
    BY <1>0, <1>3 DEF Succeed, Becomes, At
  <2> QED
    BY <1>0, <1>3, <2>1 DEF Succeed, Journal, RecordOf, Recorded, RunState
<1>4. CASE Stage(r)
  <2>1. t = [s EXCEPT !.pc = "confirm", !.recovering = TRUE] /\ s.pc = "stage"
    BY <1>0, <1>4 DEF Stage, Becomes, At
  <2> QED
    BY <1>0, <1>4, <2>1 DEF Stage, Recorded, RunState
<1>5. CASE Confirm(r)
  <2>1. s.pc = "confirm" /\ s.recovering /\ UNCHANGED <<journal, result>>
    BY <1>1, <1>5, <1>l DEF Confirm, Verified, At
  <2>2. t = [s EXCEPT !.pc = "publish"] \/ t = Conflicted(s)
    BY <1>0, <1>5 DEF Confirm, Verified, Becomes, Conflict
  <2>3. CASE t = [s EXCEPT !.pc = "publish"]
    BY <1>0, <2>1, <2>3 DEF Recorded, RunState
  <2>4. CASE t = Conflicted(s)
    <3>1. s.pc \notin Releasing \cup Ended /\ s.pc \notin Settled
      BY <2>1 DEF Settled, Releasing, Ended
    <3>2. t.pc \in {"restore_read", "record_failure"} /\ t.recovering
      BY <1>0, <2>1, <2>4, <3>1, FailureOutcome
    <3> QED
      BY <2>1, <3>1, <3>2 DEF Advances
  <2> QED
    BY <2>2, <2>3, <2>4
<1>6. CASE PublishSuccess(r)
  <2>1. t = [s EXCEPT !.pc = "published"] /\ s.pc = "publish"
    BY <1>0, <1>6 DEF PublishSuccess, Becomes, At
  <2> QED
    BY <1>0, <1>1, <1>6, <1>l, <2>1 DEF PublishSuccess, Publish, RecordOf, Recorded, RunState
<1>7. CASE RecordFailure(r)
  <2>1. s.pc = "record_failure" /\ s.recovering /\ UNCHANGED result
    BY <1>1, <1>7, <1>l DEF RecordFailure, At
  <2>2. CASE Journal(r, s.status, s.rollback) /\ Becomes(r, [s EXCEPT !.pc = "publish_failure"])
    <3>1. t = [s EXCEPT !.pc = "publish_failure"]
      BY <1>0, <2>2 DEF Becomes
    <3> QED
      BY <1>0, <2>1, <2>2, <3>1 DEF Journal, RecordOf, Recorded, RunState
  <2>3. CASE Becomes(r, Finally(s, "raised")) /\ UNCHANGED journal
    <3>1. t = Finally(s, "raised")
      BY <1>0, <2>3 DEF Becomes
    <3>2. t.pc \in {"release_read", "done"}
      BY <1>0, <3>1 DEF Finally, RunState
    <3> QED
      BY <2>1, <2>3, <3>2 DEF Advances, Settled, Releasing, Ended, Masked, Recovery, Recording
  <2> QED
    BY <1>7, <2>2, <2>3 DEF RecordFailure
<1>8. CASE PublishFailure(r)
  <2>1. t = Finally(s, "raised") /\ s.pc = "publish_failure"
    BY <1>0, <1>8 DEF PublishFailure, Becomes, At
  <2>2. t.pc \in Releasing \cup Ended /\ t.original = s.original
    BY <1>0, <2>1 DEF Finally, RunState, Releasing, Ended
  <2>3. UNCHANGED journal /\ (UNCHANGED result \/ Publish(r, s.status, s.rollback))
    BY <1>8 DEF PublishFailure
  <2> QED
    BY <2>1, <2>2, <2>3 DEF Publish, RecordOf, Recorded
<1>9. CASE Cleanup(r)
  <2>1. s.pc = "published" /\ UNCHANGED <<journal, result>>
    BY <1>9 DEF Cleanup, At
  <2>2. CASE t = Finally(s, "returned")
    <3>1. t.pc \in Releasing \cup Ended
      BY <1>0, <2>2 DEF Finally, RunState, Releasing, Ended
    <3> QED
      BY <2>1, <3>1 DEF Retires
  <2>3. CASE CleanupFails /\ t = Failed(s)
    <3>1. s.pc \notin Releasing \cup Ended \cup Recovery
      BY <2>1 DEF Releasing, Ended, Recovery
    <3>2. t.recovering
      BY <1>0, <2>3, <3>1, FailureOutcome
    <3> QED
      BY <2>1, <2>3, <3>2
  <2> QED
    BY <1>0, <1>9, <2>2, <2>3 DEF Cleanup, Becomes
<1> QED
  BY <1>2, <1>3, <1>4, <1>5, <1>6, <1>7, <1>8, <1>9 DEF Records

-----------------------------------------------------------------------------
(* The records are never behind. *)

Masking == \A r \in Runs : MaskInv(r)
OutcomeInv == \A r \in Runs : MaskInv(r) /\ ResultInv(r)

LEMMA MaskFacts ==
    /\ Masked = {"confirm", "publish", "published", "record_failure", "publish_failure"}
                    \cup Recovery
    /\ Masked \cap (Releasing \cup Ended) = {}
    /\ {"stage", "confirm", "publish", "prepare", "prepared", "succeed", "record_failure",
        "publish_failure"} \cap Settled = {}
    /\ {"prepared", "stage"} \cap Masked = {}
BY DEF Masked, Recording, Recovery, Settled, Releasing, Ended

(* The step of a run unmasks nothing too early. *)
LEMMA OwnMask ==
    ASSUME TypeInv, NEW r \in Runs, MaskInv(r), Workflow(r) \/ Mishap(r)
    PROVE  MaskInv(r)'
<1> DEFINE s == run[r]
           t == run'[r]
<1>1. CASE Advances(s, t)
  BY <1>1 DEF Advances, MaskInv
<1>2. CASE Retires(s, t)
  BY <1>2, MaskFacts DEF Retires, MaskInv
<1>3. CASE Recorded(r, s, t) \/ t.recovering
  BY <1>3, MaskFacts DEF Recorded, MaskInv
<1> QED
  BY <1>1, <1>2, <1>3, RunKinds, RecordedSteps

(* It keeps what its records say, if cleaning up succeeds. *)
LEMMA OwnOutcome ==
    ASSUME TypeInv, ~CleanupFails, NEW r \in Runs, MaskInv(r), ResultInv(r),
           Workflow(r) \/ Mishap(r)
    PROVE  ResultInv(r)'
<1> DEFINE s == run[r]
           t == run'[r]
<1>0. /\ journal \in [Runs -> Record \cup {NoRecord}]
      /\ result \in [Runs -> Record \cup {NoRecord}]
  BY DEF TypeInv, TypeOK
<1>1. CASE Advances(s, t)
  BY <1>1 DEF Advances, ResultInv
<1>2. CASE Retires(s, t)
  BY <1>2 DEF Retires, ResultInv, Settled, Releasing, Ended
<1>3. CASE Recorded(r, s, t) /\ t.original = s.original
  <2>1. CASE s.pc \in {"prepare", "succeed", "stage", "confirm", "record_failure"}
    <3>1. result' = result /\ result[r] = NoRecord
      BY <1>3, <2>1, MaskFacts DEF Recorded, ResultInv
    <3> QED
      BY <1>0, <1>3, <2>1, <3>1 DEF Recorded, ResultInv, RecordOf
  <2>2. CASE s.pc = "publish"
    BY <1>0, <1>3, <2>2 DEF Recorded, ResultInv, RecordOf, Settled
  <2>3. CASE s.pc = "publish_failure"
    <3>1. result[r] = NoRecord /\ journal' = journal
          /\ journal[r] = RecordOf(s, s.status, s.rollback)
      BY <1>3, <2>3, MaskFacts DEF Recorded, ResultInv
    <3>2. result'[r] \in {NoRecord, journal[r]}
      BY <1>0, <1>3, <2>3, <3>1 DEF Recorded
    <3> QED
      BY <1>3, <2>3, <3>1, <3>2 DEF Recorded, ResultInv, Settled, Releasing, Ended
  <2> QED
    BY <1>3, <2>1, <2>2, <2>3 DEF Recorded
<1> QED
  BY <1>1, <1>2, <1>3, RunKinds, RecordedSteps

(* No step of another run touches them. *)
LEMMA OthersOutcome ==
    ASSUME TypeInv, NEW r \in Runs, NEW x \in Runs \ {r}, Workflow(r) \/ Mishap(r)
    PROVE  run'[x] = run[x] /\ journal'[x] = journal[x] /\ result'[x] = result[x]
<1>0. /\ run \in [Runs -> CoherentState]
      /\ result \in [Runs -> Record \cup {NoRecord}]
  BY DEF TypeInv, TypeOK
<1>1. run'[x] = run[x]
  <2>1. PICK t \in CoherentState : Becomes(r, t)
    BY WorkflowProgress, MishapProgress DEF Progress
  <2> QED
    BY <1>0, <2>1 DEF Becomes
<1>2. PublishSuccess(r) \/ PublishFailure(r) \/ UNCHANGED result
  BY DEF Workflow, Preflight, AcquireRead, AcquireCheck, Prepare, MarkMutation,
         ApplyRead, Rollout, Smoke, Verify, Succeed, Stage, Confirm, Cleanup,
         RestoreRead, RestoreVerify, RestoreRollout, RestoreConfirm,
         RecordFailure, ReleaseRead, PatchAnswered, ReadRefused, Verified,
         Mishap, PatchLost, PatchDelayed, Interrupt, CallFails, WriteFails, Crash
<1>3. result'[x] = result[x]
  BY <1>0, <1>2 DEF PublishSuccess, PublishFailure, Publish
<1> QED
  BY <1>1, <1>3, JournalWrites

LEMMA OutcomeStep ==
    ASSUME TypeInv, ~CleanupFails, OutcomeInv, [Next]_vars
    PROVE  OutcomeInv'
<1>1. ASSUME NEW r \in Runs, Workflow(r) \/ Mishap(r), NEW x \in Runs
      PROVE  MaskInv(x)' /\ ResultInv(x)'
  <2>1. MaskInv(x) /\ ResultInv(x)
    BY DEF OutcomeInv
  <2>2. CASE x = r
    BY <1>1, <2>1, <2>2, OwnMask, OwnOutcome
  <2>3. CASE x # r
    BY <1>1, <2>1, <2>3, OthersOutcome DEF MaskInv, ResultInv, RecordOf
  <2> QED
    BY <2>2, <2>3
<1>2. CASE UNCHANGED <<run, journal, result>>
  BY <1>2 DEF OutcomeInv, MaskInv, ResultInv, RecordOf
<1> QED
  BY <1>1, <1>2 DEF Next, OperatorUnlocks, vars, OutcomeInv

LEMMA MaskStep ==
    ASSUME TypeInv, Masking, [Next]_vars
    PROVE  Masking'
<1>1. ASSUME NEW r \in Runs, Workflow(r) \/ Mishap(r), NEW x \in Runs
      PROVE  MaskInv(x)'
  <2>1. MaskInv(x)
    BY DEF Masking
  <2> QED
    BY <1>1, <2>1, OwnMask, OthersOutcome DEF MaskInv
<1>2. CASE UNCHANGED run
  BY <1>2 DEF Masking, MaskInv
<1> QED
  BY <1>1, <1>2 DEF Next, OperatorUnlocks, vars, Masking

LEMMA OutcomeInit == Init => Masking /\ OutcomeInv
<1> SUFFICES ASSUME Init PROVE Masking /\ OutcomeInv
  OBVIOUS
<1>1. \A r \in Runs : run[r].pc = "preflight" /\ result[r] = NoRecord
  BY DEF Init
<1>2. "preflight" \notin Masked
  BY DEF Masked, Recovery, Recording
<1> QED
  BY <1>1, <1>2 DEF Masking, OutcomeInv, MaskInv, ResultInv

LEMMA MaskHolds == Spec => []Masking
<1>1. Inv /\ Masking /\ [Next]_vars => Masking'
  BY MaskStep DEF Inv
<1> QED
  BY <1>1, OutcomeInit, InvHolds, PTL DEF Spec

LEMMA OutcomeHolds == ~CleanupFails => (Spec => []OutcomeInv)
<1> SUFFICES ASSUME ~CleanupFails PROVE Spec => []OutcomeInv
  OBVIOUS
<1>1. Inv /\ OutcomeInv /\ [Next]_vars => OutcomeInv'
  BY OutcomeStep DEF Inv
<1> QED
  BY <1>1, OutcomeInit, InvHolds, PTL DEF Spec

(* deployment.py:330-396: whatever fails between checkpoint() and persist(), a *)
(* published result is the one the journal beside it describes.  When cleaning *)
(* up fails after publication, the journal says "failed" beside a success.     *)
THEOREM JournalFirst == ~CleanupFails => (Spec => []JournalNotBehind)
<1>1. OutcomeInv => JournalNotBehind
  BY DEF OutcomeInv, ResultInv, JournalNotBehind
<1> QED
  BY <1>1, OutcomeHolds, PTL

-----------------------------------------------------------------------------
(* A published success stands. *)

(* Without patches that outlive their client only a run itself writes.      *)
LEMMA NothingLate ==
    ASSUME MaxLates = 0, TypeInv, late = {}, [Next]_vars
    PROVE  late' = {}
<1>1. spent.lates \in Nat
  BY DEF TypeInv, TypeOK, Spent
<1>2. ~\E r \in Runs : PatchDelayed(r)
  BY <1>1 DEF PatchDelayed
<1>3. ASSUME NEW r \in Runs, Workflow(r) \/ Mishap(r) PROVE late' = late
  BY <1>2, <1>3 DEF Workflow, Preflight, AcquireRead, AcquireCheck, Prepare, MarkMutation,
         ApplyRead, Rollout, Smoke, Verify, Succeed, Stage, Confirm,
         PublishSuccess, Cleanup, RestoreRead, RestoreVerify, RestoreRollout,
         RestoreConfirm, RecordFailure, PublishFailure, ReleaseRead,
         PatchAnswered, ReadRefused, Verified, Mishap, PatchLost, Interrupt, CallFails,
         WriteFails, Crash
<1>4. CASE Environment
  BY <1>4 DEF Environment, ControllerWrites, ToolEdits, LockStripped, Recreated
<1> QED
  BY <1>3, <1>4 DEF Next, OperatorUnlocks, vars

(* The one patch of a run whose result is on disk removes its lock. *)
LEMMA OnlyReleases ==
    ASSUME Inv, OutcomeInv, late = {}, [Next]_vars, NEW r \in Runs,
           result[r].status = "succeeded", obj'.rv # obj.rv, obj'.actor = r
    PROVE  obj'.content = obj.content
<1>0. obj \in Object /\ TypeInv /\ Outside \notin Runs
  BY TargetAssumption DEF Inv, TypeInv, TypeOK
<1>1. result[r] # NoRecord /\ run[r].pc \in Settled
  BY DEF NoRecord, OutcomeInv, ResultInv
<1>2. ASSUME NEW x \in Runs, Workflow(x) \/ Mishap(x)
      PROVE  obj'.content = obj.content
  <2>1. CASE obj' = obj
    BY <2>1
  <2>2. CASE run[x].pc \in Operations /\ obj' = Effect(PatchOf(x))
    <3>1. PatchOf(x) \in Request /\ PatchOf(x).run = x /\ PatchOf(x).op = run[x].pc
      BY <1>0, <2>2, PatchOfType DEF PatchOf
    <3>2. obj'.actor = x
      BY <1>0, <2>2, <3>1 DEF Effect, Written, Object, Operations
    <3>3. run[x].pc = "release"
      BY <1>1, <2>2, <3>2 DEF Operations, Settled, Releasing, Ended
    <3> QED
      BY <1>0, <2>2, <3>1, <3>3 DEF Effect, Written, Object
  <2> QED
    BY <1>2, <2>1, <2>2, RunWrites
<1>3. CASE Environment
  BY <1>0, <1>3 DEF Environment, ControllerWrites, ToolEdits, LockStripped, Recreated,
     OutsideWrite, Object
<1>4. CASE \E x \in Runs : OperatorUnlocks(x)
  BY <1>0, <1>4 DEF OperatorUnlocks, OutsideWrite, Object
<1>5. CASE UNCHANGED vars
  BY <1>5 DEF vars
<1> QED
  BY <1>2, <1>3, <1>4, <1>5 DEF Next

(* deployment.py:362-363: for any number of runs, contents and failures, what *)
(* a published record calls deployed is not taken back by its run, if         *)
(* cleaning up succeeds and no patch outlives its kubectl.                    *)
THEOREM SuccessIsFinal == ~CleanupFails /\ MaxLates = 0 => (Spec => SuccessStands)
<1> SUFFICES ASSUME ~CleanupFails, MaxLates = 0 PROVE Spec => SuccessStands
  OBVIOUS
<1> DEFINE Stands(r) ==
      (result[r].status = "succeeded" /\ obj'.rv # obj.rv /\ obj'.actor = r)
            => obj'.content = obj.content
<1>1. Init => late = {}
  BY DEF Init, ObjectInit
<1>2. Inv /\ late = {} /\ [Next]_vars => (late = {})'
  BY NothingLate DEF Inv
<1>3. ASSUME Inv, OutcomeInv, late = {}, [Next]_vars
      PROVE  [\A r \in Runs : Stands(r)]_vars
  BY <1>3, OnlyReleases
<1> QED
  BY <1>1, <1>2, <1>3, InvHolds, OutcomeHolds, PTL DEF Spec, SuccessStands

-----------------------------------------------------------------------------
(* A normal return means that the lock is gone. *)

(* What a step never takes back, and how exceptions leave. *)
Ordinary(s, t) ==
    /\ s.attempted => t.attempted
    /\ s.recovering => t.recovering
    /\ t.exit \in {s.exit, "raised", "escaped", "release-failed"}
    /\ t.pc # "acquire"
    /\ t.status \in {s.status, "failed", "interrupted"}
    /\ t.pc \in Body => s.pc \in Body /\ t.restored = s.restored

LEMMA OrdinaryErrors ==
    ASSUME NEW s \in RunState, s.pc \notin {"release", "release_read"}
    PROVE  /\ Ordinary(s, Failed(s)) /\ Ordinary(s, Conflicted(s))
           /\ Ordinary(s, Interrupted(s))
           /\ Ordinary(s, Finally(s, "raised")) /\ Ordinary(s, Finally(s, "escaped"))
           /\ \A verdict \in Verdicts : Ordinary(s, RollbackEnds(s, verdict))
<1>1. \A status \in {"failed", "interrupted"} : Ordinary(s, Handled(s, status))
  BY DEF Handled, Left, RunState, Ordinary, Body
<1>2. \A verdict \in Verdicts : Ordinary(s, RollbackEnds(s, verdict))
  BY DEF RollbackEnds, RunState, Ordinary, Body
<1>3. Ordinary(s, Finally(s, "raised")) /\ Ordinary(s, Finally(s, "escaped"))
  BY DEF Finally, RunState, Ordinary, Body
<1>4. /\ Failed(s) \in {RollbackEnds(s, "failed"), Handled(s, "failed")}
      /\ Conflicted(s) \in {RollbackEnds(s, "skipped-conflict"), Handled(s, "failed")}
      /\ Interrupted(s) = Handled(s, "interrupted")
  BY DEF Failed, Conflicted, Interrupted, Releasing
<1>5. {"failed", "skipped-conflict"} \subseteq Verdicts
  BY DEF Verdicts
<1> QED
  BY <1>1, <1>2, <1>3, <1>4, <1>5

(* Moving on to another label than "acquire", which claims *)
LEMMA OrdinaryMoves ==
    ASSUME NEW s \in RunState, NEW label \in Labels \ {"acquire"},
           label \in Body => s.pc \in Body, NEW t, NEW x,
           \/ t = [s EXCEPT !.pc = label]
           \/ t = [s EXCEPT !.pc = label, !.recovering = TRUE]
           \/ t = [s EXCEPT !.pc = label, !.mutated = TRUE]
           \/ t = [s EXCEPT !.pc = label, !.original = x]
           \/ t = [s EXCEPT !.pc = label, !.seen = x]
           \/ t = [s EXCEPT !.pc = label, !.tries = @ + 1]
           \/ t = [Left(s) EXCEPT !.pc = label, !.original = x]
           \/ t = [Left(s) EXCEPT !.pc = label]
           \/ label \notin Body /\ t = [s EXCEPT !.pc = label, !.restored = TRUE]
    PROVE  Ordinary(s, t)
<1> DEFINE Same == /\ t.exit = s.exit /\ t.attempted = s.attempted /\ t.status = s.status
                   /\ t.recovering = s.recovering \/ t.recovering
                   /\ t.pc = label
                   /\ label \in Body => t.restored = s.restored
<1>1. ASSUME t = [s EXCEPT !.pc = label] PROVE Same
  BY <1>1 DEF RunState
<1>2. ASSUME t = [s EXCEPT !.pc = label, !.recovering = TRUE] PROVE Same
  BY <1>2 DEF RunState
<1>3. ASSUME t = [s EXCEPT !.pc = label, !.mutated = TRUE] PROVE Same
  BY <1>3 DEF RunState
<1>4. ASSUME t = [s EXCEPT !.pc = label, !.original = x] PROVE Same
  BY <1>4 DEF RunState
<1>5. ASSUME t = [s EXCEPT !.pc = label, !.seen = x] PROVE Same
  BY <1>5 DEF RunState
<1>6. ASSUME t = [s EXCEPT !.pc = label, !.tries = @ + 1] PROVE Same
  BY <1>6 DEF RunState
<1>7. ASSUME t = [Left(s) EXCEPT !.pc = label, !.original = x] PROVE Same
  BY <1>7 DEF RunState, Left
<1>8. ASSUME t = [Left(s) EXCEPT !.pc = label] PROVE Same
  BY <1>8 DEF RunState, Left
<1>9. ASSUME label \notin Body /\ t = [s EXCEPT !.pc = label, !.restored = TRUE] PROVE Same
  BY <1>9 DEF RunState
<1>10. Same
  BY <1>1, <1>2, <1>3, <1>4, <1>5, <1>6, <1>7, <1>8, <1>9
<1> QED
  BY <1>10 DEF Ordinary

(* The steps of a run outside the "finally" clause *)
LEMMA OrdinarySteps ==
    ASSUME TypeInv, NEW r \in Runs, Workflow(r) \/ Mishap(r),
           run[r].pc \notin {"release", "release_read"}
    PROVE  \/ Ordinary(run[r], run'[r])
           \/ /\ run[r].pc = "acquire_read" /\ run'[r].pc = "acquire" /\ run'[r].attempted
              /\ run'[r].exit = run[r].exit /\ run'[r].recovering = run[r].recovering
              /\ run'[r].status = run[r].status /\ run'[r].restored = run[r].restored
           \/ /\ run[r].pc = "published" /\ run'[r] = Finally(run[r], "returned")
<1> DEFINE s == run[r]
           t == run'[r]
           Goal == \/ Ordinary(s, t)
                   \/ /\ s.pc = "acquire_read" /\ t.pc = "acquire" /\ t.attempted
                      /\ t.exit = s.exit /\ t.recovering = s.recovering
                      /\ t.status = s.status /\ t.restored = s.restored
                   \/ s.pc = "published" /\ t = Finally(s, "returned")
<1>0. s \in RunState /\ run \in [Runs -> RunState]
  BY DEF TypeInv, TypeOK
<1>1. ASSUME t \in {Failed(s), Conflicted(s), Interrupted(s), Finally(s, "raised"),
                    Finally(s, "escaped")}
      PROVE  Ordinary(s, t)
  BY <1>0, <1>1, OrdinaryErrors
<1>2. ASSUME NEW label \in Labels \ {"acquire"}, label \in Body => s.pc \in Body, NEW x,
             \/ t = [s EXCEPT !.pc = label]
             \/ t = [s EXCEPT !.pc = label, !.recovering = TRUE]
             \/ t = [s EXCEPT !.pc = label, !.mutated = TRUE]
             \/ t = [s EXCEPT !.pc = label, !.original = x]
             \/ t = [s EXCEPT !.pc = label, !.seen = x]
             \/ t = [s EXCEPT !.pc = label, !.tries = @ + 1]
             \/ t = [Left(s) EXCEPT !.pc = label, !.original = x]
             \/ t = [Left(s) EXCEPT !.pc = label]
             \/ label \notin Body /\ t = [s EXCEPT !.pc = label, !.restored = TRUE]
      PROVE  Ordinary(s, t)
  BY <1>0, <1>2, OrdinaryMoves
<1>v. ASSUME NEW verdict \in Verdicts, t = RollbackEnds(s, verdict) PROVE Ordinary(s, t)
  BY <1>0, <1>v, OrdinaryErrors
<1>l. /\ {"acquire_read", "acquire_check", "prepare", "prepared", "apply_read", "apply", "rollout",
          "smoke", "verify", "succeed", "stage", "confirm", "publish", "published", "restore_verify",
          "restore", "restore_rollout", "restore_confirm", "publish_failure", "crashed"}
             \subseteq Labels \ {"acquire"}
      /\ {"preflight", "acquire_read", "acquire", "acquire_check", "prepare", "prepared", "apply_read",
          "apply", "rollout", "smoke", "verify", "succeed", "stage", "confirm", "publish",
          "published"} \subseteq Body
      /\ {"restore_verify", "restore", "restore_rollout", "restore_confirm", "publish_failure",
          "crashed"} \cap Body = {}
      /\ {"not-required", "succeeded"} \subseteq Verdicts
  BY DEF Labels, Body, Recovery, Recording, Ended, Verdicts
<1> HIDE DEF Goal
<1>g. Ordinary(s, t) => Goal
  BY DEF Goal
<1>3. ASSUME Preflight(r) \/ AcquireCheck(r) \/ Prepare(r) \/ MarkMutation(r) \/ ApplyRead(r)
             \/ Rollout(r) \/ Smoke(r) \/ Verify(r) \/ Succeed(r) \/ Stage(r) \/ Confirm(r)
             \/ PublishSuccess(r)
      PROVE  Goal
  <2>0. s.pc \in {"preflight", "acquire_check", "prepare", "prepared", "apply_read", "rollout", "smoke",
                 "verify", "succeed", "stage", "confirm", "publish"}
    BY <1>3 DEF Preflight, AcquireCheck, Prepare, MarkMutation, ApplyRead, Rollout, Smoke, Verify,
       Succeed, Stage, Confirm, PublishSuccess, Verified, At
  <2>1. \/ t \in {Failed(s), Conflicted(s), Finally(s, "escaped")}
        \/ \E label \in {"acquire_read", "prepared", "smoke", "verify", "succeed", "stage", "publish",
                         "published"} : t = [s EXCEPT !.pc = label]
        \/ t = [s EXCEPT !.pc = "prepare", !.original = obj.content]
        \/ t = [s EXCEPT !.pc = "apply_read", !.mutated = TRUE]
        \/ t = [s EXCEPT !.pc = "apply", !.seen = Seen]
        \/ t = [s EXCEPT !.pc = "confirm", !.recovering = TRUE]
    BY <1>0, <1>3 DEF Preflight, AcquireCheck, Prepare, MarkMutation, ApplyRead, Rollout, Smoke, Verify,
       Succeed, Stage, Confirm, PublishSuccess, Verified, Becomes, Conflict
  <2>2. s.pc \in Body
    BY <1>l, <2>0
  <2>3. ASSUME NEW label \in {"acquire_read", "prepared", "smoke", "verify", "succeed", "stage", "publish",
                             "published"},
               t = [s EXCEPT !.pc = label]
        PROVE  Goal
    BY <1>2, <1>l, <1>g, <2>2, <2>3
  <2>4. CASE t \in {Failed(s), Conflicted(s), Finally(s, "escaped")}
    BY <1>1, <1>g, <2>4
  <2>5. CASE \/ t = [s EXCEPT !.pc = "prepare", !.original = obj.content]
             \/ t = [s EXCEPT !.pc = "apply_read", !.mutated = TRUE]
             \/ t = [s EXCEPT !.pc = "apply", !.seen = Seen]
             \/ t = [s EXCEPT !.pc = "confirm", !.recovering = TRUE]
    BY <1>2, <1>l, <1>g, <2>2, <2>5
  <2> QED
    BY <2>1, <2>3, <2>4, <2>5
<1>4. ASSUME AcquireRead(r) PROVE Goal
  <2>0. s.pc = "acquire_read"
    BY <1>4 DEF AcquireRead, At
  <2>1. \/ t = Failed(s)
        \/ t = [Left(s) EXCEPT !.pc = "prepare", !.original = obj.content]
        \/ s.pc = "acquire_read"
           /\ t = [s EXCEPT !.pc = "acquire", !.uid = obj.uid, !.attempted = TRUE, !.seen = Seen]
    BY <1>0, <1>4 DEF AcquireRead, Becomes, At
  <2>2. CASE s.pc = "acquire_read"
             /\ t = [s EXCEPT !.pc = "acquire", !.uid = obj.uid, !.attempted = TRUE, !.seen = Seen]
    BY <1>0, <2>2 DEF Goal, RunState
  <2>3. CASE t = [Left(s) EXCEPT !.pc = "prepare", !.original = obj.content]
    <3> DEFINE x == obj.content
               label == "prepare"
    <3>1. label \in Labels \ {"acquire"} /\ s.pc \in Body
      BY <1>l, <2>0
    <3>2. t = [Left(s) EXCEPT !.pc = label, !.original = x]
      BY <2>3
    <3> HIDE DEF x, label
    <3> QED
      BY <1>2, <1>g, <3>1, <3>2
  <2> QED
    BY <1>1, <1>g, <2>1, <2>2, <2>3
<1>5. ASSUME Cleanup(r) PROVE Goal
  BY <1>0, <1>1, <1>5, <1>g DEF Cleanup, Becomes, At, Goal
<1>6. ASSUME RestoreRead(r) \/ RestoreVerify(r) \/ RestoreRollout(r) \/ RestoreConfirm(r)
             \/ RecordFailure(r) \/ PublishFailure(r)
      PROVE  Goal
  <2>1. \/ t \in {Failed(s), Conflicted(s), Finally(s, "raised")}
        \/ \E label \in {"restore_verify", "restore", "restore_confirm", "publish_failure"} :
              t = [s EXCEPT !.pc = label]
        \/ \E verdict \in {"not-required", "succeeded"} : t = RollbackEnds(s, verdict)
    BY <1>0, <1>6 DEF RestoreRead, RestoreVerify, RestoreRollout, RestoreConfirm, RecordFailure,
       PublishFailure, Verified, Becomes, Conflict
  <2>2. ASSUME NEW label \in {"restore_verify", "restore", "restore_confirm", "publish_failure"},
               t = [s EXCEPT !.pc = label]
        PROVE  Goal
    <3>1. label \in Labels \ {"acquire"} /\ label \notin Body
      BY <1>l
    <3> QED
      BY <1>2, <1>g, <2>2, <3>1
  <2>3. \A verdict \in {"not-required", "succeeded"} : t = RollbackEnds(s, verdict) => Goal
    BY <1>l, <1>v, <1>g
  <2> QED
    BY <1>1, <1>g, <2>1, <2>2, <2>3
<1>7. ASSUME PatchAnswered(r) \/ PatchLost(r) \/ PatchDelayed(r) PROVE Goal
  <2>1. s.pc \in {"acquire", "apply", "restore"}
    BY <1>7 DEF PatchAnswered, PatchLost, PatchDelayed, Operations
  <2>2. t \in {Patched(s), CallErred(s), Failed(s), Interrupted(s)}
    BY <1>0, <1>7 DEF PatchAnswered, PatchLost, PatchDelayed, Becomes
  <2>3. CASE t = Patched(s)
    <3>1. \/ \E label \in {"acquire_check", "rollout"} :
                s.pc \in {"acquire", "apply"} /\ t = [Left(s) EXCEPT !.pc = label]
          \/ t = [s EXCEPT !.pc = "restore_rollout", !.restored = TRUE]
      BY <2>1, <2>3 DEF Patched
    <3>2. ASSUME NEW label \in {"acquire_check", "rollout"},
                 s.pc \in {"acquire", "apply"}, t = [Left(s) EXCEPT !.pc = label]
          PROVE  Goal
      <4>1. s.pc \in Body /\ label \in Labels \ {"acquire"}
        BY <3>2 DEF Labels, Body
      <4> QED
        BY <1>2, <1>g, <3>2, <4>1
    <3>3. CASE t = [s EXCEPT !.pc = "restore_rollout", !.restored = TRUE]
      BY <1>2, <1>l, <1>g, <3>3
    <3> QED
      BY <3>1, <3>2, <3>3
  <2>4. CASE t = CallErred(s)
    <3>1. \/ t = Conflicted(s)
          \/ \E label \in {"acquire_read", "apply_read"} :
                s.pc \in {"acquire", "apply"} /\ t = [s EXCEPT !.pc = label, !.tries = @ + 1]
          \/ t = Handled(s, "failed")
      BY <2>1, <2>4 DEF CallErred, Retried
    <3>2. s.pc # "restore" => Handled(s, "failed") = Failed(s)
      BY <2>1 DEF Failed, Recovery, Releasing
    <3>3. s.pc = "restore" => t = Conflicted(s)
      BY <2>4 DEF CallErred
    <3>4. CASE t \in {Conflicted(s), Failed(s)}
      BY <1>1, <1>g, <3>4
    <3>5. ASSUME NEW label \in {"acquire_read", "apply_read"},
                 s.pc \in {"acquire", "apply"}, t = [s EXCEPT !.pc = label, !.tries = @ + 1]
          PROVE  Goal
      <4>1. s.pc \in Body /\ label \in Labels \ {"acquire"}
        BY <3>5 DEF Labels, Body
      <4> QED
        BY <1>2, <1>g, <3>5, <4>1
    <3> QED
      BY <3>1, <3>2, <3>3, <3>4, <3>5
  <2> QED
    BY <1>1, <1>g, <2>2, <2>3, <2>4
<1>8. ASSUME ReadRefused(r) \/ Interrupt(r) \/ CallFails(r) \/ WriteFails(r) PROVE Goal
  <2>1. t \in {Failed(s), Interrupted(s)}
    BY <1>0, <1>8 DEF ReadRefused, Interrupt, CallFails, WriteFails, Becomes
  <2> QED
    BY <1>1, <1>g, <2>1
<1>9. ASSUME Crash(r) PROVE Goal
  <2>1. t = [s EXCEPT !.pc = "crashed"]
    BY <1>0, <1>9 DEF Crash, Becomes
  <2> QED
    BY <1>2, <1>l, <1>g, <2>1
<1>10. ~ReleaseRead(r)
  BY DEF ReleaseRead, At
<1>11. Goal
  BY <1>3, <1>4, <1>5, <1>6, <1>7, <1>8, <1>9, <1>10 DEF Workflow, Mishap
<1> QED
  BY <1>11 DEF Goal

(* The "finally" clause: who returns normally has seen that the lock is not his, *)
(* or has removed it.                                                            *)
LEMMA ReleaseSteps ==
    ASSUME TypeInv, NEW r \in Runs, Workflow(r) \/ Mishap(r), run[r].pc \in Releasing
    PROVE  /\ run'[r].attempted = run[r].attempted
           /\ run[r].recovering => run'[r].recovering
           /\ run'[r].pc \in {"release"} \cup Ended
           /\ run'[r].exit \in {run[r].exit, "release-failed", "unreleased"} /\ run'[r].status = run[r].status
           /\ run'[r].rollback = run[r].rollback
           /\ run[r].recovering /\ run'[r].exit = "returned" /\ run'[r].pc = "done" =>
                 \/ obj' = obj /\ ~OwnedBy(r, run[r].uid)
                 \/ obj'.lock = NoRun
<1> DEFINE s == run[r]
           t == run'[r]
<1>0. s \in RunState /\ run \in [Runs -> RunState] /\ obj \in Object
  BY DEF TypeInv, TypeOK
<1>1. Failed(s) = Unreleased(s)
  BY DEF Failed, Recovery, Releasing
<1>2. ASSUME t = Unreleased(s)
      PROVE  /\ t.attempted = s.attempted /\ t.recovering = s.recovering /\ t.pc = "done"
             /\ t.status = s.status /\ t.rollback = s.rollback
             /\ t.exit = IF s.exit = "returned" THEN "release-failed" ELSE "unreleased"
  BY <1>0, <1>2 DEF Unreleased, RunState
<1>3. CASE ReleaseRead(r)
  <2>1. t = [s EXCEPT !.pc = IF OwnedBy(r, s.uid) THEN "release" ELSE "done"] /\ obj' = obj
    BY <1>0, <1>3 DEF ReleaseRead, Becomes
  <2> QED
    BY <1>0, <2>1 DEF RunState, Ended
<1>4. CASE PatchAnswered(r)
  <2>1. s.pc = "release" /\ PatchOf(r).op = "release"
    BY <1>4 DEF PatchAnswered, Operations, Releasing, PatchOf
  <2>2. CASE Passes(PatchOf(r))
    <3>1. t = [s EXCEPT !.pc = "done"]
      BY <1>0, <1>4, <2>1, <2>2 DEF PatchAnswered, Becomes, Patched
    <3>2. obj'.lock = NoRun
      BY <1>0, <1>4, <2>1, <2>2 DEF PatchAnswered, Receive, Effect, Written, Object
    <3> QED
      BY <1>0, <3>1, <3>2 DEF RunState, Ended
  <2>3. CASE ~Passes(PatchOf(r))
    <3>1. t = Unreleased(s)
      BY <1>0, <1>1, <1>4, <2>1, <2>3 DEF PatchAnswered, Becomes, CallErred
    <3> QED
      BY <1>2, <3>1 DEF Ended
  <2> QED
    BY <2>2, <2>3
<1>5. CASE PatchLost(r) \/ CallFails(r) \/ ReadRefused(r)
  <2>1. s.pc \in Operations => s.pc = "release"
    BY DEF Operations, Releasing
  <2>2. t = Unreleased(s)
    BY <1>0, <1>1, <1>5, <2>1 DEF PatchLost, CallFails, ReadRefused, Becomes, CallErred
  <2> QED
    BY <1>2, <2>2 DEF Ended
<1>6. CASE PatchDelayed(r) \/ Interrupt(r)
  <2>1. s.pc \in Operations => s.pc = "release"
    BY DEF Operations, Releasing
  <2>2. t = Unreleased(s) \/ (t = Interrupted(s) /\ ~s.recovering)
    BY <1>0, <1>1, <1>6, <2>1 DEF PatchDelayed, Interrupt, Interruptible, Becomes, CallErred
  <2>3. CASE t = Interrupted(s) /\ ~s.recovering
    BY <1>0, <2>3 DEF Interrupted, RunState, Ended
  <2> QED
    BY <1>2, <2>2, <2>3 DEF Ended
<1>7. CASE Crash(r)
  <2>1. t = [s EXCEPT !.pc = "crashed"]
    BY <1>0, <1>7 DEF Crash, Becomes
  <2> QED
    BY <1>0, <2>1 DEF RunState, Ended
<1> QED
  BY <1>3, <1>4, <1>5, <1>6, <1>7 DEF Workflow, Mishap, Releasing, Preflight, AcquireRead, AcquireCheck,
     Prepare, MarkMutation, ApplyRead, Rollout, Smoke, Verify, Succeed, Stage, Confirm, PublishSuccess,
     Cleanup, RestoreRead, RestoreVerify, RestoreRollout, RestoreConfirm, RecordFailure, PublishFailure,
     Verified, WriteFails, At

-----------------------------------------------------------------------------
(* A lock of r is there because it was, or because a claim of r arrives. *)
ClaimArrives(r) ==
    /\ obj'.uid = obj.uid
    /\ \/ run[r].pc = "acquire" /\ run[r].uid = obj.uid /\ (Workflow(r) \/ Mishap(r))
       \/ /\ run' = run
          /\ \E q \in late : q.op = "acquire" /\ q.run = r /\ q.uid = obj.uid /\ q.seen.rv = obj.rv

LEMMA AcceptedLock ==
    ASSUME obj \in Object, NEW q \in Request, Passes(q), obj' = Effect(q)
    PROVE  /\ obj'.uid = obj.uid /\ obj'.rv = obj.rv + 1 /\ obj.uid = q.uid
           /\ \/ q.op = "acquire" /\ obj'.lock = q.run /\ q.seen.rv = obj.rv
              \/ obj'.lock \in {obj.lock, NoRun}
<1>0. q.op \in Operations
  BY DEF Request
<1> QED
  BY <1>0 DEF Effect, Written, Object, Operations, Passes, VersionUnchanged

LEMMA LockComes ==
    ASSUME TypeInv, [Next]_vars, NEW r \in Runs
    PROVE  /\ obj'.uid >= obj.uid /\ obj'.rv >= obj.rv
           /\ obj'.lock = r => (obj.lock = r /\ obj'.uid = obj.uid) \/ ClaimArrives(r)
<1> DEFINE Kept == /\ obj'.uid >= obj.uid /\ obj'.rv >= obj.rv
                   /\ obj'.lock = r => obj.lock = r /\ obj'.uid = obj.uid
<1>0. /\ obj \in Object /\ obj.uid \in Nat /\ obj.rv \in Nat /\ late \in SUBSET Request
      /\ NoRun \notin Runs
  BY TargetAssumption DEF TypeInv, TypeOK, Object
<1>1. CASE obj' = obj
  BY <1>0, <1>1
<1>2. ASSUME NEW x \in Runs, Workflow(x) \/ Mishap(x), obj' # obj
      PROVE  /\ obj'.uid >= obj.uid /\ obj'.rv >= obj.rv
             /\ obj'.lock = r => (obj.lock = r /\ obj'.uid = obj.uid) \/ ClaimArrives(r)
  <2>1. run[x].pc \in Operations /\ Passes(PatchOf(x)) /\ obj' = Effect(PatchOf(x))
    BY <1>2, RunWrites
  <2>2. PatchOf(x) \in Request
    BY <2>1, PatchOfType
  <2>3. PatchOf(x).op = run[x].pc /\ PatchOf(x).run = x /\ PatchOf(x).uid = run[x].uid
    BY DEF PatchOf
  <2> QED
    BY <1>0, <1>2, <2>1, <2>2, <2>3, AcceptedLock DEF ClaimArrives
<1>3. ASSUME NEW q \in late, LateArrival(q), UNCHANGED run
      PROVE  /\ obj'.uid >= obj.uid /\ obj'.rv >= obj.rv
             /\ obj'.lock = r => (obj.lock = r /\ obj'.uid = obj.uid) \/ ClaimArrives(r)
  <2>1. q \in Request /\ (obj' = obj \/ (Passes(q) /\ obj' = Effect(q)))
    BY <1>0, <1>3 DEF LateArrival, Receive
  <2> QED
    BY <1>0, <1>1, <1>3, <2>1, AcceptedLock DEF ClaimArrives
<1>4. CASE ControllerWrites \/ ToolEdits
  <2>1. obj'.uid = obj.uid /\ obj'.lock = obj.lock /\ obj'.rv = obj.rv + 1
    <3>1. CASE ControllerWrites
      BY <1>0, <3>1 DEF ControllerWrites, OutsideWrite, Object
    <3>2. CASE ToolEdits
      BY <1>0, <3>2 DEF ToolEdits, OutsideWrite, Object
    <3> QED
      BY <1>4, <3>1, <3>2
  <2> QED
    BY <1>0, <2>1
<1>5. CASE LockStripped \/ Recreated
  <2>1. obj'.uid \in {obj.uid, obj.uid + 1} /\ obj'.lock = NoRun /\ obj'.rv = obj.rv + 1
    <3>1. CASE LockStripped
      BY <1>0, <3>1 DEF LockStripped, OutsideWrite, Object
    <3>2. CASE Recreated
      BY <1>0, <3>2 DEF Recreated, OutsideWrite, Object
    <3> QED
      BY <1>5, <3>1, <3>2
  <2> QED
    BY <1>0, <2>1
<1>6. CASE \E x \in Runs : OperatorUnlocks(x)
  BY <1>0, <1>6 DEF OperatorUnlocks, OutsideWrite, Object
<1> QED
  BY <1>1, <1>2, <1>3, <1>4, <1>5, <1>6 DEF Next, Environment, vars

(* What a run knows of the object changes only when it claims and acquires. *)
LEMMA Knowledge ==
    ASSUME TypeInv, NEW r \in Runs, Workflow(r) \/ Mishap(r)
    PROVE  /\ \/ run'[r].uid = run[r].uid
              \/ /\ run'[r].uid = obj.uid /\ obj' = obj /\ obj.lock = NoRun
                 /\ run[r].pc = "acquire_read" /\ run'[r].original = NoContent
           /\ \/ run'[r].original = run[r].original
              \/ run'[r].original = NoContent
              \/ /\ obj' = obj /\ OwnedBy(r, run[r].uid) /\ run'[r].original = obj.content
                 /\ run[r].pc \in {"acquire_read", "acquire_check"}
<1>0. run \in [Runs -> CoherentState]
  BY DEF TypeInv
<1>1. PICK t \in CoherentState : Becomes(r, t) /\ (Keeps(run[r], t) \/ Learns(r, t))
  BY WorkflowProgress, MishapProgress DEF Progress
<1>2. run'[r] = t
  BY <1>0, <1>1 DEF Becomes
<1>3. run[r].pc \in {"acquire_read", "acquire_check"} => obj' = obj
  BY RunWrites DEF Operations
<1> QED
  BY <1>1, <1>2, <1>3 DEF Keeps, Learns, Claims, Acquires, Prepares, Marks

-----------------------------------------------------------------------------
(* Once a run has acquired the target its claims are stale, those that are  *)
(* still under way too, so a lock it has seen gone stays gone.              *)

UidInv(r) == run[r].uid <= obj.uid /\ (obj.lock = r => obj.uid = run[r].uid)

AttemptInv(r) ==
    obj.lock = r \/ run[r].pc = "acquire" \/ run[r].original # NoContent => run[r].attempted

StaleInv(q) ==
    q.op = "acquire" =>
        /\ q.uid <= run[q.run].uid /\ run[q.run].attempted
        /\ run[q.run].original # NoContent => q.seen.rv < obj.rv

ReturnInv(r) ==
    run[r].exit = "returned" =>
        /\ run[r].recovering /\ run[r].original # NoContent
        /\ run[r].pc \in Releasing \cup Ended
        /\ run[r].pc = "done" => obj.lock # r

UnlockInv ==
    /\ \A r \in Runs : UidInv(r) /\ AttemptInv(r) /\ ReturnInv(r)
    /\ \A q \in late : StaleInv(q)

LEMMA UidStep ==
    ASSUME TypeInv, LateInv, UnlockInv, [Next]_vars, NEW r \in Runs
    PROVE  UidInv(r)' /\ run'[r].uid >= run[r].uid
<1>0. /\ run[r].uid \in Nat /\ obj.uid \in Nat /\ NoRun \notin Runs /\ late \in SUBSET Request
      /\ obj' \in Object
  BY TypeStep, TargetAssumption DEF TypeInv, TypeOK, Object, RunState
<1>1. UidInv(r) /\ obj'.uid >= obj.uid /\ obj'.uid \in Nat
  BY <1>0, LockComes DEF UnlockInv, Object
<1>2. ASSUME run'[r].uid = run[r].uid, obj'.lock = r
      PROVE  obj'.uid = run'[r].uid
  <2>1. CASE obj.lock = r /\ obj'.uid = obj.uid
    BY <1>1, <1>2, <2>1 DEF UidInv
  <2>2. CASE ClaimArrives(r)
    <3>1. ASSUME NEW q \in late, q.op = "acquire", q.run = r, q.uid = obj.uid
          PROVE  obj.uid = run[r].uid
      BY <1>0, <1>1, <3>1 DEF UnlockInv, StaleInv, UidInv
    <3> QED
      BY <1>2, <2>2, <3>1 DEF ClaimArrives
  <2> QED
    BY <1>2, <2>1, <2>2, LockComes
<1>3. CASE run'[r].uid = run[r].uid
  BY <1>0, <1>1, <1>2, <1>3 DEF UidInv
<1>4. CASE run'[r].uid = obj.uid /\ obj' = obj /\ obj.lock = NoRun
  BY <1>0, <1>1, <1>4 DEF UidInv
<1>5. run'[r] = run[r] \/ Workflow(r) \/ Mishap(r)
  BY Remembers
<1> QED
  BY <1>3, <1>4, <1>5, Knowledge

LEMMA AttemptStep ==
    ASSUME TypeInv, UnlockInv, [Next]_vars, NEW r \in Runs
    PROVE  AttemptInv(r)' /\ (run[r].attempted => run'[r].attempted)
<1>1. AttemptInv(r)
  BY DEF UnlockInv
<1>2. run'[r] = run[r] \/ Workflow(r) \/ Mishap(r)
  BY Remembers
<1>3. /\ run[r].attempted => run'[r].attempted
      /\ run'[r].pc = "acquire" => run'[r].attempted
  <2>1. CASE run'[r] = run[r]
    BY <1>1, <2>1 DEF AttemptInv
  <2>2. ASSUME Workflow(r) \/ Mishap(r), run[r].pc \in Releasing
        PROVE  run'[r].attempted = run[r].attempted /\ run'[r].pc # "acquire"
    BY <2>2, ReleaseSteps DEF Ended
  <2>3. ASSUME Workflow(r) \/ Mishap(r), run[r].pc \notin Releasing
        PROVE  /\ run[r].attempted => run'[r].attempted
               /\ run'[r].pc = "acquire" => run'[r].attempted
    <3>1. CASE run'[r] = Finally(run[r], "returned") /\ run[r].pc = "published"
      <4>1. run[r] \in RunState
        BY DEF TypeInv, TypeOK
      <4> QED
        BY <3>1, <4>1 DEF Finally, RunState
    <3> QED
      BY <2>3, <3>1, OrdinarySteps DEF Releasing, Ordinary
  <2> QED
    BY <1>2, <2>1, <2>2, <2>3
<1>4. obj'.lock = r => run[r].attempted
  <2>1. ASSUME ClaimArrives(r) PROVE run[r].attempted
    BY <1>1, <2>1 DEF ClaimArrives, AttemptInv, UnlockInv, StaleInv
  <2> QED
    BY <1>1, <2>1, LockComes DEF AttemptInv
<1>5. run'[r].original # NoContent => run[r].attempted
  <2>1. CASE run[r].original # NoContent \/ run'[r] = run[r]
    BY <1>1, <2>1 DEF AttemptInv
  <2>2. CASE run[r].original = NoContent /\ (Workflow(r) \/ Mishap(r))
    BY <1>1, <2>2, Knowledge DEF AttemptInv, OwnedBy
  <2> QED
    BY <1>2, <2>1, <2>2
<1> QED
  BY <1>3, <1>4, <1>5 DEF AttemptInv

LEMMA StaleStep ==
    ASSUME TypeInv, LateInv, UnlockInv, [Next]_vars
    PROVE  \A q \in late' : StaleInv(q)'
<1>0. /\ obj \in Object /\ obj.rv \in Nat /\ obj'.rv \in Nat /\ late \in SUBSET Request
      /\ run \in [Runs -> CoherentState] /\ run' \in [Runs -> CoherentState]
      /\ run \in [Runs -> RunState] /\ run' \in [Runs -> RunState] /\ NoRun \notin Runs
  BY TypeStep, TargetAssumption DEF TypeInv, TypeOK, Object
<1>1. ASSUME NEW q \in late, q.op = "acquire"
      PROVE  StaleInv(q)'
  <2> DEFINE r == q.run
  <2>0. r \in Runs /\ q.uid \in Nat /\ q.seen.rv \in Nat /\ StaleInv(q) /\ Current(q)
    BY <1>0 DEF Request, Snapshot, UnlockInv, LateInv
  <2>1. run[r].uid \in Nat /\ run'[r].uid \in Nat
    BY <1>0, <2>0 DEF RunState
  <2>2. run'[r].uid >= run[r].uid /\ (run[r].attempted => run'[r].attempted) /\ obj'.rv >= obj.rv
    BY <2>0, UidStep, AttemptStep, LockComes
  <2>3. run'[r].original # NoContent => q.seen.rv < obj.rv
    <3>1. CASE run[r].original # NoContent \/ run'[r] = run[r]
      BY <1>1, <2>0, <3>1 DEF StaleInv
    <3>2. CASE run[r].original = NoContent /\ (Workflow(r) \/ Mishap(r))
      <4>1. run'[r].original # NoContent => obj.lock = r
        BY <2>0, <3>2, Knowledge DEF OwnedBy
      <4>2. obj.lock = r => q.seen.rv # obj.rv /\ q.seen.rv <= obj.rv
        BY <1>0, <1>1, <2>0 DEF Current
      <4> QED
        BY <1>0, <2>0, <4>1, <4>2
    <3> QED
      BY <2>0, <3>1, <3>2, Remembers
  <2>4. q.uid <= run[r].uid /\ run[r].attempted
    BY <1>1, <2>0 DEF StaleInv
  <2> QED
    BY <1>0, <2>0, <2>1, <2>2, <2>3, <2>4 DEF StaleInv
<1>2. ASSUME NEW r \in Runs, Workflow(r) \/ Mishap(r), run[r].pc = "acquire",
             NEW q, q = PatchOf(r)
      PROVE  StaleInv(q)'
  <2>1. run[r].original = NoContent /\ run[r].attempted
    BY <1>0, <1>2 DEF CoherentState, Coherent, Unacquired, UnlockInv, AttemptInv
  <2>2. run'[r].uid = run[r].uid /\ run'[r].original = NoContent /\ run'[r].attempted
    BY <1>2, <2>1, Knowledge, AttemptStep
  <2>3. run[r].uid \in Nat
    BY <1>0 DEF RunState
  <2>4. q.run = r /\ q.uid = run[r].uid
    BY <1>2 DEF PatchOf
  <2> QED
    BY <2>2, <2>3, <2>4 DEF StaleInv
<1>3. ASSUME NEW q \in late', q \notin late, q.op = "acquire"
      PROVE  StaleInv(q)'
  <2>1. CASE \E r \in Runs : Workflow(r) \/ Mishap(r)
    <3>1. PICK r \in Runs : Workflow(r) \/ Mishap(r)
      BY <2>1
    <3>2. q = PatchOf(r)
      BY <1>3, <3>1, RunWrites
    <3>3. run[r].pc = "acquire"
      BY <1>3, <3>2 DEF PatchOf
    <3> QED
      BY <1>2, <3>1, <3>2, <3>3
  <2>2. CASE Environment
    BY <1>3, <2>2 DEF Environment, ControllerWrites, ToolEdits, LockStripped, Recreated, LateArrival
  <2> QED
    BY <1>3, <2>1, <2>2 DEF Next, OperatorUnlocks, vars
<1> QED
  BY <1>1, <1>3 DEF StaleInv

LEMMA ReturnStep ==
    ASSUME TypeInv, Masking, UnlockInv, [Next]_vars, NEW r \in Runs
    PROVE  ReturnInv(r)'
<1> DEFINE s == run[r]
           t == run'[r]
<1>0. /\ s \in RunState /\ Coherent(s) /\ obj \in Object /\ NoRun \notin Runs
      /\ late \in SUBSET Request
  BY TargetAssumption DEF TypeInv, TypeOK, CoherentState
<1>1. ReturnInv(r) /\ UidInv(r) /\ AttemptInv(r) /\ MaskInv(r)
  BY DEF UnlockInv, Masking
<1>l. "done" \notin Releasing /\ "release" \in Releasing /\ "release" \notin Ended
      /\ "acquire" \notin Releasing \cup Ended
  BY DEF Releasing, Ended
<1>2. CASE t = s
  <2>1. ASSUME s.exit = "returned", s.pc = "done", obj'.lock = r
        PROVE  FALSE
    <3>1. obj.lock # r /\ s.original # NoContent
      BY <1>1, <2>1 DEF ReturnInv
    <3>2. ClaimArrives(r)
      BY <3>1, <2>1, LockComes
    <3>3. PICK q \in late : q.op = "acquire" /\ q.run = r /\ q.seen.rv = obj.rv
      BY <2>1, <3>2 DEF ClaimArrives
    <3>4. q.seen.rv < obj.rv
      BY <3>1, <3>3 DEF UnlockInv, StaleInv
    <3> QED
      BY <1>0, <3>3, <3>4 DEF Object
  <2> QED
    BY <1>1, <1>2, <2>1 DEF ReturnInv
<1>3. ASSUME Workflow(r) \/ Mishap(r), s.pc \notin Releasing
      PROVE  ReturnInv(r)'
  <2>1. s.pc \notin Ended /\ s.exit # "returned"
    BY <1>1, <1>3, WorkflowProgress, MishapProgress DEF ReturnInv
  <2>2. CASE t.exit # "returned"
    BY <2>2 DEF ReturnInv
  <2>3. CASE s.pc = "published" /\ t = Finally(s, "returned")
    <3>1. s.recovering
      BY <1>1, <2>3, MaskFacts DEF MaskInv
    <3>2. s.original # NoContent
      BY <1>0, <2>3, NoContentFact DEF Coherent, Mutating, Body, Unacquired, Acquired
    <3>3. s.attempted
      BY <1>1, <3>2 DEF AttemptInv
    <3>4. t.pc = "release_read" /\ t.original = s.original /\ t.recovering
      BY <1>0, <2>3, <3>1, <3>3 DEF Finally, RunState
    <3> QED
      BY <3>2, <3>4 DEF ReturnInv, Releasing
  <2> QED
    BY <1>3, <2>1, <2>2, <2>3, OrdinarySteps DEF Releasing, Ordinary
<1>4. ASSUME Workflow(r) \/ Mishap(r), s.pc \in Releasing, t.exit = "returned"
      PROVE  ReturnInv(r)'
  <2>1. s.exit = "returned" /\ t.recovering /\ t.pc \in Releasing \cup Ended
    BY <1>1, <1>4, <1>l, ReleaseSteps DEF ReturnInv
  <2>2. s.recovering /\ s.original # NoContent /\ t.original = s.original
    BY <1>1, <2>1, Remembers DEF ReturnInv
  <2>3. ASSUME t.pc = "done" PROVE obj'.lock # r
    <3>1. CASE obj' = obj /\ ~OwnedBy(r, s.uid)
      BY <1>1, <3>1 DEF OwnedBy, UidInv
    <3>2. CASE obj'.lock = NoRun
      BY <1>0, <3>2
    <3> QED
      BY <1>4, <2>2, <2>3, <3>1, <3>2, ReleaseSteps
  <2> QED
    BY <2>1, <2>2, <2>3 DEF ReturnInv
<1>5. t = s \/ Workflow(r) \/ Mishap(r)
  BY Remembers
<1> QED
  BY <1>2, <1>3, <1>4, <1>5 DEF ReturnInv

LEMMA UnlockInit == Init => UnlockInv
<1> SUFFICES ASSUME Init PROVE UnlockInv
  OBVIOUS
<1>1. obj.lock = NoRun /\ obj.uid = 1 /\ late = {} /\ NoRun \notin Runs
  BY TargetAssumption DEF Init, ObjectInit
<1>2. \A r \in Runs : /\ run[r].uid = 0 /\ run[r].pc = "preflight" /\ run[r].exit = "none"
                      /\ run[r].original = NoContent
  BY DEF Init
<1> QED
  BY <1>1, <1>2 DEF UnlockInv, UidInv, AttemptInv, ReturnInv

LEMMA UnlockHolds == Spec => []UnlockInv
<1>1. ASSUME Inv, Masking, UnlockInv, [Next]_vars
      PROVE  UnlockInv'
  <2>1. TypeInv /\ LateInv
    BY <1>1 DEF Inv
  <2> QED
    BY <1>1, <2>1, UidStep, AttemptStep, StaleStep, ReturnStep DEF UnlockInv
<1> QED
  BY <1>1, UnlockInit, InvHolds, MaskHolds, PTL DEF Spec

(* deployment_guard.py, release(): a deploy() that returns normally has left no *)
(* lock, and none comes back: not by a claim that was answered too late, and    *)
(* not when the object is recreated or others meddle with its annotations.      *)
THEOREM ReturnUnlocks == Spec => []ReturnMeansUnlocked
<1>1. UnlockInv => ReturnMeansUnlocked
  BY DEF UnlockInv, ReturnInv, ReturnMeansUnlocked
<1> QED
  BY <1>1, UnlockHolds, PTL

-----------------------------------------------------------------------------
(* Success is published for what is deployed. *)

Succeeded(r) == result[r].status = "succeeded"

(* A run never fails with the status of a success, and whoever has rolled   *)
(* back, or has left a rollback under way, cannot come back to publish one. *)
HoldInv(r) ==
    /\ run[r].status # "succeeded"
    /\ run[r].restored => run[r].pc \notin Body

RollbackInv(q) ==
    q.op = "restore" => run[q.run].pc \notin Body /\ ~Succeeded(q.run)

(* Between acquisition and end the content is the original or its deployment. *)
PlaceInv(r) ==
    Owning(r) /\ spent.edits = 0 /\ spent.meddles = 0 =>
        /\ obj.content \in {run[r].original, Deployed(r, run[r].original)}
        /\ run[r].pc = "publish" \/ Succeeded(r) =>
              obj.content = Deployed(r, run[r].original)

DeployedInv ==
    /\ \A r \in Runs : HoldInv(r) /\ PlaceInv(r)
    /\ \A r \in Runs : Succeeded(r) => run[r].original # NoContent
    /\ \A q \in late : RollbackInv(q)

LEMMA DeployedFacts ==
    ASSUME NEW r \in Runs, NEW c \in Content
    PROVE  /\ Deployed(r, Deployed(r, c)) = Deployed(r, c)
           /\ SameContent(c, Deployed(r, c)) => c = Deployed(r, c)
<1>1. CASE c.img = ImageOf[r] /\ c.audit = AuditOf[r]
  BY <1>1 DEF Deployed
<1>2. CASE ~(c.img = ImageOf[r] /\ c.audit = AuditOf[r])
  <2>1. Deployed(r, c) = [c EXCEPT !.img = ImageOf[r], !.audit = AuditOf[r], !.by = r]
    BY <1>2 DEF Deployed
  <2>2. Deployed(r, c).img = ImageOf[r] /\ Deployed(r, c).audit = AuditOf[r]
    BY <2>1 DEF Content
  <2> QED
    BY <1>2, <2>2 DEF SameContent, SameTemplate, Deployed
<1> QED
  BY <1>1, <1>2

(* While a run holds the lock, nobody but it writes the content. *)
LEMMA AcceptedContent ==
    ASSUME obj \in Object, NEW q \in Request, Passes(q), obj' = Effect(q), Current(q),
           q.op = "restore" => q.from \in Content,
           NEW r \in Runs, obj.lock = r
    PROVE  \/ obj'.content = obj.content
           \/ q.op = "apply" /\ q.run = r /\ obj'.content = Deployed(r, obj.content)
           \/ q.op = "restore" /\ q.run = r /\ obj'.content = q.from
<1>0. q.op \in Operations /\ obj.content \in Content /\ r # NoRun /\ q.run \in Runs
  BY TargetAssumption DEF Request, Object
<1>1. obj'.content = Written(q).content
  BY <1>0 DEF Effect, Written, Object, Operations
<1>2. q.op # "acquire"
  BY <1>0 DEF Passes, VersionUnchanged, Current
<1>3. q.run = r
  BY <1>2 DEF Passes, LockIsMine
<1>4. CASE q.op = "apply"
  BY <1>0, <1>1, <1>3, <1>4 DEF Written, Object
<1>5. CASE q.op = "release"
  BY <1>0, <1>1, <1>5 DEF Written, Object
<1>6. CASE q.op = "restore"
  <2>1. obj.content.rest = Deployed(r, q.from).rest /\ q.from \in Content
    BY <1>3, <1>6 DEF Passes, DeploymentUntouched, SameContent, SameTemplate
  <2>2. obj.content.rest = q.from.rest
    BY <2>1 DEF Deployed, Content
  <2>3. obj'.content = [obj.content EXCEPT !.img = q.from.img,
                          !.audit = q.from.audit, !.by = q.from.by]
    BY <1>0, <1>1, <1>6 DEF Written, Object
  <2> QED
    BY ZenonT(60), <1>0, <1>3, <1>6, <2>1, <2>2, <2>3, PutBack
<1> QED
  BY <1>0, <1>2, <1>4, <1>5, <1>6 DEF Operations

LEMMA OwnerWrites ==
    ASSUME Inv, [Next]_vars, spent'.edits = 0, spent'.meddles = 0,
           NEW r \in Runs, run[r].original # NoContent, run[r].pc \notin Ended
    PROVE  /\ spent.edits = 0 /\ spent.meddles = 0
           /\ \/ obj'.content = obj.content
              \/ obj'.content = Deployed(r, obj.content)
              \/ /\ obj'.content = run[r].original
                 /\ \/ run[r].pc = "restore"
                    \/ \E q \in late : q.op = "restore" /\ q.run = r
<1>0. /\ TypeInv /\ obj \in Object /\ spent \in Spent /\ late \in SUBSET Request
      /\ run \in [Runs -> CoherentState]
  BY DEF Inv, TypeInv, TypeOK
<1>l. spent.edits \in Nat /\ spent.meddles \in Nat
  BY <1>0 DEF Spent
<1>1. ~(ControllerWrites \/ ToolEdits \/ LockStripped \/ Recreated)
  BY <1>0, <1>l DEF ControllerWrites, ToolEdits, LockStripped, Recreated, Spent
<1>2. spent.edits = 0 /\ spent.meddles = 0
  <2>1. ASSUME NEW x \in Runs, Workflow(x) \/ Mishap(x)
        PROVE  spent'.edits = spent.edits /\ spent'.meddles = spent.meddles
    BY <1>0, <2>1, RunSpends DEF TypeInv
  <2>2. CASE UNCHANGED spent
    BY <2>2
  <2> QED
    BY <1>1, <2>1, <2>2 DEF Next, Environment, LateArrival, OperatorUnlocks, vars
<1>3. obj.lock = r
  BY <1>2 DEF Inv, LockHeld, Owning, OwnedBy
<1>4. ASSUME NEW x \in Runs, Workflow(x) \/ Mishap(x), obj' # obj
      PROVE  \/ obj'.content = obj.content
             \/ obj'.content = Deployed(r, obj.content)
             \/ obj'.content = run[r].original /\ run[r].pc = "restore"
  <2> DEFINE q == PatchOf(x)
  <2>1. run[x].pc \in Operations /\ Passes(q) /\ obj' = Effect(q)
    BY <1>4, RunWrites
  <2>2. q \in Request /\ q.op = run[x].pc /\ q.run = x /\ q.from = run[x].original
    BY <1>0, <2>1, PatchOfType DEF PatchOf
  <2>3. Current(q)
    BY <2>2 DEF Inv, ClaimInv, Current
  <2>4. q.op = "restore" => q.from \in Content
    BY <1>0, <2>2 DEF CoherentState, Coherent, Mutating, Recovery, Unacquired,
                      Acquired, Body
  <2> HIDE DEF q
  <2> QED
    BY <1>0, <1>3, <2>1, <2>2, <2>3, <2>4, AcceptedContent
<1>5. ASSUME NEW q \in late, LateArrival(q), obj' # obj
      PROVE  \/ obj'.content = obj.content
             \/ obj'.content = Deployed(r, obj.content)
             \/ obj'.content = run[r].original /\ q.op = "restore" /\ q.run = r
  <2>1. q \in Request /\ Passes(q) /\ obj' = Effect(q)
    BY <1>0, <1>5 DEF LateArrival, Receive
  <2>2. Current(q) /\ Faithful(q)
    BY DEF Inv, LateInv
  <2>3. q.op = "restore" => q.from \in Content /\ run[q.run].original = q.from
    BY <2>2 DEF Faithful
  <2> QED
    BY <1>0, <1>3, <2>1, <2>2, <2>3, AcceptedContent
<1>6. ASSUME NEW x \in Runs, OperatorUnlocks(x) PROVE obj'.content = obj.content
  BY <1>0, <1>6 DEF OperatorUnlocks, OutsideWrite, Object
<1> QED
  BY <1>1, <1>2, <1>4, <1>5, <1>6 DEF Next, Environment, vars

(* How a run comes to its publication, and who publishes a success *)
LEMMA Publication ==
    ASSUME TypeInv, OutcomeInv, ~CleanupFails, NEW r \in Runs, HoldInv(r),
           Workflow(r) \/ Mishap(r)
    PROVE  /\ run'[r].pc = "publish" =>
                 /\ run[r].pc = "confirm" /\ obj' = obj
                 /\ SameContent(obj.content, Deployed(r, run[r].original))
           /\ result'[r].status = "succeeded" => Succeeded(r) \/ run[r].pc = "publish"
<1> DEFINE s == run[r]
           t == run'[r]
<1>0. /\ s \in RunState /\ run \in [Runs -> RunState] /\ MaskInv(r)
      /\ result \in [Runs -> Record \cup {NoRecord}]
  BY DEF TypeInv, TypeOK, OutcomeInv
<1>1. CASE Advances(s, t)
  BY <1>1 DEF Advances, Succeeded
<1>2. CASE Retires(s, t)
  BY <1>2 DEF Retires, Succeeded, Releasing, Ended
<1>3. ASSUME Recorded(r, s, t), Records(r), t.pc = "publish"
      PROVE  /\ s.pc = "confirm" /\ obj' = obj
             /\ SameContent(obj.content, Deployed(r, s.original))
  <2>1. s.pc = "confirm"
    BY <1>3 DEF Recorded, Releasing, Ended
  <2>2. Confirm(r)
    BY <1>3, <2>1 DEF Records, Prepare, Succeed, Stage, PublishSuccess, RecordFailure,
       PublishFailure, Cleanup, At
  <2>3. s.pc \in Body /\ s.pc \notin Recovery \cup Releasing \cup Ended
    BY <2>1 DEF Body, Recovery, Releasing, Ended
  <2>4. Expected(r) = Deployed(r, s.original)
    BY <2>3 DEF HoldInv, Expected
  <2>5. ASSUME Conflict(r) PROVE FALSE
    <3>1. t = Conflicted(s)
      BY <1>0, <2>5 DEF Conflict, Becomes
    <3>2. t.pc \in {"restore_read", "record_failure"}
      BY <1>0, <2>3, <3>1, FailureOutcome
    <3> QED
      BY <1>3, <3>2
  <2> QED
    BY <2>1, <2>2, <2>4, <2>5 DEF Confirm, Verified
<1>4. ASSUME Recorded(r, s, t), result'[r].status = "succeeded", ~Succeeded(r)
      PROVE  s.pc = "publish"
  <2>1. s.status # "succeeded"
    BY DEF HoldInv
  <2>2. CASE UNCHANGED result
    BY <1>4, <2>2 DEF Succeeded
  <2>3. CASE s.pc = "publish_failure" /\ result' = [result EXCEPT ![r] = RecordOf(s, s.status, s.rollback)]
    BY <1>0, <1>4, <2>1, <2>3 DEF RecordOf
  <2> QED
    BY <1>4, <2>2, <2>3 DEF Recorded
<1> QED
  BY <1>0, <1>1, <1>2, <1>3, <1>4, RunKinds, RecordedSteps

LEMMA HoldStep ==
    ASSUME TypeInv, NEW r \in Runs, HoldInv(r), Workflow(r) \/ Mishap(r)
    PROVE  HoldInv(r)' /\ (run'[r].pc \in Body => run[r].pc \in Body)
<1> DEFINE s == run[r]
           t == run'[r]
<1>l. /\ Releasing \cap Body = {} /\ Ended \cap Body = {} /\ "release" \in Releasing
      /\ "acquire_read" \in Body
  BY DEF Releasing, Ended, Body
<1>0. s \in RunState
  BY DEF TypeInv, TypeOK
<1>1. CASE s.pc \in Releasing
  <2>1. t.status = s.status /\ t.pc \notin Body
    BY <1>1, <1>l, ReleaseSteps
  <2> QED
    BY <2>1 DEF HoldInv
<1>2. CASE s.pc \notin Releasing
  <2>1. CASE s.pc = "published" /\ t = Finally(s, "returned")
    <3>1. t.status = s.status /\ t.pc \in {"release_read", "done"}
      BY <1>0, <2>1 DEF Finally, RunState
    <3> QED
      BY <3>1 DEF HoldInv, Body
  <2>2. CASE Ordinary(s, t)
    BY <2>2 DEF HoldInv, Ordinary
  <2>3. CASE s.pc = "acquire_read" /\ t.status = s.status /\ t.restored = s.restored
    BY <1>l, <2>3 DEF HoldInv
  <2> QED
    BY <1>2, <2>1, <2>2, <2>3, OrdinarySteps DEF Releasing
<1> QED
  BY <1>1, <1>2

LEMMA RollbackStep ==
    ASSUME Inv, OutcomeInv, ~CleanupFails, DeployedInv, [Next]_vars
    PROVE  \A q \in late' : RollbackInv(q)'
<1>0. TypeInv /\ late \in SUBSET Request
  BY DEF Inv, TypeInv, TypeOK
<1>l. "publish" \in Body
  BY DEF Body
<1>1. ASSUME NEW r \in Runs, run[r].pc \notin Body, ~Succeeded(r)
      PROVE  run'[r].pc \notin Body /\ ~Succeeded(r)'
  <2>1. CASE Workflow(r) \/ Mishap(r)
    BY <1>0, <1>1, <1>l, <2>1, HoldStep, Publication DEF DeployedInv, Succeeded
  <2>2. ASSUME NEW x \in Runs, x # r, Workflow(x) \/ Mishap(x)
        PROVE  run'[r] = run[r] /\ result'[r] = result[r]
    BY <1>0, <2>2, OthersOutcome
  <2>3. CASE UNCHANGED <<run, result>>
    BY <1>1, <2>3 DEF Succeeded
  <2> QED
    BY <1>1, <2>1, <2>2, <2>3 DEF Next, OperatorUnlocks, vars, Succeeded
<1>2. ASSUME NEW r \in Runs, Workflow(r) \/ Mishap(r), run[r].pc = "restore"
      PROVE  run[r].pc \notin Body /\ ~Succeeded(r)
  BY <1>2 DEF Body, OutcomeInv, ResultInv, Succeeded, NoRecord, Settled, Releasing, Ended
<1>3. ASSUME NEW q \in late', q.op = "restore"
      PROVE  RollbackInv(q)'
  <2>1. CASE q \in late
    BY <1>0, <1>1, <1>3, <2>1 DEF DeployedInv, RollbackInv, Request
  <2>2. CASE q \notin late
    <3>1. PICK r \in Runs : Workflow(r) \/ Mishap(r)
      BY <2>2, <1>3 DEF Next, OperatorUnlocks, vars, Environment, ControllerWrites, ToolEdits,
         LockStripped, Recreated, LateArrival
    <3>2. q = PatchOf(r)
      BY <1>3, <2>2, <3>1, RunWrites
    <3>3. q.run = r /\ run[r].pc = "restore"
      BY <1>3, <3>2 DEF PatchOf
    <3> QED
      BY <1>1, <1>2, <3>1, <3>3 DEF RollbackInv
  <2> QED
    BY <2>1, <2>2
<1> QED
  BY <1>3 DEF RollbackInv

LEMMA PlaceStep ==
    ASSUME Inv, OutcomeInv, ~CleanupFails, DeployedInv, [Next]_vars, NEW r \in Runs
    PROVE  PlaceInv(r)'
<1> DEFINE s == run[r]
           t == run'[r]
<1>0. /\ TypeInv /\ obj \in Object /\ obj.content \in Content /\ s \in RunState
      /\ ResultInv(r) /\ HoldInv(r) /\ PlaceInv(r)
  BY DEF Inv, TypeInv, TypeOK, Object, OutcomeInv, DeployedInv
<1>1. SUFFICES ASSUME Owning(r)', spent'.edits = 0, spent'.meddles = 0
               PROVE  /\ obj'.content \in {t.original, Deployed(r, t.original)}
                      /\ t.pc = "publish" \/ result'[r].status = "succeeded" =>
                            obj'.content = Deployed(r, t.original)
  BY DEF PlaceInv, Succeeded
<1>2. Succeeded(r) => s.pc \in Settled
  BY <1>0 DEF ResultInv, Succeeded, NoRecord
<1>3. CASE s.original # NoContent
  <2>1. s.pc \notin Ended /\ t.original = s.original /\ Owning(r)
    BY <1>0, <1>1, <1>3, Remembers DEF Owning
  <2>2. s.original \in Content
    BY <1>0, <1>3 DEF RunState
  <2>3. /\ spent.edits = 0 /\ spent.meddles = 0
        /\ \/ obj'.content = obj.content
           \/ obj'.content = Deployed(r, obj.content)
           \/ /\ obj'.content = s.original
              /\ s.pc = "restore" \/ \E q \in late : q.op = "restore" /\ q.run = r
    BY <1>1, <1>3, <2>1, OwnerWrites
  <2>4. /\ obj.content \in {s.original, Deployed(r, s.original)}
        /\ s.pc = "publish" \/ Succeeded(r) => obj.content = Deployed(r, s.original)
    BY <1>0, <2>1, <2>3 DEF PlaceInv
  <2>5. obj'.content \in {s.original, Deployed(r, s.original)}
    BY <2>2, <2>3, <2>4, DeployedFacts
  <2>6. ASSUME s.pc = "publish" \/ Succeeded(r)
        PROVE  obj'.content = Deployed(r, s.original)
    <3>1. s.pc # "restore"
      BY <1>2, <2>6 DEF Settled, Releasing, Ended
    <3>2. ~\E q \in late : q.op = "restore" /\ q.run = r
      BY <2>6 DEF DeployedInv, RollbackInv, Body
    <3> QED
      BY <2>2, <2>3, <2>4, <2>6, <3>1, <3>2, DeployedFacts
  <2>7. ASSUME t.pc = "publish", s.pc # "publish"
        PROVE  obj'.content = Deployed(r, s.original)
    <3>1. obj' = obj /\ SameContent(obj.content, Deployed(r, s.original))
      BY <1>0, <2>7, Remembers, Publication
    <3> QED
      BY <2>2, <2>4, <3>1, DeployedFacts
  <2>8. result'[r].status = "succeeded" => Succeeded(r) \/ s.pc = "publish"
    <3>1. CASE Workflow(r) \/ Mishap(r)
      BY <1>0, <3>1, Publication
    <3>2. ASSUME NEW x \in Runs, x # r, Workflow(x) \/ Mishap(x)
          PROVE  result'[r] = result[r]
      BY <1>0, <3>2, OthersOutcome
    <3> QED
      BY <3>1, <3>2 DEF Next, OperatorUnlocks, vars, Succeeded
  <2> QED
    BY <2>1, <2>5, <2>6, <2>7, <2>8
<1>4. CASE s.original = NoContent
  <2>1. Workflow(r) \/ Mishap(r)
    BY <1>0, <1>1, <1>4, Remembers DEF Owning
  <2>2. obj' = obj /\ t.original = obj.content /\ s.pc \in {"acquire_read", "acquire_check"}
    BY <1>0, <1>1, <1>4, <2>1, Knowledge DEF Owning
  <2>3. ~Succeeded(r)
    BY <1>2, <2>2 DEF Settled, Releasing, Ended
  <2> QED
    BY <1>0, <2>1, <2>2, <2>3, Publication
<1> QED
  BY <1>3, <1>4

LEMMA DeployedInit == Init => DeployedInv
<1> SUFFICES ASSUME Init PROVE DeployedInv
  OBVIOUS
<1>1. late = {} /\ \A r \in Runs : /\ run[r].status = "prepared" /\ ~run[r].restored
                                   /\ run[r].original = NoContent
  BY DEF Init, ObjectInit
<1>2. \A r \in Runs : result[r].status = "none"
  BY DEF Init, NoRecord
<1> QED
  BY <1>1, <1>2 DEF DeployedInv, HoldInv, PlaceInv, Owning, Succeeded

LEMMA DeployedStep ==
    ASSUME Inv, OutcomeInv, ~CleanupFails, DeployedInv, [Next]_vars
    PROVE  DeployedInv'
<1>1. ASSUME NEW r \in Runs PROVE HoldInv(r)'
  <2>0. TypeInv /\ HoldInv(r)
    BY DEF Inv, DeployedInv
  <2>1. CASE run'[r] = run[r]
    BY <2>0, <2>1 DEF HoldInv
  <2> QED
    BY <2>0, <2>1, Remembers, HoldStep
<1>2. ASSUME NEW r \in Runs, result'[r].status = "succeeded"
      PROVE  run'[r].original # NoContent
  <2>0. TypeInv /\ HoldInv(r) /\ Coherent(run[r]) /\ ResultInv(r)
    BY DEF Inv, DeployedInv, TypeInv, CoherentState, OutcomeInv
  <2>1. ASSUME NEW x \in Runs, x # r, Workflow(x) \/ Mishap(x)
        PROVE  result'[r] = result[r]
    BY <2>0, <2>1, OthersOutcome
  <2>2. CASE Succeeded(r)
    BY <2>0, <2>2, Remembers DEF DeployedInv
  <2>3. CASE ~Succeeded(r)
    <3>1. run[r].pc = "publish"
      BY <1>2, <2>0, <2>1, <2>3, Publication DEF Next, OperatorUnlocks, vars, Succeeded
    <3>2. run[r].original # NoContent
      BY <2>0, <3>1, NoContentFact DEF Coherent, Mutating, Body, Unacquired, Acquired
    <3> QED
      BY <2>0, <3>2, Remembers
  <2> QED
    BY <2>2, <2>3
<1> QED
  BY <1>1, <1>2, PlaceStep, RollbackStep DEF DeployedInv, Succeeded

(* deployment.py:352-363: for any number of runs, contents and failures, and   *)
(* with patches that outlive their kubectl, a success is on record only for    *)
(* what is deployed, unless an outside actor wrote the object or cleaning up   *)
(* failed after publication.                                                   *)
THEOREM SuccessTruthful == ~CleanupFails => (Spec => []SuccessHolds)
<1> SUFFICES ASSUME ~CleanupFails PROVE Spec => []SuccessHolds
  OBVIOUS
<1>1. Inv /\ OutcomeInv /\ DeployedInv /\ [Next]_vars => DeployedInv'
  BY DeployedStep
<1>2. Inv /\ OutcomeInv /\ DeployedInv => SuccessHolds
  <2> SUFFICES ASSUME Inv, OutcomeInv, DeployedInv, NEW r \in Runs,
                      Succeeded(r), run[r].pc \in Releasing, spent.edits = 0, spent.meddles = 0
               PROVE  obj.content = Deployed(r, run[r].original)
    BY DEF SuccessHolds, Succeeded
  <2>1. Owning(r) /\ PlaceInv(r)
    BY DEF DeployedInv, Owning, Releasing, Ended
  <2> QED
    BY <2>1 DEF PlaceInv
<1> QED
  BY <1>1, <1>2, DeployedInit, InvHolds, OutcomeHolds, PTL DEF Spec

-----------------------------------------------------------------------------
(* What a record says of the rollback is true, if no patch outlives its client. *)

(* The verdicts that tell an operator that nothing is left to undo *)
Assurances == {"not-required", "succeeded"}

Concluding == Recording \cup Releasing \cup {"done"}

(* The step of a run that comes to no verdict on its rollback *)
Unjudged(s, t) ==
    /\ t.rollback = s.rollback
    /\ t.pc \in Body \cup Recovery => s.pc \in Body \cup Recovery
    /\ t.pc \in {"restore_rollout", "restore_confirm"} => t.restored
    /\ t.pc \in Recording => s.pc \in Recording \/ ~t.mutated
    /\ t.pc \in Releasing \cup {"done"} =>
          s.pc \in Concluding \cup {"published"} \/ ~t.mutated \/ SmokeEscapes

(* The step that does; what it claims it has seen on the object. *)
Judged(r, s, t) ==
    \E verdict \in Verdicts \ {"none"} :
        /\ s.pc \in Recovery /\ t = RollbackEnds(s, verdict)
        /\ verdict \in Assurances =>
              obj' = obj /\ obj.lock = r /\ SameContent(obj.content, s.original)

LEMMA LabelKinds ==
    /\ Body \cap (Recovery \cup Recording \cup Releasing \cup Ended) = {}
    /\ Recovery \cap (Recording \cup Releasing \cup Ended) = {}
    /\ Recording \cap (Releasing \cup Ended) = {}
    /\ Releasing \cap Ended = {}
    /\ "done" \in Ended /\ "crashed" \in Ended /\ "crashed" # "done"
    /\ "release_read" \in Releasing /\ "release" \in Releasing
    /\ "record_failure" \in Recording /\ "publish_failure" \in Recording
    /\ {"restore_read", "restore_verify", "restore", "restore_rollout", "restore_confirm"}
          = Recovery
    /\ {"acquire_read", "acquire", "acquire_check", "prepare", "prepared", "apply_read", "apply",
        "rollout", "smoke", "verify", "succeed", "stage", "confirm", "publish", "published",
        "preflight"} = Body
BY DEF Body, Recovery, Recording, Releasing, Ended

(* Whatever the handler takes over comes from the guarded body. *)
LEMMA HandlerUnjudged ==
    ASSUME NEW s \in RunState, s.pc \in Body, NEW status \in Statuses
    PROVE  Unjudged(s, Handled(s, status))
<1> DEFINE t == Handled(s, status)
<1>1. /\ t.rollback = s.rollback /\ t.mutated = s.mutated
      /\ t.pc = IF s.mutated THEN "restore_read" ELSE "record_failure"
  BY DEF Handled, Left, RunState
<1> HIDE DEF t
<1>2. Unjudged(s, t)
  BY <1>1, LabelKinds DEF Unjudged, Concluding
<1> QED
  BY <1>2 DEF t

LEMMA MoveUnjudged ==
    ASSUME NEW s \in RunState, NEW t, t.rollback = s.rollback,
           \/ s.pc \in Body /\ t.pc \in Body
           \/ s.pc \in Recovery /\ t.pc \in {"restore_verify", "restore"}
           \/ s.pc \in Recovery /\ t.pc \in {"restore_rollout", "restore_confirm"} /\ t.restored
           \/ s.pc \in Recording \cup Releasing /\ t.pc \in {"publish_failure"} \cup Releasing \cup Ended
              /\ (t.pc \in Recording => s.pc \in Recording)
           \/ t.pc = "crashed"
           \/ s.pc = "published" /\ t.pc \in Releasing \cup Ended
           \/ SmokeEscapes /\ s.pc \in Body /\ t.pc \in Releasing \cup Ended
    PROVE  Unjudged(s, t)
<1> USE DEF Unjudged, Concluding
<1>1. CASE s.pc \in Body /\ t.pc \in Body
  BY <1>1, LabelKinds
<1>2. CASE s.pc \in Recovery /\ t.pc \in {"restore_verify", "restore"}
  BY <1>2, LabelKinds
<1>3. CASE s.pc \in Recovery /\ t.pc \in {"restore_rollout", "restore_confirm"} /\ t.restored
  BY <1>3, LabelKinds
<1>4. CASE s.pc \in Recording \cup Releasing /\ t.pc \in {"publish_failure"} \cup Releasing \cup Ended
           /\ (t.pc \in Recording => s.pc \in Recording)
  BY <1>4, LabelKinds
<1>5. CASE t.pc = "crashed"
  BY <1>5, LabelKinds
<1>6. CASE s.pc = "published" /\ t.pc \in Releasing \cup Ended
  BY <1>6, LabelKinds
<1>7. CASE SmokeEscapes /\ s.pc \in Body /\ t.pc \in Releasing \cup Ended
  BY <1>7, LabelKinds
<1> QED
  BY <1>1, <1>2, <1>3, <1>4, <1>5, <1>6, <1>7

(* The guarded body *)
LEMMA BodyVerdict ==
    ASSUME TypeInv, NEW r \in Runs, Workflow(r) \/ Mishap(r), run[r].pc \in Body
    PROVE  Unjudged(run[r], run'[r])
<1> DEFINE s == run[r]
           t == run'[r]
<1>0. s \in RunState /\ run \in [Runs -> RunState]
  BY DEF TypeInv, TypeOK
<1>l. s.pc \notin Recovery \cup Recording \cup Releasing \cup Ended
  BY LabelKinds
<1>1. ASSUME t \in {Failed(s), Conflicted(s), Interrupted(s)} PROVE Unjudged(s, t)
  <2>1. t \in {Handled(s, "failed"), Handled(s, "interrupted")}
    BY <1>1, <1>l DEF Failed, Conflicted, Interrupted
  <2>2. {"failed", "interrupted"} \subseteq Statuses
    BY DEF Statuses
  <2> QED
    BY <1>0, <2>1, <2>2, HandlerUnjudged
<1>2. ASSUME t.rollback = s.rollback, t.pc \in Body PROVE Unjudged(s, t)
  BY <1>0, <1>2, MoveUnjudged
<1>3. CASE Preflight(r) \/ AcquireCheck(r) \/ Prepare(r) \/ MarkMutation(r) \/ ApplyRead(r)
           \/ Rollout(r) \/ Verify(r) \/ Succeed(r) \/ Stage(r) \/ Confirm(r) \/ PublishSuccess(r)
  <2>1. \/ t \in {Failed(s), Conflicted(s)}
        \/ \E label \in {"acquire_read", "prepared", "smoke", "verify", "succeed", "stage", "publish",
                         "published"} : t = [s EXCEPT !.pc = label]
        \/ t = [s EXCEPT !.pc = "prepare", !.original = obj.content]
        \/ t = [s EXCEPT !.pc = "apply_read", !.mutated = TRUE]
        \/ t = [s EXCEPT !.pc = "apply", !.seen = Seen]
        \/ t = [s EXCEPT !.pc = "confirm", !.recovering = TRUE]
    BY <1>0, <1>3 DEF Preflight, AcquireCheck, Prepare, MarkMutation, ApplyRead, Rollout,
       Verify, Succeed, Stage, Confirm, PublishSuccess, Verified, Becomes, Conflict
  <2>2. ASSUME NEW label \in {"acquire_read", "prepared", "smoke", "verify", "succeed", "stage",
                              "publish", "published"},
               t = [s EXCEPT !.pc = label]
        PROVE  t.rollback = s.rollback /\ t.pc \in Body
    BY <1>0, <2>2, LabelKinds DEF RunState
  <2>3. ASSUME t = [s EXCEPT !.pc = "prepare", !.original = obj.content]
        PROVE  t.rollback = s.rollback /\ t.pc \in Body
    BY <1>0, <2>3, LabelKinds DEF RunState
  <2>4. ASSUME t = [s EXCEPT !.pc = "apply_read", !.mutated = TRUE]
        PROVE  t.rollback = s.rollback /\ t.pc \in Body
    BY <1>0, <2>4, LabelKinds DEF RunState
  <2>5. ASSUME t = [s EXCEPT !.pc = "apply", !.seen = Seen]
        PROVE  t.rollback = s.rollback /\ t.pc \in Body
    BY <1>0, <2>5, LabelKinds DEF RunState
  <2>6. ASSUME t = [s EXCEPT !.pc = "confirm", !.recovering = TRUE]
        PROVE  t.rollback = s.rollback /\ t.pc \in Body
    BY <1>0, <2>6, LabelKinds DEF RunState
  <2> QED
    BY <1>1, <1>2, <2>1, <2>2, <2>3, <2>4, <2>5, <2>6
<1>4. CASE AcquireRead(r)
  <2>1. \/ t = Failed(s)
        \/ t = [Left(s) EXCEPT !.pc = "prepare", !.original = obj.content]
        \/ t = [s EXCEPT !.pc = "acquire", !.uid = obj.uid, !.attempted = TRUE, !.seen = Seen]
    BY <1>0, <1>4 DEF AcquireRead, Becomes
  <2>2. ASSUME t = [Left(s) EXCEPT !.pc = "prepare", !.original = obj.content]
        PROVE  t.rollback = s.rollback /\ t.pc \in Body
    BY <1>0, <2>2, LabelKinds DEF Left, RunState
  <2>3. ASSUME t = [s EXCEPT !.pc = "acquire", !.uid = obj.uid, !.attempted = TRUE, !.seen = Seen]
        PROVE  t.rollback = s.rollback /\ t.pc \in Body
    BY <1>0, <2>3, LabelKinds DEF RunState
  <2> QED
    BY <1>1, <1>2, <2>1, <2>2, <2>3
<1>5. CASE Smoke(r) \/ Cleanup(r)
  <2>1. \/ t = Failed(s) \/ t = [s EXCEPT !.pc = "verify"]
        \/ SmokeEscapes /\ t = Finally(s, "escaped")
        \/ s.pc = "published" /\ t = Finally(s, "returned")
    BY <1>0, <1>5 DEF Smoke, Cleanup, Becomes, At
  <2>2. ASSUME t = [s EXCEPT !.pc = "verify"]
        PROVE  t.rollback = s.rollback /\ t.pc \in Body
    BY <1>0, <2>2, LabelKinds DEF RunState
  <2>3. ASSUME NEW exit, t = Finally(s, exit)
        PROVE  t.rollback = s.rollback /\ t.pc \in Releasing \cup Ended
    BY <1>0, <2>3, LabelKinds DEF Finally, RunState
  <2>4. CASE SmokeEscapes /\ t = Finally(s, "escaped")
    BY <1>0, <2>3, <2>4, MoveUnjudged
  <2>5. CASE s.pc = "published" /\ t = Finally(s, "returned")
    BY <1>0, <2>3, <2>5, MoveUnjudged
  <2> QED
    BY <1>1, <1>2, <2>1, <2>2, <2>4, <2>5
<1>6. CASE PatchAnswered(r) \/ PatchLost(r) \/ PatchDelayed(r)
  <2>1. s.pc \in {"acquire", "apply"}
    BY <1>6, <1>l, LabelKinds DEF PatchAnswered, PatchLost, PatchDelayed, Operations
  <2>2. t \in {Patched(s), CallErred(s), Failed(s), Interrupted(s)}
    BY <1>0, <1>6 DEF PatchAnswered, PatchLost, PatchDelayed, Becomes
  <2>3. CASE t = Patched(s)
    <3>1. PICK label \in {"acquire_check", "rollout"} : t = [Left(s) EXCEPT !.pc = label]
      BY <2>1, <2>3 DEF Patched
    <3>2. t.rollback = s.rollback /\ t.pc \in Body
      BY <1>0, <3>1, LabelKinds DEF Left, RunState
    <3> QED
      BY <1>2, <3>2
  <2>4. CASE t = CallErred(s)
    <3>1. \/ \E label \in {"acquire_read", "apply_read"} :
                t = [s EXCEPT !.pc = label, !.tries = @ + 1]
          \/ t = Handled(s, "failed")
      BY <2>1, <2>4 DEF CallErred, Retried
    <3>2. ASSUME NEW label \in {"acquire_read", "apply_read"},
                 t = [s EXCEPT !.pc = label, !.tries = @ + 1]
          PROVE  t.rollback = s.rollback /\ t.pc \in Body
      BY <1>0, <3>2, LabelKinds DEF RunState
    <3>3. Failed(s) = Handled(s, "failed")
      BY <1>l DEF Failed
    <3> QED
      BY <1>1, <1>2, <3>1, <3>2, <3>3
  <2> QED
    BY <1>1, <2>2, <2>3, <2>4
<1>7. CASE ReadRefused(r) \/ Interrupt(r) \/ CallFails(r) \/ WriteFails(r)
  BY <1>0, <1>1, <1>7 DEF ReadRefused, Interrupt, CallFails, WriteFails, Becomes
<1>8. CASE Crash(r)
  <2>1. t = [s EXCEPT !.pc = "crashed"]
    BY <1>0, <1>8 DEF Crash, Becomes
  <2>2. t.rollback = s.rollback /\ t.pc = "crashed"
    BY <1>0, <2>1 DEF RunState
  <2> QED
    BY <1>0, <2>2, MoveUnjudged
<1> QED
  BY <1>3, <1>4, <1>5, <1>6, <1>7, <1>8, LabelKinds DEF Workflow, Mishap, RestoreRead, RestoreVerify,
     RestoreRollout, RestoreConfirm, RecordFailure, PublishFailure, ReleaseRead, Verified, At

(* The rollback *)
LEMMA RecoveryVerdict ==
    ASSUME TypeInv, NEW r \in Runs, Workflow(r) \/ Mishap(r), run[r].pc \in Recovery,
           run[r].recovering,
           run[r].pc \in {"restore_rollout", "restore_confirm"} => run[r].restored
    PROVE  Unjudged(run[r], run'[r]) \/ Judged(r, run[r], run'[r])
<1> DEFINE s == run[r]
           t == run'[r]
<1>0. s \in RunState /\ run \in [Runs -> RunState]
  BY DEF TypeInv, TypeOK
<1>l. /\ s.pc \notin Body \cup Recording \cup Releasing \cup Ended
      /\ {"failed", "skipped-conflict"} \subseteq Verdicts \ {"none"}
      /\ {"failed", "skipped-conflict"} \cap Assurances = {}
      /\ Assurances \subseteq Verdicts \ {"none"}
  BY LabelKinds DEF Verdicts, Assurances
<1>1. ASSUME t \in {Failed(s), Conflicted(s)} PROVE Judged(r, s, t)
  <2>1. \E verdict \in {"failed", "skipped-conflict"} : t = RollbackEnds(s, verdict)
    BY <1>1, <1>l DEF Failed, Conflicted
  <2> QED
    BY <1>l, <2>1 DEF Judged
<1>2. ASSUME t.rollback = s.rollback,
             \/ t.pc \in {"restore_verify", "restore", "crashed"}
             \/ t.pc \in {"restore_rollout", "restore_confirm"} /\ t.restored
      PROVE  Unjudged(s, t)
  BY <1>0, <1>2, MoveUnjudged
<1>3. ASSUME NEW verdict \in Assurances, t = RollbackEnds(s, verdict), obj' = obj, obj.lock = r,
             SameContent(obj.content, s.original)
      PROVE  Judged(r, s, t)
  BY <1>l, <1>3 DEF Judged
<1>4. CASE RestoreRead(r)
  <2>1. \/ t = Conflicted(s)
        \/ t = [s EXCEPT !.pc = "restore_verify"]
        \/ t = RollbackEnds(s, "not-required") /\ obj' = obj /\ obj.lock = r
           /\ SameContent(obj.content, s.original)
    BY <1>0, <1>4 DEF RestoreRead, Becomes, Conflict, OwnedBy
  <2>2. ASSUME t = [s EXCEPT !.pc = "restore_verify"]
        PROVE  t.rollback = s.rollback /\ t.pc = "restore_verify"
    BY <1>0, <2>2 DEF RunState
  <2> QED
    BY <1>1, <1>2, <1>3, <2>1, <2>2 DEF Assurances
<1>5. CASE RestoreVerify(r)
  <2>1. t = Conflicted(s) \/ t = [s EXCEPT !.pc = "restore"]
    BY <1>0, <1>5 DEF RestoreVerify, Verified, Becomes, Conflict
  <2>2. ASSUME t = [s EXCEPT !.pc = "restore"]
        PROVE  t.rollback = s.rollback /\ t.pc = "restore"
    BY <1>0, <2>2 DEF RunState
  <2> QED
    BY <1>1, <1>2, <2>1, <2>2
<1>6. CASE RestoreRollout(r)
  <2>1. s.restored /\ (t = Failed(s) \/ t = [s EXCEPT !.pc = "restore_confirm"])
    BY <1>0, <1>6 DEF RestoreRollout, Becomes, At
  <2>2. ASSUME t = [s EXCEPT !.pc = "restore_confirm"]
        PROVE  t.rollback = s.rollback /\ t.pc = "restore_confirm" /\ t.restored = s.restored
    BY <1>0, <2>2 DEF RunState
  <2> QED
    BY <1>1, <1>2, <2>1, <2>2
<1>7. CASE RestoreConfirm(r)
  <2>1. s.restored /\ Expected(r) = s.original
    BY <1>7 DEF RestoreConfirm, Verified, At, Expected
  <2>2. \/ t = Conflicted(s)
        \/ t = RollbackEnds(s, "succeeded") /\ obj' = obj /\ obj.lock = r
           /\ SameContent(obj.content, s.original)
    BY <1>0, <1>7, <2>1 DEF RestoreConfirm, Verified, Becomes, Conflict, OwnedBy
  <2> QED
    BY <1>1, <1>3, <2>2 DEF Assurances
<1>8. CASE PatchAnswered(r) \/ PatchLost(r) \/ PatchDelayed(r)
  <2>1. s.pc = "restore"
    BY <1>8, <1>l, LabelKinds DEF PatchAnswered, PatchLost, PatchDelayed, Operations
  <2>2. t \in {Patched(s), CallErred(s), Failed(s)}
    BY <1>0, <1>8 DEF PatchAnswered, PatchLost, PatchDelayed, Becomes, Interruptible
  <2>3. Patched(s) = [s EXCEPT !.pc = "restore_rollout", !.restored = TRUE]
        /\ CallErred(s) = Conflicted(s)
    BY <2>1 DEF Patched, CallErred
  <2>4. ASSUME t = [s EXCEPT !.pc = "restore_rollout", !.restored = TRUE]
        PROVE  t.rollback = s.rollback /\ t.pc = "restore_rollout" /\ t.restored
    BY <1>0, <2>4 DEF RunState
  <2> QED
    BY <1>1, <1>2, <2>2, <2>3, <2>4
<1>9. CASE ReadRefused(r) \/ CallFails(r) \/ WriteFails(r)
  BY <1>0, <1>1, <1>9 DEF ReadRefused, CallFails, WriteFails, Becomes
<1>10. CASE Crash(r)
  <2>1. t = [s EXCEPT !.pc = "crashed"]
    BY <1>0, <1>10 DEF Crash, Becomes
  <2>2. t.rollback = s.rollback /\ t.pc = "crashed"
    BY <1>0, <2>1 DEF RunState
  <2> QED
    BY <1>2, <2>2
<1>11. ~Interrupt(r)
  BY DEF Interrupt, Interruptible
<1> QED
  BY <1>4, <1>5, <1>6, <1>7, <1>8, <1>9, <1>10, <1>11, <1>l, LabelKinds DEF Workflow, Mishap,
     Preflight, AcquireRead, AcquireCheck, Prepare, MarkMutation, ApplyRead, Rollout, Smoke, Verify,
     Succeed, Stage, Confirm, PublishSuccess, Cleanup, RecordFailure, PublishFailure, ReleaseRead,
     Verified, At

(* The records and the "finally" clause *)
LEMMA ConcludingVerdict ==
    ASSUME TypeInv, NEW r \in Runs, Workflow(r) \/ Mishap(r),
           run[r].pc \in Recording \cup Releasing, run[r].pc \in Recording => run[r].recovering
    PROVE  Unjudged(run[r], run'[r])
<1> DEFINE s == run[r]
           t == run'[r]
<1>0. s \in RunState /\ run \in [Runs -> RunState]
  BY DEF TypeInv, TypeOK
<1>1. CASE s.pc \in Releasing
  <2>1. t.rollback = s.rollback /\ t.pc \in {"release"} \cup Ended
    BY <1>1, ReleaseSteps
  <2> QED
    BY <1>0, <1>1, <2>1, LabelKinds, MoveUnjudged
<1>2. CASE s.pc \in Recording
  <2>0. s.pc \notin Body \cup Recovery \cup Releasing \cup Ended /\ s.recovering
    BY <1>2, LabelKinds
  <2>1. ASSUME t = Finally(s, "raised") PROVE Unjudged(s, t)
    <3>1. t.rollback = s.rollback /\ t.pc \in {"release_read", "done"}
      BY <1>0, <2>1 DEF Finally, RunState
    <3> QED
      BY <1>0, <1>2, <3>1, LabelKinds, MoveUnjudged
  <2>2. CASE RecordFailure(r) \/ PublishFailure(r)
    <3>1. t \in {Finally(s, "raised"), [s EXCEPT !.pc = "publish_failure"]}
      BY <1>0, <2>2 DEF RecordFailure, PublishFailure, Becomes
    <3>2. ASSUME t = [s EXCEPT !.pc = "publish_failure"]
          PROVE  t.rollback = s.rollback /\ t.pc = "publish_failure"
      BY <1>0, <3>2 DEF RunState
    <3> QED
      BY <1>0, <1>2, <2>1, <3>1, <3>2, LabelKinds, MoveUnjudged
  <2>3. CASE Crash(r)
    <3>1. t = [s EXCEPT !.pc = "crashed"]
      BY <1>0, <2>3 DEF Crash, Becomes
    <3>2. t.rollback = s.rollback /\ t.pc = "crashed"
      BY <1>0, <3>1 DEF RunState
    <3> QED
      BY <1>0, <3>2, MoveUnjudged
  <2>4. ~Interrupt(r)
    BY <2>0 DEF Interrupt, Interruptible
  <2>5. s.pc \notin Operations \cup Calls \cup Reads
        /\ s.pc \notin {"prepare", "succeed", "stage", "publish"}
    BY <2>0, LabelKinds DEF Operations, Calls, Reads
  <2> QED
    BY <2>0, <2>2, <2>3, <2>4, <2>5, LabelKinds DEF Workflow, Mishap,
       Preflight, AcquireRead, AcquireCheck, Prepare, MarkMutation, ApplyRead, Rollout, Smoke, Verify,
       Succeed, Stage, Confirm, PublishSuccess, Cleanup, RestoreRead, RestoreVerify, RestoreRollout,
       RestoreConfirm, ReleaseRead, PatchAnswered, ReadRefused, PatchLost, PatchDelayed, CallFails,
       WriteFails, Verified, At
<1> QED
  BY <1>1, <1>2

(* A verdict is final, and once the rollback is over it is there. *)
LEMMA VerdictSteps ==
    ASSUME TypeInv, NEW r \in Runs, MaskInv(r), Workflow(r) \/ Mishap(r),
           run[r].pc \in {"restore_rollout", "restore_confirm"} => run[r].restored
    PROVE  Unjudged(run[r], run'[r]) \/ Judged(r, run[r], run'[r])
<1>1. run[r] \in RunState /\ run[r].pc \notin Ended
  BY WorkflowProgress, MishapProgress DEF TypeInv, TypeOK
<1>2. run[r].pc \in Body \cup Recovery \cup Recording \cup Releasing
  BY <1>1 DEF RunState, Labels
<1>3. run[r].pc \in Recovery \cup Recording => run[r].recovering
  BY DEF MaskInv, Masked
<1> QED
  BY <1>2, <1>3, BodyVerdict, RecoveryVerdict, ConcludingVerdict

LEMMA ResultWrites ==
    ASSUME TypeInv, NEW r \in Runs, MaskInv(r), Workflow(r) \/ Mishap(r)
    PROVE  /\ \/ result'[r] = result[r]
              \/ /\ run[r].pc = "publish" /\ run'[r].pc = "published"
                 /\ result'[r] = RecordOf(run[r], "succeeded", "none")
              \/ /\ run[r].pc = "publish_failure"
                 /\ result'[r] = RecordOf(run[r], run[r].status, run[r].rollback)
           /\ run'[r].pc = "published" => result'[r] = RecordOf(run[r], "succeeded", "none")
<1> DEFINE s == run[r]
           t == run'[r]
<1>0. /\ s \in RunState /\ run \in [Runs -> RunState]
      /\ result \in [Runs -> Record \cup {NoRecord}]
  BY DEF TypeInv, TypeOK
<1>1. CASE Advances(s, t) \/ Retires(s, t)
  BY <1>1 DEF Advances, Retires, Releasing, Ended
<1>2. CASE Recorded(r, s, t)
  BY <1>0, <1>2, LabelKinds DEF Recorded
<1>3. CASE Records(r) /\ s.pc = "published"
  <2>1. Cleanup(r)
    BY <1>3 DEF Records, Prepare, Succeed, Stage, Confirm, PublishSuccess, RecordFailure,
       PublishFailure, Verified, At
  <2>2. UNCHANGED result /\ t \in {Finally(s, "returned"), Failed(s)}
    BY <1>0, <2>1 DEF Cleanup, Becomes
  <2>3. s.pc \notin Recovery \cup Releasing \cup Ended
    BY <1>3, LabelKinds
  <2>4. t.pc # "published"
    <3>1. CASE t = Finally(s, "returned")
      BY <1>0, <3>1 DEF Finally, RunState
    <3>2. CASE t = Failed(s)
      BY <1>0, <2>3, <3>2, FailureOutcome
    <3> QED
      BY <2>2, <3>1, <3>2
  <2> QED
    BY <2>2, <2>4
<1> QED
  BY <1>1, <1>2, <1>3, RunKinds, RecordedSteps

-----------------------------------------------------------------------------
(* Whose deployment a content is *)

MadeBy(r, c) == c.img = ImageOf[r] /\ c.audit = AuditOf[r]

(* r may have changed the content it found, and that was not what it deploys. *)
Made(r) == run[r].mutated /\ ~MadeBy(r, run[r].original)

AuthorInv(r) ==
    /\ obj.content.by = r => Made(r) /\ MadeBy(r, obj.content)
    /\ \A x \in Runs :
          run[x].original.by = r => x # r /\ Made(r) /\ MadeBy(r, run[x].original)

VerdictInv(r) ==
    /\ run[r].rollback # "none" => run[r].pc \notin Body \cup Recovery
    /\ run[r].pc \in {"restore_rollout", "restore_confirm"} => run[r].restored
    /\ result[r].rollback \in Assurances => run[r].rollback \in Assurances

(* After the claim nobody who holds the lock can put the deployment back. *)
ClaimedInv(r) ==
    run[r].rollback \in Assurances =>
        /\ obj.content.by # r
        /\ \A x \in Runs : obj.lock = x => run[x].original.by # r

TruthInv ==
    /\ late = {}
    /\ \A r \in Runs : AuthorInv(r) /\ VerdictInv(r) /\ ClaimedInv(r)

(* How a content comes into place that r has made *)
LEMMA AuthorWrites ==
    ASSUME Inv, late = {}, [Next]_vars, NEW r \in Runs, obj'.content.by = r
    PROVE  \/ obj'.content = obj.content
           \/ run[r].pc = "apply" /\ MadeBy(r, obj'.content) /\ ~MadeBy(r, run[r].original)
           \/ \E x \in Runs : obj.lock = x /\ obj'.content = run[x].original
<1>0. /\ TypeInv /\ obj \in Object /\ obj.content \in Content /\ Outside \notin Runs
      /\ run \in [Runs -> CoherentState] /\ Base.by = Outside /\ NoRun \notin Runs
  BY TargetAssumption DEF Inv, TypeInv, TypeOK, Object
<1>1. ASSUME NEW x \in Runs, Workflow(x) \/ Mishap(x), obj' # obj
      PROVE  \/ obj'.content = obj.content
             \/ run[r].pc = "apply" /\ MadeBy(r, obj'.content) /\ ~MadeBy(r, run[r].original)
             \/ obj.lock = x /\ obj'.content = run[x].original
  <2> DEFINE q == PatchOf(x)
  <2>1. run[x].pc \in Operations /\ Passes(q) /\ obj' = Effect(q)
    BY <1>1, RunWrites
  <2>2. /\ q \in Request /\ q.op = run[x].pc /\ q.run = x /\ q.from = run[x].original
        /\ q.seen = run[x].seen
    BY <1>0, <2>1, PatchOfType DEF PatchOf
  <2>3. Current(q)
    BY <2>2 DEF Inv, ClaimInv, Current
  <2>4. Coherent(run[x])
    BY <1>0 DEF CoherentState
  <2>5. q.op = "restore" => q.from \in Content
    BY <2>2, <2>4 DEF Coherent, Mutating, Recovery, Unacquired, Acquired, Body
  <2> HIDE DEF q
  <2>6. CASE q.op = "acquire"
    <3>1. obj.content.audit = q.seen.audit
      BY <2>1, <2>3, <2>6 DEF Passes, VersionUnchanged, Current
    <3>2. obj'.content = [obj.content EXCEPT !.audit = q.seen.audit]
      BY <1>0, <2>1, <2>6 DEF Effect, Written, Object
    <3>3. obj'.content = obj.content
      BY <1>0, <3>1, <3>2 DEF Content
    <3> QED
      BY <3>3
  <2>7. CASE q.op # "acquire"
    <3>1. obj.lock = x
      BY <2>1, <2>2, <2>7 DEF Passes, LockIsMine
    <3>2. CASE q.op = "apply" /\ obj'.content = Deployed(x, obj.content)
      <4>1. CASE MadeBy(x, obj.content)
        BY <3>2, <4>1 DEF MadeBy, Deployed
      <4>2. CASE ~MadeBy(x, obj.content)
        <5>1. obj'.content = [obj.content EXCEPT !.img = ImageOf[x], !.audit = AuditOf[x], !.by = x]
          BY <3>2, <4>2 DEF MadeBy, Deployed
        <5>2. obj'.content.by = x /\ MadeBy(x, obj'.content)
          BY <1>0, <5>1 DEF Content, MadeBy
        <5>3. obj.content.img = run[x].original.img /\ obj.content.audit = run[x].original.audit
          BY <2>1, <2>2, <2>4, <3>2 DEF Passes, BaseUnchanged, SameTemplate, Coherent
        <5> QED
          BY <2>2, <3>2, <4>2, <5>2, <5>3 DEF MadeBy
      <4> QED
        BY <4>1, <4>2
    <3> QED
      BY <1>0, <2>1, <2>2, <2>3, <2>5, <3>1, <3>2, AcceptedContent
  <2> QED
    BY <2>6, <2>7
<1>2. CASE ControllerWrites \/ LockStripped \/ \E x \in Runs : OperatorUnlocks(x)
  <2>1. obj'.content = obj.content
    BY <1>0, <1>2 DEF ControllerWrites, LockStripped, OperatorUnlocks, OutsideWrite, Object
  <2> QED
    BY <2>1
<1>3. CASE ToolEdits \/ Recreated
  <2>1. obj'.content.by = Outside
    <3>1. CASE ToolEdits
      BY <1>0, <3>1 DEF ToolEdits, OutsideWrite, Object
    <3>2. CASE Recreated
      BY <1>0, <3>2 DEF Recreated, OutsideWrite, Object
    <3> QED
      BY <1>3, <3>1, <3>2
  <2> QED
    BY <1>0, <2>1
<1> QED
  BY <1>1, <1>2, <1>3 DEF Next, Environment, vars

LEMMA AuthorStep ==
    ASSUME Inv, TruthInv, [Next]_vars, NEW r \in Runs
    PROVE  AuthorInv(r)'
<1>0. /\ TypeInv /\ AuthorInv(r) /\ late = {} /\ run \in [Runs -> CoherentState]
      /\ run' \in [Runs -> CoherentState] /\ Outside \notin Runs
  BY TypeStep, TargetAssumption DEF Inv, TypeInv, TruthInv
<1>1. Made(r) => Made(r)'
  <2>1. Made(r) => run[r].original \in Content
    BY <1>0 DEF Made, CoherentState, Coherent
  <2> QED
    BY <1>0, <2>1, Remembers, NoContentFact DEF Made, MadeBy
<1>2. ASSUME obj'.content.by = r PROVE Made(r)' /\ MadeBy(r, obj'.content)
  <2>1. CASE obj'.content = obj.content
    BY <1>0, <1>1, <1>2, <2>1 DEF AuthorInv
  <2>2. CASE run[r].pc = "apply" /\ MadeBy(r, obj'.content) /\ ~MadeBy(r, run[r].original)
    <3>1. run[r].mutated
      BY <1>0, <2>2 DEF CoherentState, Coherent, Mutating, Body, Unacquired, Acquired
    <3> QED
      BY <1>1, <2>2, <3>1 DEF Made
  <2>3. CASE \E x \in Runs : obj'.content = run[x].original
    BY <1>0, <1>1, <1>2, <2>3 DEF AuthorInv
  <2> QED
    BY <1>0, <1>2, <2>1, <2>2, <2>3, AuthorWrites
<1>3. ASSUME NEW x \in Runs, run'[x].original.by = r
      PROVE  x # r /\ Made(r)' /\ MadeBy(r, run'[x].original)
  <2>1. CASE run'[x].original = run[x].original
    BY <1>0, <1>1, <1>3, <2>1 DEF AuthorInv
  <2>2. run'[x].original # NoContent
    BY <1>0, <1>3 DEF NoContent
  <2>3. CASE /\ obj' = obj /\ run'[x].original = obj.content
             /\ run[x].pc \in {"acquire_read", "acquire_check"}
    <3>1. ~run[x].mutated
      BY <1>0, <2>3 DEF CoherentState, Coherent, Unacquired
    <3> QED
      BY <1>0, <1>1, <1>3, <2>3, <3>1 DEF AuthorInv, Made
  <2>4. run'[x] # run[x] => Workflow(x) \/ Mishap(x)
    BY <1>0, Remembers
  <2> QED
    BY <1>0, <2>1, <2>2, <2>3, <2>4, Knowledge
<1> QED
  BY <1>2, <1>3 DEF AuthorInv, MadeBy

LEMMA VerdictStep ==
    ASSUME TypeInv, NEW r \in Runs, MaskInv(r), VerdictInv(r), Workflow(r) \/ Mishap(r)
    PROVE  VerdictInv(r)'
<1> DEFINE s == run[r]
           t == run'[r]
<1>0. s \in RunState /\ (Unjudged(s, t) \/ Judged(r, s, t))
  BY VerdictSteps DEF TypeInv, TypeOK, VerdictInv
<1>1. result'[r].rollback \in Assurances => result[r].rollback \in Assurances \/ s.rollback \in Assurances
  <2>1. RecordOf(s, "succeeded", "none").rollback \notin Assurances
    BY DEF RecordOf, Assurances
  <2>2. RecordOf(s, s.status, s.rollback).rollback = s.rollback
    BY DEF RecordOf
  <2> QED
    BY <2>1, <2>2, ResultWrites
<1>2. CASE Unjudged(s, t)
  BY <1>1, <1>2 DEF Unjudged, VerdictInv
<1>3. CASE Judged(r, s, t)
  <2>1. PICK verdict \in Verdicts \ {"none"} : s.pc \in Recovery /\ t = RollbackEnds(s, verdict)
    BY <1>3 DEF Judged
  <2>2. t.pc = "record_failure" /\ t.rollback = verdict
    BY <1>0, <2>1 DEF RollbackEnds, RunState
  <2>3. s.rollback = "none"
    BY <2>1 DEF VerdictInv
  <2> QED
    BY <1>1, <2>2, <2>3, LabelKinds DEF VerdictInv, Assurances
<1> QED
  BY <1>0, <1>2, <1>3

LEMMA ClaimedStep ==
    ASSUME Inv, Masking, TruthInv, [Next]_vars, NEW r \in Runs
    PROVE  ClaimedInv(r)'
<1> DEFINE s == run[r]
           t == run'[r]
<1>0. /\ TypeInv /\ AuthorInv(r) /\ VerdictInv(r) /\ ClaimedInv(r) /\ MaskInv(r)
      /\ late = {} /\ run \in [Runs -> CoherentState] /\ s \in RunState
      /\ Outside \notin Runs /\ NoRun \notin Runs /\ "none" \notin Assurances
  BY TargetAssumption DEF Inv, TypeInv, TypeOK, TruthInv, Masking, Assurances
<1>1. SUFFICES ASSUME t.rollback \in Assurances
               PROVE  /\ obj'.content.by # r
                      /\ \A x \in Runs : obj'.lock = x => run'[x].original.by # r
  BY DEF ClaimedInv
<1>2. CASE s.rollback \in Assurances
  <2>1. obj.content.by # r /\ \A x \in Runs : obj.lock = x => run[x].original.by # r
    BY <1>0, <1>2 DEF ClaimedInv
  <2>2. s.pc \notin Body \cup Recovery
    BY <1>0, <1>2 DEF VerdictInv
  <2>3. obj'.content.by # r
    BY <1>0, <2>1, <2>2, AuthorWrites, LabelKinds
  <2>4. ASSUME NEW x \in Runs, obj'.lock = x, run'[x].original.by = r
        PROVE  FALSE
    <3>1. run'[x].original # NoContent
      BY <1>0, <2>4 DEF NoContent
    <3>2. CASE run'[x].original = run[x].original
      <4>1. obj.lock # x
        BY <2>1, <2>4, <3>2
      <4>2. run[x].pc = "acquire"
        BY <1>0, <2>4, <4>1, LockComes DEF ClaimArrives
      <4>3. run[x].original = NoContent
        BY <1>0, <4>2 DEF CoherentState, Coherent, Unacquired
      <4> QED
        BY <3>1, <3>2, <4>3
    <3>3. CASE obj' = obj /\ run'[x].original = obj.content
      BY <2>1, <2>4, <3>3
    <3>4. run'[x] # run[x] => Workflow(x) \/ Mishap(x)
      BY <1>0, Remembers
    <3> QED
      BY <1>0, <3>1, <3>2, <3>3, <3>4, Knowledge
  <2> QED
    BY <2>3, <2>4
<1>3. CASE s.rollback \notin Assurances
  <2>1. Workflow(r) \/ Mishap(r)
    BY <1>0, <1>1, <1>3, Remembers
  <2>2. Judged(r, s, t)
    BY <1>0, <1>1, <1>3, <2>1, VerdictSteps DEF VerdictInv, Unjudged
  <2>3. PICK verdict \in Verdicts \ {"none"} :
            /\ s.pc \in Recovery /\ t = RollbackEnds(s, verdict)
            /\ verdict \in Assurances =>
                  obj' = obj /\ obj.lock = r /\ SameContent(obj.content, s.original)
    BY <2>2 DEF Judged
  <2>4. t.rollback = verdict /\ t.original = s.original
    BY <1>0, <2>3 DEF RollbackEnds, RunState
  <2>5. obj' = obj /\ obj.lock = r /\ SameContent(obj.content, s.original)
    BY <1>1, <2>3, <2>4
  <2>6. obj.content.by # r
    BY <1>0, <2>5 DEF AuthorInv, Made, MadeBy, SameContent, SameTemplate
  <2>7. s.original.by # r
    BY <1>0 DEF AuthorInv
  <2> QED
    BY <2>4, <2>5, <2>6, <2>7
<1> QED
  BY <1>2, <1>3

LEMMA TruthStep ==
    ASSUME MaxLates = 0, Inv, Masking, TruthInv, [Next]_vars
    PROVE  TruthInv'
<1>0. TypeInv /\ late = {}
  BY DEF Inv, TruthInv
<1>1. late' = {}
  BY <1>0, NothingLate
<1>2. ASSUME NEW r \in Runs PROVE VerdictInv(r)'
  <2>0. VerdictInv(r) /\ MaskInv(r)
    BY DEF TruthInv, Masking
  <2>1. CASE Workflow(r) \/ Mishap(r)
    BY <1>0, <2>0, <2>1, VerdictStep
  <2>2. ASSUME NEW x \in Runs, x # r, Workflow(x) \/ Mishap(x)
        PROVE  run'[r] = run[r] /\ result'[r] = result[r]
    BY <1>0, <2>2, OthersOutcome
  <2>3. CASE run'[r] = run[r] /\ result'[r] = result[r]
    BY <2>0, <2>3 DEF VerdictInv
  <2> QED
    BY <2>1, <2>2, <2>3 DEF Next, OperatorUnlocks, vars
<1> QED
  BY <1>1, <1>2, AuthorStep, ClaimedStep DEF TruthInv

LEMMA TruthInit == Init => TruthInv
<1> SUFFICES ASSUME Init PROVE TruthInv
  OBVIOUS
<1>1. late = {} /\ obj.content.by = Outside /\ Outside \notin Runs
  BY TargetAssumption DEF Init, ObjectInit
<1>2. \A r \in Runs : /\ run[r].pc = "preflight" /\ run[r].rollback = "none"
                      /\ run[r].original.by = Outside /\ result[r].rollback = "none"
  BY DEF Init, NoContent, NoRecord
<1> QED
  BY <1>1, <1>2 DEF TruthInv, AuthorInv, VerdictInv, ClaimedInv, Assurances

LEMMA TruthHolds == MaxLates = 0 => (Spec => []TruthInv)
<1> SUFFICES ASSUME MaxLates = 0 PROVE Spec => []TruthInv
  OBVIOUS
<1>1. Inv /\ Masking /\ TruthInv /\ [Next]_vars => TruthInv'
  BY TruthStep
<1> QED
  BY <1>1, TruthInit, InvHolds, MaskHolds, PTL DEF Spec

(* deployment_guard.py:261 and deployment.py:377-380: for any number of runs,    *)
(* with crashes, interference by others and lost replies, a record that claims   *)
(* that nothing was left to roll back, or that the rollback succeeded, is true,  *)
(* if no patch outlives its kubectl.                                             *)
THEOREM VerdictsTruthful == MaxLates = 0 => (Spec => []RollbackTruthful)
<1> SUFFICES ASSUME MaxLates = 0 PROVE Spec => []RollbackTruthful
  OBVIOUS
<1>1. TruthInv => RollbackTruthful
  BY DEF TruthInv, VerdictInv, ClaimedInv, RollbackTruthful, Assurances
<1> QED
  BY <1>1, TruthHolds, PTL

-----------------------------------------------------------------------------
(* Nothing is mutated silently. *)

DoneInv(r) ==
    /\ run[r].pc = "published" => Succeeded(r)
    /\ run[r].pc \in Concluding /\ run[r].mutated =>
          run[r].rollback # "none" \/ (run[r].pc \notin Recording /\ Succeeded(r))

LEMMA DoneStep ==
    ASSUME ~SmokeEscapes, TypeInv, NEW r \in Runs, MaskInv(r), VerdictInv(r), DoneInv(r),
           Workflow(r) \/ Mishap(r)
    PROVE  DoneInv(r)'
<1> DEFINE s == run[r]
           t == run'[r]
<1>0. s \in RunState /\ Coherent(s) /\ (Unjudged(s, t) \/ Judged(r, s, t))
  BY VerdictSteps DEF TypeInv, TypeOK, CoherentState, VerdictInv
<1>l. /\ "publish" \notin Concluding /\ "published" \notin Concluding /\ "publish_failure" \in Recording
      /\ Recording \subseteq Concluding
      /\ Concluding \cap (Body \cup Recovery) = {}
      /\ \A label \in Concluding \ Recording : label \in Releasing \cup {"done"}
  BY LabelKinds DEF Concluding
<1>1. t.pc = "published" => Succeeded(r)'
  <2>1. RecordOf(s, "succeeded", "none").status = "succeeded"
    BY DEF RecordOf
  <2> QED
    BY <2>1, ResultWrites DEF Succeeded
<1>2. CASE Judged(r, s, t)
  <2>1. PICK verdict \in Verdicts \ {"none"} : t = RollbackEnds(s, verdict)
    BY <1>2 DEF Judged
  <2>2. t.rollback # "none" /\ t.pc = "record_failure"
    BY <1>0, <2>1 DEF RollbackEnds, RunState
  <2> QED
    BY <2>2 DEF DoneInv
<1>3. ASSUME Unjudged(s, t), t.pc \in Concluding, t.mutated, t.rollback = "none"
      PROVE  t.pc \notin Recording /\ Succeeded(r)'
  <2>1. s.rollback = "none"
    BY <1>3 DEF Unjudged
  <2>2. s.pc \in Concluding \cup {"published"}
    BY <1>3, <1>l DEF Unjudged
  <2>3. s.mutated
    <3>1. \A label \in Concluding \cup {"published"} :
             label \notin {"acquire_read", "acquire_check", "prepare", "prepared"}
      BY LabelKinds DEF Concluding
    <3>2. PICK u \in CoherentState : Becomes(r, u) /\ (Keeps(s, u) \/ Learns(r, u))
      BY WorkflowProgress, MishapProgress DEF Progress
    <3>3. t = u
      BY <3>2 DEF Becomes, TypeInv, TypeOK
    <3>4. ~Learns(r, u)
      BY <2>2, <3>1 DEF Learns, Claims, Acquires, Prepares, Marks
    <3> QED
      BY <1>3, <3>2, <3>3, <3>4 DEF Keeps
  <2>4. Succeeded(r) /\ s.pc \notin Recording
    BY <2>1, <2>2, <2>3, LabelKinds DEF DoneInv
  <2>5. t.pc \notin Recording
    BY <1>3, <2>4 DEF Unjudged
  <2>6. result'[r] = result[r]
    BY <2>2, <2>4, <1>l, ResultWrites
  <2> QED
    BY <2>4, <2>5, <2>6 DEF Succeeded
<1> QED
  BY <1>0, <1>1, <1>2, <1>3 DEF DoneInv, Succeeded

LEMMA DoneHolds == ~SmokeEscapes /\ MaxLates = 0 => (Spec => [](\A r \in Runs : DoneInv(r)))
<1> SUFFICES ASSUME ~SmokeEscapes, MaxLates = 0 PROVE Spec => [](\A r \in Runs : DoneInv(r))
  OBVIOUS
<1> DEFINE AllDone == \A r \in Runs : DoneInv(r)
<1>1. ASSUME Inv, Masking, TruthInv, AllDone, [Next]_vars
      PROVE  AllDone'
  <2> SUFFICES ASSUME NEW r \in Runs PROVE DoneInv(r)'
    OBVIOUS
  <2>0. TypeInv /\ VerdictInv(r) /\ MaskInv(r) /\ DoneInv(r)
    BY <1>1 DEF Inv, TruthInv, Masking
  <2>1. CASE Workflow(r) \/ Mishap(r)
    BY <2>0, <2>1, DoneStep
  <2>2. ASSUME NEW x \in Runs, x # r, Workflow(x) \/ Mishap(x)
        PROVE  run'[r] = run[r] /\ result'[r] = result[r]
    BY <2>0, <2>2, OthersOutcome
  <2>3. CASE run'[r] = run[r] /\ result'[r] = result[r]
    BY <2>0, <2>3 DEF DoneInv, Succeeded
  <2> QED
    BY <1>1, <2>1, <2>2, <2>3 DEF Next, OperatorUnlocks, vars
<1>2. Init => AllDone
  <2>1. "preflight" \notin Concluding
    BY LabelKinds DEF Concluding
  <2> QED
    BY <2>1 DEF Init, DoneInv
<1> QED
  BY <1>1, <1>2, InvHolds, MaskHolds, TruthHolds, PTL DEF Spec

(* deployment.py:366-400: for any number of runs, crashes of others, interference *)
(* and lost replies, a run that has ended with its deployment in place has        *)
(* published success or says that the rollback failed, if the errors of the       *)
(* health check are caught and no patch outlives its kubectl.                     *)
THEOREM NothingSilent == ~SmokeEscapes /\ MaxLates = 0 => (Spec => []NoSilentMutation)
<1> SUFFICES ASSUME ~SmokeEscapes, MaxLates = 0 PROVE Spec => []NoSilentMutation
  OBVIOUS
<1> DEFINE AllDone == \A r \in Runs : DoneInv(r)
<1>1. Inv /\ TruthInv /\ AllDone => NoSilentMutation
  <2> SUFFICES ASSUME Inv, TruthInv, NEW r \in Runs, DoneInv(r),
                      run[r].pc = "done", obj.content.by = r
               PROVE  Succeeded(r) \/ run[r].rollback \in {"failed", "skipped-conflict"}
    BY DEF NoSilentMutation, Succeeded
  <2>1. run[r].mutated
    BY DEF TruthInv, AuthorInv, Made
  <2>2. run[r].rollback # "none" \/ Succeeded(r)
    BY <2>1 DEF DoneInv, Concluding
  <2>3. run[r].rollback \notin Assurances /\ run[r].rollback \in Verdicts
    BY DEF TruthInv, ClaimedInv, Inv, TypeInv, TypeOK, RunState
  <2> QED
    BY <2>2, <2>3 DEF Verdicts, Assurances
<1> QED
  BY <1>1, InvHolds, TruthHolds, DoneHolds, PTL
=============================================================================
