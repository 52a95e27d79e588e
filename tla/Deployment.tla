----------------------------- MODULE Deployment -----------------------------
(***************************************************************************)
(* "finguard deploy": the workflow of finguard/deployment.py over the      *)
(* guard of finguard/deployment_guard.py, from the preflight (the release  *)
(* has been admitted and its result paths are reserved) to the release of  *)
(* the target lock, with signals as finguard/deployment_signals.py handles *)
(* them.  Every kubectl call and every durable file write is one step, so  *)
(* all runs, the environment and the API server interleave between them.   *)
(*                                                                         *)
(* A call that changes the object can end in four ways: accepted, rejected *)
(* by a test, lost (an error is reported, whether the patch took effect or *)
(* not) and delayed (an error is reported and the patch may land later).   *)
(***************************************************************************)
EXTENDS TargetObject

CONSTANTS
    Attempts,     \* iterations of the loops of acquire and apply (5 in the code)
    MaxFaults,    \* bound on calls and file writes that fail for no modelled reason
    MaxLates,     \* bound on patches that outlive their client
    MaxCrashes,   \* bound on runs killed without a chance to clean up
    ForceResult,  \* request.force_output: an existing result may be replaced
    CleanupFails, \* removing the staging directory may fail after publication
    SmokeEscapes  \* the health check may raise what no handler catches

ASSUME DeploymentAssumption ==
    /\ Attempts \in Nat \ {0}
    /\ MaxFaults \in Nat /\ MaxLates \in Nat /\ MaxCrashes \in Nat
    /\ ForceResult \in BOOLEAN /\ CleanupFails \in BOOLEAN /\ SmokeEscapes \in BOOLEAN

VARIABLES
    run,          \* the state of each execution
    journal,      \* <output>.recovery.json of each run
    result        \* <output> of each run

vars == <<obj, late, spent, run, journal, result>>

-----------------------------------------------------------------------------

(* Where a run is.  A label that names an operation stands before the patch; *)
(* the guarded body, its handler and its "finally" clause are told apart.    *)
Body == {"preflight", "acquire_read", "acquire", "acquire_check", "prepare",
         "prepared", "apply_read", "apply", "rollout", "smoke", "verify",
         "succeed", "stage", "confirm", "publish", "published"}
Recovery == {"restore_read", "restore_verify", "restore", "restore_rollout",
             "restore_confirm"}
Recording == {"record_failure", "publish_failure"}
Releasing == {"release_read", "release"}
Ended == {"done", "crashed"}
Labels == Body \cup Recovery \cup Recording \cup Releasing \cup Ended

(* kubectl calls that read or wait, and among them those that parse the object *)
Reads == {"acquire_read", "acquire_check", "apply_read", "verify", "confirm",
          "restore_read", "restore_verify", "restore_confirm", "release_read"}
Calls == Reads \cup {"preflight", "rollout", "restore_rollout"}

Statuses == {"prepared", "succeeded", "failed", "interrupted"}
Verdicts == {"none", "succeeded", "not-required", "skipped-conflict", "failed"}
Exits == {"none", "returned", "raised", "escaped", "release-failed", "unreleased"}

(* A journal or result: its status, the previous content, what became of it. *)
Record == [status : Statuses, previous : Content \cup {NoContent}, rollback : Verdicts]
NoRecord == [status |-> "none", previous |-> NoContent, rollback |-> "none"]

RunState == [pc : Labels, tries : 0 .. (Attempts - 1), uid : Nat, attempted : BOOLEAN,
             seen : Snapshot, original : Content \cup {NoContent},
             mutated : BOOLEAN, restored : BOOLEAN, recovering : BOOLEAN,
             status : Statuses, rollback : Verdicts, exit : Exits]

Unread == [rv |-> 0, audit |-> Base.audit, extra |-> BaseExtra]

Init ==
    /\ ObjectInit
    /\ run = [r \in Runs |->
                [pc |-> "preflight", tries |-> 0, uid |-> 0, attempted |-> FALSE,
                 seen |-> Unread, original |-> NoContent,
                 mutated |-> FALSE, restored |-> FALSE, recovering |-> FALSE, status |-> "prepared",
                 rollback |-> "none", exit |-> "none"]]
    /\ journal = [r \in Runs |-> NoRecord]
    /\ result = [r \in Runs |-> NoRecord]

-----------------------------------------------------------------------------
(* How a run goes on.  Each operator maps the run's state to the next one. *)

At(r, label) == run[r].pc = label

Becomes(r, s) == run' = [run EXCEPT ![r] = s]

(* acquire() and apply() are left: what they read and their loop counters go. *)
Left(s) == [s EXCEPT !.seen = Unread, !.tries = 0]

(* Mutant: only a deployment that succeeded gives its lock back. *)
FinallyOnSuccess(s, exit) ==
    [s EXCEPT !.pc = IF s.attempted /\ exit = "returned" THEN "release_read" ELSE "done",
              !.exit = exit]

(* The "finally" clause: release() returns at once if no lock was attempted. *)
Finally(s, exit) ==
    [s EXCEPT !.pc = IF s.attempted THEN "release_read" ELSE "done", !.exit = exit]

(* Mutant: signals are not masked while a deployment recovers. *)
HandledUnmasked(s, status) ==
    [Left(s) EXCEPT !.pc = IF s.mutated THEN "restore_read" ELSE "record_failure",
                    !.status = status]

(* The "except" clause: a second signal is ignored from here on, and what *)
(* may have been mutated is restored before the failure is recorded.      *)
Handled(s, status) ==
    [Left(s) EXCEPT !.pc = IF s.mutated THEN "restore_read" ELSE "record_failure",
              !.recovering = TRUE, !.status = status]

RollbackEnds(s, verdict) ==
    [s EXCEPT !.pc = "record_failure", !.rollback = verdict]

(* Mutant: release() swallows its errors always. *)
UnreleasedQuietly(s) == [s EXCEPT !.pc = "done"]

(* release() swallows its errors when another exception is in flight: *)
(* then the caller sees that one, and the lock may stay.              *)
Unreleased(s) ==
    [s EXCEPT !.pc = "done",
              !.exit = IF @ = "returned" THEN "release-failed" ELSE "unreleased"]

(* DeploymentConflict, and any other expected error, raised at s.pc *)
Conflicted(s) ==
    IF s.pc \in Recovery THEN RollbackEnds(s, "skipped-conflict")
                         ELSE Handled(s, "failed")
Failed(s) ==
    CASE s.pc \in Recovery  -> RollbackEnds(s, "failed")
      [] s.pc \in Releasing -> Unreleased(s)
      [] OTHER              -> Handled(s, "failed")

(* A patch raised CalledProcessError: acquire and apply start their loop *)
(* again while attempts remain, restore calls it a conflict.             *)
Retried(s, label) ==
    IF s.tries + 1 < Attempts
      THEN [s EXCEPT !.pc = label, !.tries = @ + 1]
      ELSE Handled(s, "failed")

(* Mutant: a rollback patch that fails is taken for one that was not needed. *)
CallErredTrusting(s) ==
    CASE s.pc = "acquire" -> Retried(s, "acquire_read")
      [] s.pc = "apply"   -> Retried(s, "apply_read")
      [] s.pc = "restore" -> RollbackEnds(s, "not-required")
      [] s.pc = "release" -> Failed(s)

CallErred(s) ==
    CASE s.pc = "acquire" -> Retried(s, "acquire_read")
      [] s.pc = "apply"   -> Retried(s, "apply_read")
      [] s.pc = "restore" -> Conflicted(s)
      [] s.pc = "release" -> Failed(s)

(* The patch was reported as done. *)
Patched(s) ==
    CASE s.pc = "acquire" -> [Left(s) EXCEPT !.pc = "acquire_check"]
      [] s.pc = "apply"   -> [Left(s) EXCEPT !.pc = "rollout"]
      [] s.pc = "restore" -> [s EXCEPT !.pc = "restore_rollout", !.restored = TRUE]
      [] s.pc = "release" -> [s EXCEPT !.pc = "done"]

(* What the guard expects to find: its own deployment, or after a *)
(* rollback the original content.                                 *)
Expected(r) ==
    IF run[r].restored THEN run[r].original ELSE Deployed(r, run[r].original)

(* The request a run sends at its patch labels. *)
PatchOf(r) == [op |-> run[r].pc, run |-> r, uid |-> run[r].uid,
               seen |-> run[r].seen, from |-> run[r].original]

Seen == [rv |-> obj.rv, audit |-> obj.content.audit, extra |-> obj.extra]

Fault == /\ spent.faults < MaxFaults /\ Spare
         /\ spent' = [spent EXCEPT !.faults = @ + 1]

Conflict(r) == Becomes(r, Conflicted(run[r]))

-----------------------------------------------------------------------------
(* The workflow, in the order of _deploy. *)

(* "auth can-i": the answer may be no. *)
Preflight(r) ==
    /\ At(r, "preflight")
    /\ \/ Becomes(r, [run[r] EXCEPT !.pc = "acquire_read"])
       \/ Becomes(r, Failed(run[r]))
    /\ UNCHANGED <<obj, late, spent, journal, result>>

(* A lock this run holds already (a lost response), a lock of somebody *)
(* else, or no lock: then it is claimed on the version just read.      *)
AcquireRead(r) ==
    /\ At(r, "acquire_read") /\ Readable
    /\ \/ /\ OwnedBy(r, run[r].uid)
          /\ Becomes(r, [Left(run[r]) EXCEPT !.pc = "prepare", !.original = obj.content])
       \/ /\ obj.lock # NoRun /\ ~OwnedBy(r, run[r].uid)
          /\ Becomes(r, Failed(run[r]))
       \/ /\ obj.lock = NoRun
          /\ Becomes(r, [run[r] EXCEPT !.pc = "acquire", !.uid = obj.uid,
                                       !.attempted = TRUE, !.seen = Seen])
    /\ UNCHANGED <<obj, late, spent, journal, result>>

AcquireCheck(r) ==
    /\ At(r, "acquire_check") /\ Readable
    /\ IF OwnedBy(r, run[r].uid)
         THEN Becomes(r, [run[r] EXCEPT !.pc = "prepare", !.original = obj.content])
         ELSE Conflict(r)
    /\ UNCHANGED <<obj, late, spent, journal, result>>

Journal(r, status, rollback) ==
    journal' = [journal EXCEPT ![r] = [status |-> status, rollback |-> rollback,
                                       previous |-> run[r].original]]

Publish(r, status, rollback) ==
    result' = [result EXCEPT ![r] = [status |-> status, rollback |-> rollback,
                                     previous |-> run[r].original]]

(* The recovery journal is on disk before anything is mutated. *)
Prepare(r) ==
    /\ At(r, "prepare")
    /\ Journal(r, "prepared", "none")
    /\ Becomes(r, [run[r] EXCEPT !.pc = "prepared"])
    /\ UNCHANGED <<obj, late, spent, result>>

(* Mutant: the handler never learns that the object may have been mutated. *)
MarkNothing(r) ==
    /\ At(r, "prepared")
    /\ Becomes(r, [run[r] EXCEPT !.pc = "apply_read"])
    /\ UNCHANGED <<obj, late, spent, journal, result>>

MarkMutation(r) ==
    /\ At(r, "prepared")
    /\ Becomes(r, [run[r] EXCEPT !.pc = "apply_read", !.mutated = TRUE])
    /\ UNCHANGED <<obj, late, spent, journal, result>>

(* The pod template and the audit keys are still those that were journaled. *)
ApplyRead(r) ==
    /\ At(r, "apply_read") /\ Readable
    /\ IF OwnedBy(r, run[r].uid) /\ SameContent(obj.content, run[r].original)
         THEN Becomes(r, [run[r] EXCEPT !.pc = "apply", !.seen = Seen])
         ELSE Conflict(r)
    /\ UNCHANGED <<obj, late, spent, journal, result>>

(* "rollout status" and the smoke test report on pods, not on the object. *)
Rollout(r) ==
    /\ At(r, "rollout")
    /\ \/ Becomes(r, [run[r] EXCEPT !.pc = "smoke"])
       \/ Becomes(r, Failed(run[r]))
    /\ UNCHANGED <<obj, late, spent, journal, result>>

Smoke(r) ==
    /\ At(r, "smoke")
    /\ \/ Becomes(r, [run[r] EXCEPT !.pc = "verify"])
       \/ Becomes(r, Failed(run[r]))
       \/ SmokeEscapes /\ Becomes(r, Finally(run[r], "escaped"))
    /\ UNCHANGED <<obj, late, spent, journal, result>>

(* guard.verify(), at its four places *)
Verified(r, label, next) ==
    /\ At(r, label) /\ Readable
    /\ IF OwnedBy(r, run[r].uid) /\ SameContent(obj.content, Expected(r))
         THEN Becomes(r, next)
         ELSE Conflict(r)
    /\ UNCHANGED <<obj, late, spent, journal, result>>

Verify(r) == Verified(r, "verify", [run[r] EXCEPT !.pc = "succeed"])

(* Mutant: the success checkpoint is skipped. *)
SucceedUnrecorded(r) ==
    /\ At(r, "succeed")
    /\ Becomes(r, [run[r] EXCEPT !.pc = "stage"])
    /\ UNCHANGED <<obj, late, spent, journal, result>>

Succeed(r) ==
    /\ At(r, "succeed")
    /\ Journal(r, "succeeded", "none")
    /\ Becomes(r, [run[r] EXCEPT !.pc = "stage"])
    /\ UNCHANGED <<obj, late, spent, result>>

(* Mutant: the success transaction can still be interrupted. *)
StageUnmasked(r) ==
    /\ At(r, "stage")
    /\ Becomes(r, [run[r] EXCEPT !.pc = "confirm"])
    /\ UNCHANGED <<obj, late, spent, journal, result>>

(* Signals are ignored from here on; the result is staged and signed. *)
Stage(r) ==
    /\ At(r, "stage")
    /\ Becomes(r, [run[r] EXCEPT !.pc = "confirm", !.recovering = TRUE])
    /\ UNCHANGED <<obj, late, spent, journal, result>>

Confirm(r) == Verified(r, "confirm", [run[r] EXCEPT !.pc = "publish"])

PublishSuccess(r) ==
    /\ At(r, "publish")
    /\ Publish(r, "succeeded", "none")
    /\ Becomes(r, [run[r] EXCEPT !.pc = "published"])
    /\ UNCHANGED <<obj, late, spent, journal>>

(* The staging directory is removed once the result is linked; an error *)
(* there is an error of persist().                                      *)
Cleanup(r) ==
    /\ At(r, "published")
    /\ \/ Becomes(r, Finally(run[r], "returned")) /\ UNCHANGED spent
       \/ CleanupFails /\ Fault /\ Becomes(r, Failed(run[r]))
    /\ UNCHANGED <<obj, late, journal, result>>

-----------------------------------------------------------------------------
(* The handler. *)

(* restore() finds its own deployment, or nothing to undo. *)
RestoreRead(r) ==
    /\ At(r, "restore_read") /\ Readable
    /\ IF OwnedBy(r, run[r].uid)
         THEN IF SameContent(obj.content, run[r].original)
                THEN Becomes(r, RollbackEnds(run[r], "not-required"))
                ELSE Becomes(r, [run[r] EXCEPT !.pc = "restore_verify"])
         ELSE Conflict(r)
    /\ UNCHANGED <<obj, late, spent, journal, result>>

RestoreVerify(r) == Verified(r, "restore_verify", [run[r] EXCEPT !.pc = "restore"])

RestoreRollout(r) ==
    /\ At(r, "restore_rollout")
    /\ \/ Becomes(r, [run[r] EXCEPT !.pc = "restore_confirm"])
       \/ Becomes(r, Failed(run[r]))
    /\ UNCHANGED <<obj, late, spent, journal, result>>

RestoreConfirm(r) ==
    Verified(r, "restore_confirm", RollbackEnds(run[r], "succeeded"))

RecordFailure(r) ==
    /\ At(r, "record_failure")
    /\ \/ /\ Journal(r, run[r].status, run[r].rollback)
          /\ Becomes(r, [run[r] EXCEPT !.pc = "publish_failure"])
          /\ UNCHANGED spent
       \/ /\ Fault
          /\ Becomes(r, Finally(run[r], "raised"))
          /\ UNCHANGED journal
    /\ UNCHANGED <<obj, late, result>>

(* A result that exists already is replaced only with force. *)
PublishFailure(r) ==
    /\ At(r, "publish_failure")
    /\ Becomes(r, Finally(run[r], "raised"))
    /\ \/ /\ result[r] = NoRecord \/ ForceResult
          /\ Publish(r, run[r].status, run[r].rollback)
          /\ UNCHANGED spent
       \/ /\ result[r] # NoRecord /\ ~ForceResult
          /\ UNCHANGED <<result, spent>>
       \/ Fault /\ UNCHANGED result
    /\ UNCHANGED <<obj, late, journal>>

-----------------------------------------------------------------------------
(* The "finally" clause: never clear another execution's lock. *)

ReleaseRead(r) ==
    /\ At(r, "release_read") /\ Readable
    /\ Becomes(r, [run[r] EXCEPT !.pc = IF OwnedBy(r, run[r].uid)
                                          THEN "release" ELSE "done"])
    /\ UNCHANGED <<obj, late, spent, journal, result>>

-----------------------------------------------------------------------------
(* The four patches. *)

PatchAnswered(r) ==
    /\ run[r].pc \in Operations
    /\ Receive(PatchOf(r))
    /\ Becomes(r, IF Passes(PatchOf(r)) THEN Patched(run[r]) ELSE CallErred(run[r]))
    /\ UNCHANGED <<late, spent, journal, result>>

(* An error is reported, as a failed command or as a timeout, and the *)
(* request was processed or never arrived.                            *)
PatchLost(r) ==
    /\ run[r].pc \in Operations
    /\ Fault
    /\ Receive(PatchOf(r)) \/ UNCHANGED obj
    /\ \/ Becomes(r, CallErred(run[r]))
       \/ Becomes(r, Failed(run[r]))
    /\ UNCHANGED <<late, journal, result>>

Interruptible(r) == ~run[r].recovering /\ run[r].pc \notin Ended

(* The first SIGINT or SIGTERM, raised wherever the run is. *)
Interrupted(s) ==
    IF s.pc \in Releasing THEN [s EXCEPT !.pc = "done", !.recovering = TRUE]
                          ELSE Handled(s, "interrupted")

(* The client is gone, the request is not. *)
PatchDelayed(r) ==
    /\ run[r].pc \in Operations
    /\ spent.lates < MaxLates /\ Spare
    /\ spent' = [spent EXCEPT !.lates = @ + 1]
    /\ late' = late \cup {PatchOf(r)}
    /\ \/ Becomes(r, CallErred(run[r]))
       \/ Becomes(r, Failed(run[r]))
       \/ Interruptible(r) /\ Becomes(r, Interrupted(run[r]))
    /\ UNCHANGED <<obj, journal, result>>

-----------------------------------------------------------------------------
(* What can go wrong anywhere. *)

Interrupt(r) ==
    /\ Interruptible(r)
    /\ Becomes(r, Interrupted(run[r]))
    /\ UNCHANGED <<obj, late, spent, journal, result>>

(* A kubectl call fails or times out. *)
CallFails(r) ==
    /\ run[r].pc \in Calls
    /\ Fault
    /\ Becomes(r, Failed(run[r]))
    /\ UNCHANGED <<obj, late, journal, result>>

(* The object has no digest-pinned image: parse_deployment_state refuses it. *)
ReadRefused(r) ==
    /\ run[r].pc \in Reads /\ ~Readable
    /\ Becomes(r, Failed(run[r]))
    /\ UNCHANGED <<obj, late, spent, journal, result>>

(* A journal or a result cannot be written, signed or published. *)
WriteFails(r) ==
    /\ run[r].pc \in {"prepare", "succeed", "stage", "publish"}
    /\ Fault
    /\ Becomes(r, Failed(run[r]))
    /\ UNCHANGED <<obj, late, journal, result>>

(* SIGKILL or power loss *)
Crash(r) ==
    /\ run[r].pc \notin Ended
    /\ spent.crashes < MaxCrashes /\ Spare
    /\ spent' = [spent EXCEPT !.crashes = @ + 1]
    /\ Becomes(r, [run[r] EXCEPT !.pc = "crashed"])
    /\ UNCHANGED <<obj, late, journal, result>>

(* The runbook: once a run is known to be dead its lock is removed by hand. *)
OperatorUnlocks(r) ==
    /\ run[r].pc \in Ended /\ obj.lock = r
    /\ OutsideWrite([obj EXCEPT !.lock = NoRun])
    /\ UNCHANGED <<late, spent, run, journal, result>>

Workflow(r) ==
    \/ Preflight(r) \/ AcquireRead(r) \/ AcquireCheck(r) \/ Prepare(r)
    \/ MarkMutation(r) \/ ApplyRead(r) \/ Rollout(r) \/ Smoke(r) \/ Verify(r)
    \/ Succeed(r) \/ Stage(r) \/ Confirm(r) \/ PublishSuccess(r) \/ Cleanup(r)
    \/ RestoreRead(r) \/ RestoreVerify(r) \/ RestoreRollout(r)
    \/ RestoreConfirm(r) \/ RecordFailure(r) \/ PublishFailure(r)
    \/ ReleaseRead(r) \/ PatchAnswered(r) \/ ReadRefused(r)

Mishap(r) ==
    \/ PatchLost(r) \/ PatchDelayed(r) \/ Interrupt(r) \/ CallFails(r)
    \/ WriteFails(r) \/ Crash(r)

Next ==
    \/ \E r \in Runs : Workflow(r) \/ Mishap(r) \/ OperatorUnlocks(r)
    \/ Environment /\ UNCHANGED <<run, journal, result>>

Spec == Init /\ [][Next]_vars

(* Every call has a timeout and every loop a bound, so a run that is not *)
(* killed keeps taking steps of its own; nothing else has to happen.     *)
FairSpec == Spec /\ \A r \in Runs : WF_vars(Workflow(r) \/ Mishap(r))
-----------------------------------------------------------------------------
(* Properties *)

TypeOK ==
    /\ obj \in Object
    /\ late \in SUBSET Request
    /\ spent \in Spent
    /\ run \in [Runs -> RunState]
    /\ journal \in [Runs -> Record \cup {NoRecord}]
    /\ result \in [Runs -> Record \cup {NoRecord}]

(* A run that has acquired the target and has not ended. *)
Owning(r) == run[r].original # NoContent /\ run[r].pc \notin Ended

(* Mutual exclusion (DeploymentGuard.acquire and release): as long as nobody *)
(* strips a lock or recreates the object, the lock annotation names every    *)
(* run between its acquisition and its end, so there is one at most.         *)
LockHeld ==
    spent.meddles = 0 => \A r \in Runs : Owning(r) => OwnedBy(r, run[r].uid)

(* Runs write only what they own: the annotations of controllers survive    *)
(* every patch, also the one of acquire() that rewrites the whole map, and   *)
(* a run takes the lock from nobody and gives up no lock but its own.        *)
ForeignStateKept ==
    [][\A r \in Runs :
         (obj'.rv # obj.rv /\ obj'.actor = r) =>
            /\ obj'.extra = obj.extra
            /\ obj'.uid = obj.uid
            /\ obj'.lock # obj.lock => {obj.lock, obj'.lock} = {NoRun, r}]_vars

(* A result is published after the journal that describes it, so whoever    *)
(* recovers from the journal never knows less than the result says.         *)
JournalNotBehind ==
    \A r \in Runs : result[r] # NoRecord => journal[r] = result[r]

(* deployment.py:362-363, "recovery must never contradict that record": once *)
(* success is published the run does not write the content again.            *)
SuccessStands ==
    [][\A r \in Runs :
         (result[r].status = "succeeded" /\ obj'.rv # obj.rv /\ obj'.actor = r)
            => obj'.content = obj.content]_vars

(* Success is published for what is deployed: until the run ends, and unless *)
(* an outside actor wrote the object, the content is this run's deployment   *)
(* and was never rolled back behind the record.                              *)
SuccessHolds ==
    \A r \in Runs :
        /\ result[r].status = "succeeded" /\ run[r].pc \in Releasing
        /\ spent.edits = 0 /\ spent.meddles = 0
        => obj.content = Deployed(r, run[r].original)

(* deployment_guard.py:261, "The failed mutation never reached the API       *)
(* server", and RestoreConfirm: when a run has ended and its record claims    *)
(* that there was nothing to roll back, or that the rollback succeeded, its   *)
(* deployment is not the one in place.                                        *)
RollbackTruthful ==
    \A r \in Runs :
        /\ run[r].pc = "done"
        /\ result[r].rollback \in {"not-required", "succeeded"}
        => obj.content.by # r

(* A run leaves its deployment in place only if it published success, if its  *)
(* record (or its exit, when records cannot be written) says the rollback did *)
(* not happen, or if it was killed: nothing is mutated silently.              *)
NoSilentMutation ==
    \A r \in Runs :
        (run[r].pc = "done" /\ obj.content.by = r) =>
            \/ result[r].status = "succeeded"
            \/ run[r].rollback \in {"failed", "skipped-conflict"}

(* deploy() returns normally only after its lock is gone from the object, and *)
(* no delayed request of its own brings the lock back.                        *)
ReturnMeansUnlocked ==
    \A r \in Runs : run[r].exit = "returned" /\ run[r].pc = "done" => obj.lock # r

(* Every run that is not killed ends, whatever fails and whoever interferes:  *)
(* calls are bounded by timeouts, retries by Attempts, recovery by itself.    *)
Termination == \A r \in Runs : <>(run[r].pc \in Ended)

(* A run that holds the lock does not keep it, whatever reply was lost and    *)
(* whichever claim came late, unless the run itself was killed, its own       *)
(* release() failed (the error is raised, or swallowed under another one), or *)
(* it left _deploy with an error that no handler catches, which leaves signals *)
(* unmasked, and one ended release().  A claim that lands only after its run  *)
(* has ended is left for an operator: nobody waits for it any more.           *)
LockFreed ==
    \A r \in Runs :
        (obj.lock = r /\ run[r].pc \notin Ended) ~>
            \/ obj.lock # r
            \/ run[r].pc = "crashed"
            \/ run[r].exit \in {"release-failed", "unreleased"}
            \/ run[r].exit = "escaped" /\ run[r].recovering

(* What the object is promised, as GuardedChange states it. *)
Guarded == INSTANCE GuardedChange WITH
    owner <- obj.lock, content <- obj.content, actor <- obj.actor,
    undo <- [r \in Runs |-> journal[r].previous]

Promise == Guarded!Spec
=============================================================================
