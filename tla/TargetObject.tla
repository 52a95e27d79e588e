---------------------------- MODULE TargetObject ----------------------------
(***************************************************************************)
(* The Kubernetes Deployment object that FinGuard releases into, as        *)
(* finguard/deployment_guard.py sees it, and everybody who writes it: the  *)
(* JSON Patch requests of deployment runs, and the actors that know        *)
(* nothing of FinGuard (controllers, other tools, operators).              *)
(*                                                                         *)
(* The API server evaluates one JSON Patch atomically: either all of its   *)
(* "test" operations hold and every other operation takes effect, or the   *)
(* object is left alone.  The reply is another matter, see Deployment.     *)
(***************************************************************************)
EXTENDS Naturals, FiniteSets

CONSTANTS
    Runs,        \* executions of "finguard deploy" against this object
    NoRun,       \* the lock annotation is absent
    Outside,     \* any actor that is not a deployment run
    Images,      \* digest-pinned image references
    Unpinned,    \* an image reference without a digest
    Rests,       \* the pod template apart from the deployed image
    Audits,      \* values of the three audit annotations, taken together
    Extras,      \* every other annotation, taken together
    Base,        \* the content before the first run
    BaseExtra,   \* the other annotations before the first run
    ImageOf,     \* the image a run was asked to deploy
    AuditOf,     \* the audit annotations a run derives from its evidence
    MaxEdits,    \* bound on writes by outside actors that respect the lock
    MaxMeddles,  \* bound on writes by outside actors that destroy the lock
    MaxTroubles  \* bound on everything that goes wrong, of any kind

VARIABLES
    obj,         \* the object in the API server
    late,        \* patch requests whose client gave up but which may still land
    spent        \* how much of each bound has been used

-----------------------------------------------------------------------------

(* What a run deploys, restores and compares: pod template and audit keys. *)
(* The field "by" is history: the run whose deployment the content is.     *)
Content == [img : Images \cup {Unpinned}, rest : Rests, audit : Audits,
            by : Runs \cup {Outside}]

NoContent == [img |-> Unpinned, rest |-> "none", audit |-> "none", by |-> Outside]

Object == [uid : Nat \ {0}, rv : Nat, lock : Runs \cup {NoRun},
           content : Content, extra : Extras, actor : Runs \cup {Outside}]

(* The part of a read that a later patch of the same run tests or rewrites. *)
Snapshot == [rv : Nat, audit : Audits, extra : Extras]

Operations == {"acquire", "apply", "restore", "release"}

Request == [op : Operations, run : Runs, uid : Nat, seen : Snapshot,
            from : Content \cup {NoContent}]

Spent == [faults : Nat, lates : Nat, edits : Nat, meddles : Nat, crashes : Nat]

ASSUME TargetAssumption ==
    /\ NoRun \notin Runs
    /\ Outside \notin Runs
    /\ Unpinned \notin Images
    /\ "none" \notin Rests
    /\ ImageOf \in [Runs -> Images]
    /\ AuditOf \in [Runs -> Audits]
    /\ Base \in Content
    /\ Base.by = Outside
    /\ BaseExtra \in Extras
    /\ MaxEdits \in Nat
    /\ MaxMeddles \in Nat
    /\ MaxTroubles \in Nat

-----------------------------------------------------------------------------

(* parse_deployment_state accepts the object: the image has a digest. *)
Readable == obj.content.img \in Images

SameTemplate(c, d) == c.img = d.img /\ c.rest = d.rest

(* Equality of everything the guard compares; history is not compared. *)
SameContent(c, d) == SameTemplate(c, d) /\ c.audit = d.audit

(* The content after run r has put its image and audit keys over c; if that *)
(* changes nothing it is still the deployment of whoever made it.           *)
Deployed(r, c) ==
    IF c.img = ImageOf[r] /\ c.audit = AuditOf[r] THEN c
    ELSE [c EXCEPT !.img = ImageOf[r], !.audit = AuditOf[r], !.by = r]

(* The lock annotation names r on the object r first saw. *)
OwnedBy(r, uid) == obj.uid = uid /\ obj.lock = r

(* Mutants: a patch that lacks one of its tests. *)
VersionIgnored(q) == TRUE
DeploymentIgnored(q) == TRUE

(* The "test" operations of each patch of deployment_guard.py.  Each of    *)
(* them tests the uid; what it tests besides depends on the operation.     *)
VersionUnchanged(q) == obj.rv = q.seen.rv

LockIsMine(q) == obj.lock = q.run

BaseUnchanged(q) ==
    /\ SameTemplate(obj.content, q.from)
    /\ obj.content.audit = q.seen.audit
    /\ obj.extra = q.seen.extra

DeploymentUntouched(q) == SameContent(obj.content, Deployed(q.run, q.from))

Passes(q) ==
    /\ obj.uid = q.uid
    /\ IF q.op = "acquire" THEN VersionUnchanged(q) ELSE LockIsMine(q)
    /\ q.op = "apply" => BaseUnchanged(q)
    /\ q.op = "restore" => DeploymentUntouched(q)

(* Its other operations.  "acquire" rewrites the whole annotation map from *)
(* what was read, the others touch only the keys they name.                *)
Written(q) ==
    CASE q.op = "acquire" -> [obj EXCEPT !.lock = q.run,
                                         !.content.audit = q.seen.audit,
                                         !.extra = q.seen.extra]
      [] q.op = "apply"   -> [obj EXCEPT !.content = Deployed(q.run, @)]
      [] q.op = "restore" -> [obj EXCEPT !.content.img = q.from.img,
                                         !.content.audit = q.from.audit,
                                         !.content.by = q.from.by]
      [] q.op = "release" -> [obj EXCEPT !.lock = NoRun]

Effect(q) == [Written(q) EXCEPT !.rv = @ + 1, !.actor = q.run]

(* The API server receives q: all of it takes effect, or none. *)
Receive(q) == obj' = IF Passes(q) THEN Effect(q) ELSE obj

-----------------------------------------------------------------------------

(* Another trouble may still happen. *)
Spare == spent.faults + spent.lates + spent.edits + spent.meddles + spent.crashes < MaxTroubles

OutsideWrite(o) == obj' = [o EXCEPT !.rv = obj.rv + 1, !.actor = Outside]

(* A controller updates the status or an annotation of its own. *)
ControllerWrites ==
    /\ spent.edits < MaxEdits /\ Spare
    /\ \E e \in Extras : OutsideWrite([obj EXCEPT !.extra = e])
    /\ spent' = [spent EXCEPT !.edits = @ + 1]
    /\ UNCHANGED late

(* Another tool changes the pod template or an audit key, lock or no lock. *)
ToolEdits ==
    /\ spent.edits < MaxEdits /\ Spare
    /\ \E i \in Images \cup {Unpinned}, t \in Rests, a \in Audits :
         LET c == [img |-> i, rest |-> t, audit |-> a, by |-> Outside]
         IN  /\ ~SameContent(c, obj.content)
             /\ OutsideWrite([obj EXCEPT !.content = c])
    /\ spent' = [spent EXCEPT !.edits = @ + 1]
    /\ UNCHANGED late

(* Somebody strips the lock annotation of whoever holds it. *)
LockStripped ==
    /\ spent.meddles < MaxMeddles /\ Spare
    /\ obj.lock # NoRun
    /\ OutsideWrite([obj EXCEPT !.lock = NoRun])
    /\ spent' = [spent EXCEPT !.meddles = @ + 1]
    /\ UNCHANGED late

(* The object is deleted and created again: another uid, no annotations. *)
Recreated ==
    /\ spent.meddles < MaxMeddles /\ Spare
    /\ OutsideWrite([obj EXCEPT !.uid = @ + 1, !.lock = NoRun,
                                !.content = Base, !.extra = BaseExtra])
    /\ spent' = [spent EXCEPT !.meddles = @ + 1]
    /\ UNCHANGED late

(* A request whose client no longer waits for it reaches the API server. *)
LateArrival(q) ==
    /\ q \in late
    /\ Receive(q)
    /\ late' = late \ {q}
    /\ UNCHANGED spent

Environment ==
    \/ ControllerWrites
    \/ ToolEdits
    \/ LockStripped
    \/ Recreated
    \/ \E q \in late : LateArrival(q)

ObjectInit ==
    /\ obj = [uid |-> 1, rv |-> 0, lock |-> NoRun, content |-> Base,
              extra |-> BaseExtra, actor |-> Outside]
    /\ late = {}
    /\ spent = [faults |-> 0, lates |-> 0, edits |-> 0, meddles |-> 0, crashes |-> 0]
=============================================================================
