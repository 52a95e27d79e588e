------------------------- MODULE DeploymentRecords -------------------------
(***************************************************************************)
(* The files of a deployment: the reservations, the recovery journal and   *)
(* the staged publication of the signed result in                          *)
(* finguard/deployment_records.py, driven as _deploy drives them.          *)
(* Runs share the file system with each other and with writers that know   *)
(* nothing of reservations.  Every system call that others can see is one  *)
(* step; what happens between two of them is not theirs to see.            *)
(***************************************************************************)
EXTENDS Naturals

CONSTANTS
    Runs,            \* executions of "finguard deploy", on any target
    Nobody,          \* the reservation directory does not exist
    Outside,         \* a writer that takes no reservations
    Paths,           \* file names, as numbers in the order of sorted()
    OutputOf,        \* --output of a run
    JournalOf,       \* <output>.recovery.json
    BundleOf,        \* the signature bundle
    Forced,          \* the runs with --force-result
    MaxFaults,       \* bound on system calls and signatures that fail
    MaxSignals,      \* bound on SIGINT and SIGTERM
    MaxCrashes,      \* bound on runs killed
    MaxWrites        \* bound on files created by outside writers

VARIABLES
    files,           \* the file at each path
    reserved,        \* who made .<name>.finguard-lock for each path
    run,             \* the state of each execution
    spent            \* how much of each bound has been used

vars == <<files, reserved, run, spent>>

ASSUME RecordsAssumption ==
    /\ Nobody \notin Runs /\ Outside \notin Runs
    /\ Paths \subseteq Nat
    /\ OutputOf \in [Runs -> Paths] /\ JournalOf \in [Runs -> Paths]
    /\ BundleOf \in [Runs -> Paths]
    /\ \A r \in Runs : /\ OutputOf[r] # JournalOf[r]
                       /\ OutputOf[r] # BundleOf[r]
                       /\ JournalOf[r] # BundleOf[r]
    /\ Forced \subseteq Runs
    /\ MaxFaults \in Nat /\ MaxSignals \in Nat /\ MaxCrashes \in Nat
    /\ MaxWrites \in Nat

-----------------------------------------------------------------------------

(* A file: who wrote it, what it is, and which call of persist() staged it:  *)
(* 0 the plan of a dry run, 1 a success, 2 a failure (for a journal: what    *)
(* had been staged by then).  A name and a number are the identity that      *)
(* samefile() compares.                                                      *)
Kinds == {"journal", "result", "signature", "other"}
File == [by : Runs \cup {Outside}, kind : Kinds, n : 0 .. 2]
Absent == [by |-> Nobody, kind |-> "none", n |-> 0]

PathsOf(r) == {OutputOf[r], JournalOf[r], BundleOf[r]}

Entering == {"reserve", "register", "examine"}
Publishing == {"stage", "recheck", "link_bundle", "link_output", "samefile", "unlink",
               "unstage"}
Working == {"admit", "mutate", "record"} \cup Publishing
Ended == {"done", "crashed"}
Labels == Entering \cup Working \cup {"release"} \cup Ended

RunState == [pc : Labels, locks : SUBSET Paths, n : 0 .. 2, mutated : BOOLEAN,
             recovering : BOOLEAN, broken : BOOLEAN, refusedBy : Runs \cup {Nobody}]

Spent == [faults : Nat, signals : Nat, crashes : Nat, writes : Nat]

Init ==
    /\ files \in [Paths -> {Absent, [by |-> Outside, kind |-> "other", n |-> 0]}]
    /\ reserved = [p \in Paths |-> Nobody]
    /\ run = [r \in Runs |-> [pc |-> "reserve", locks |-> {}, n |-> 0, mutated |-> FALSE,
                              recovering |-> FALSE, broken |-> FALSE, refusedBy |-> Nobody]]
    /\ spent = [faults |-> 0, signals |-> 0, crashes |-> 0, writes |-> 0]

-----------------------------------------------------------------------------

At(r, label) == run[r].pc = label

Becomes(r, s) == run' = [run EXCEPT ![r] = s]

Goes(r, label) == Becomes(r, [run[r] EXCEPT !.pc = label])

(* Mutant: the paths are reserved in any order. *)
AnyOf(p, names) == p \in names

(* The first of a set of names, and the last. *)
First(p, names) == p \in names /\ \A x \in names : p <= x
Last(p, names) == p \in names /\ \A x \in names : x <= p

Todo(r) == PathsOf(r) \ run[r].locks

Fault == /\ spent.faults < MaxFaults
         /\ spent' = [spent EXCEPT !.faults = @ + 1]

(* Signals are ignored while a success or a failure is published, but not  *)
(* while a dry run publishes its plan.                                     *)
Masked(s) == s.recovering \/ s.n # 0

(* persist() raised: a success that cannot be published becomes a failure, *)
(* a failure that cannot be published is only in the journal, and a plan   *)
(* that cannot be published is nowhere.                                    *)
Unpersisted(s) == [s EXCEPT !.pc = IF s.n = 1 THEN "record" ELSE "release",
                            !.recovering = Masked(s)]

(* A dry run publishes its plan: no handler of _deploy is around it. *)
Planning(s) == s.pc \in Publishing /\ s.n = 0

(* The handler of _deploy takes over. *)
Handled(s) == [s EXCEPT !.pc = "record", !.recovering = TRUE]

-----------------------------------------------------------------------------
(* __enter__: the reservations, in the order of the names. *)

(* Mutant: mkdir(exist_ok=True). *)
ReserveAnyway(r) ==
    /\ At(r, "reserve")
    /\ \E p \in Paths :
         /\ First(p, Todo(r))
         /\ reserved' = [reserved EXCEPT ![p] = r]
    /\ Goes(r, "register")
    /\ UNCHANGED <<files, spent>>

(* mkdir() of the reservation directory: it fails if anybody has it. *)
Reserve(r) ==
    /\ At(r, "reserve")
    /\ \E p \in Paths :
         /\ First(p, Todo(r))
         /\ \/ /\ reserved[p] = Nobody
               /\ reserved' = [reserved EXCEPT ![p] = r]
               /\ Goes(r, "register") /\ UNCHANGED spent
            \/ /\ reserved[p] # Nobody
               /\ Becomes(r, [run[r] EXCEPT !.pc = "release", !.refusedBy = reserved[p]])
               /\ UNCHANGED <<reserved, spent>>
            \/ Fault /\ Goes(r, "release") /\ UNCHANGED reserved
    /\ UNCHANGED files

(* The reservation is remembered, then owner.json is written into it. *)
Register(r) ==
    /\ At(r, "register")
    /\ \E p \in Paths :
         /\ First(p, Todo(r))
         /\ \/ /\ Becomes(r, [run[r] EXCEPT !.pc = "examine", !.locks = @ \cup {p}])
               /\ UNCHANGED spent
            \/ /\ Fault
               /\ Becomes(r, [run[r] EXCEPT !.pc = "release", !.locks = @ \cup {p}])
    /\ UNCHANGED <<files, reserved>>

(* Mutant: a run that finds a file leaves at once. *)
ExamineLeaving(r) ==
    /\ At(r, "examine")
    /\ \E p \in Paths :
         /\ Last(p, run[r].locks)
         /\ Goes(r, IF files[p] # Absent /\ r \notin Forced THEN "done"
                    ELSE IF Todo(r) = {} THEN "admit" ELSE "reserve")
    /\ UNCHANGED <<files, reserved, spent>>

(* What exists at the path is kept, unless it may be replaced. *)
Examine(r) ==
    /\ At(r, "examine")
    /\ \E p \in Paths :
         /\ Last(p, run[r].locks)
         /\ Goes(r, IF files[p] # Absent /\ r \notin Forced THEN "release"
                    ELSE IF Todo(r) = {} THEN "admit" ELSE "reserve")
    /\ UNCHANGED <<files, reserved, spent>>

-----------------------------------------------------------------------------
(* _deploy, as far as the records are concerned. *)

(* checkpoint(): atomic_write_text replaces the journal, or fails. *)
Checkpoint(r) ==
    files' = [files EXCEPT ![JournalOf[r]] =
                [by |-> r, kind |-> "journal", n |-> run[r].n]]

(* Mutant: a journal that cannot be written does not stop the mutation. *)
AdmitUnrecorded(r) ==
    /\ At(r, "admit")
    /\ \/ Goes(r, "release") /\ UNCHANGED <<files, spent>>
       \/ Goes(r, "stage") /\ UNCHANGED <<files, spent>>
       \/ Becomes(r, Handled(run[r])) /\ UNCHANGED <<files, spent>>
       \/ /\ (Checkpoint(r) /\ UNCHANGED spent) \/ (Fault /\ UNCHANGED files)
          /\ Becomes(r, [run[r] EXCEPT !.pc = "mutate", !.mutated = TRUE])
    /\ UNCHANGED reserved

(* The evidence is refused; or a dry run goes on to publish its plan; or    *)
(* the target cannot be prepared, or the journal says "prepared" and the   *)
(* target is mutated.                                                      *)
Admit(r) ==
    /\ At(r, "admit")
    /\ \/ Goes(r, "release") /\ UNCHANGED <<files, spent>>
       \/ Goes(r, "stage") /\ UNCHANGED <<files, spent>>
       \/ Becomes(r, Handled(run[r])) /\ UNCHANGED <<files, spent>>
       \/ /\ Checkpoint(r) /\ UNCHANGED spent
          /\ Becomes(r, [run[r] EXCEPT !.pc = "mutate", !.mutated = TRUE])
       \/ Fault /\ Becomes(r, Handled(run[r])) /\ UNCHANGED files
    /\ UNCHANGED reserved

(* The deployment succeeds, says so in the journal and goes on to publish *)
(* it; or it fails.                                                       *)
Mutate(r) ==
    /\ At(r, "mutate")
    /\ \/ /\ Checkpoint(r) /\ UNCHANGED spent
          /\ Becomes(r, [run[r] EXCEPT !.pc = "stage", !.n = 1])
       \/ Becomes(r, Handled(run[r])) /\ UNCHANGED <<files, spent>>
       \/ Fault /\ Becomes(r, Handled(run[r])) /\ UNCHANGED files
    /\ UNCHANGED reserved

(* The handler: the failure goes to the journal, then to the result. *)
RecordFailure(r) ==
    /\ At(r, "record")
    /\ \/ /\ Checkpoint(r) /\ UNCHANGED spent
          /\ Becomes(r, [run[r] EXCEPT !.pc = "stage", !.n = 2])
       \/ Fault /\ Goes(r, "release") /\ UNCHANGED files
    /\ UNCHANGED reserved

-----------------------------------------------------------------------------
(* persist(). *)

Step(r, label, next) ==
    /\ At(r, label)
    /\ \/ /\ Becomes(r, [run[r] EXCEPT !.pc = next, !.recovering = Masked(run[r])])
          /\ UNCHANGED spent
       \/ Fault /\ Becomes(r, Unpersisted(run[r]))
    /\ UNCHANGED <<files, reserved>>

(* But for a dry run, signals are ignored from here on at the latest; result *)
(* and signature are written to staging directories.                        *)
Stage(r) == Step(r, "stage", "recheck")

(* Signing may have taken long: the paths are looked at again, and a success *)
(* is confirmed by guard.verify().                                           *)
Recheck(r) ==
    \/ /\ r \in Forced \/ (files[OutputOf[r]] = Absent /\ files[BundleOf[r]] = Absent)
       /\ Step(r, "recheck", "link_bundle")
    \/ /\ At(r, "recheck")
       /\ r \notin Forced
       /\ files[OutputOf[r]] # Absent \/ files[BundleOf[r]] # Absent
       /\ Becomes(r, Unpersisted(run[r]))
       /\ UNCHANGED <<files, reserved, spent>>

(* Mutant: replace() always. *)
PublishReplacing(r, p, kind) ==
    files' = [files EXCEPT ![p] = [by |-> r, kind |-> kind, n |-> run[r].n]]

(* link() fails if the name is taken, replace() does not care. *)
Publish(r, p, kind) ==
    /\ files[p] = Absent \/ r \in Forced
    /\ files' = [files EXCEPT ![p] = [by |-> r, kind |-> kind, n |-> run[r].n]]

(* Mutant: a signature that is there already is taken for the right one. *)
LinkBundleLenient(r) ==
    /\ At(r, "link_bundle")
    /\ Goes(r, "link_output")
    /\ Publish(r, BundleOf[r], "signature") \/ (files[BundleOf[r]] # Absent /\ UNCHANGED files)
    /\ UNCHANGED <<reserved, spent>>

LinkBundle(r) ==
    /\ At(r, "link_bundle")
    /\ \/ Publish(r, BundleOf[r], "signature") /\ Goes(r, "link_output") /\ UNCHANGED spent
       \/ /\ files[BundleOf[r]] # Absent /\ r \notin Forced
          /\ Becomes(r, Unpersisted(run[r])) /\ UNCHANGED <<files, spent>>
       \/ Fault /\ Becomes(r, Unpersisted(run[r])) /\ UNCHANGED files
    /\ UNCHANGED reserved

(* Mutant: no cleanup after a failure. *)
LinkOutputUncleaned(r) ==
    /\ At(r, "link_output")
    /\ \/ Publish(r, OutputOf[r], "result") /\ Goes(r, "unstage")
       \/ /\ files[OutputOf[r]] # Absent /\ r \notin Forced
          /\ Becomes(r, Unpersisted(run[r])) /\ UNCHANGED files
    /\ UNCHANGED <<reserved, spent>>

(* The JSON comes last, as completion marker. *)
LinkOutput(r) ==
    LET failed == IF r \in Forced THEN Unpersisted(run[r])
                                  ELSE [run[r] EXCEPT !.pc = "samefile"]
    IN  /\ At(r, "link_output")
        /\ \/ Publish(r, OutputOf[r], "result") /\ Goes(r, "unstage") /\ UNCHANGED spent
           \/ /\ files[OutputOf[r]] # Absent /\ r \notin Forced
              /\ Becomes(r, failed) /\ UNCHANGED <<files, spent>>
           \/ Fault /\ Becomes(r, failed) /\ UNCHANGED files
        /\ UNCHANGED reserved

(* Without its JSON the signature goes, if it is the one just linked. *)
SameFile(r) ==
    /\ At(r, "samefile")
    /\ IF files[BundleOf[r]] = [by |-> r, kind |-> "signature", n |-> run[r].n]
         THEN Goes(r, "unlink")
         ELSE Becomes(r, Unpersisted(run[r]))
    /\ UNCHANGED <<files, reserved, spent>>

Unlink(r) ==
    /\ At(r, "unlink")
    /\ \/ /\ files' = [files EXCEPT ![BundleOf[r]] = Absent]
          /\ Becomes(r, Unpersisted(run[r]))
          /\ UNCHANGED spent
       \/ /\ Fault
          /\ Becomes(r, [Unpersisted(run[r]) EXCEPT !.broken = TRUE])
          /\ UNCHANGED files
    /\ UNCHANGED reserved

(* The staging directories are removed; an error there is one of persist(). *)
Unstage(r) == Step(r, "unstage", "release")

-----------------------------------------------------------------------------

(* _release: one reservation after the other, the last one first; an error *)
(* leaves the rest.                                                        *)
Release(r) ==
    /\ At(r, "release")
    /\ \/ run[r].locks = {} /\ Goes(r, "done") /\ UNCHANGED <<reserved, spent>>
       \/ \E p \in Paths :
            /\ Last(p, run[r].locks)
            /\ reserved' = [reserved EXCEPT ![p] = Nobody]
            /\ Becomes(r, [run[r] EXCEPT !.locks = @ \ {p}])
            /\ UNCHANGED spent
       \/ /\ run[r].locks # {} /\ Fault
          /\ Becomes(r, [run[r] EXCEPT !.pc = "done", !.broken = TRUE])
          /\ UNCHANGED reserved
    /\ UNCHANGED files

(* The first signal.  __enter__ releases what is in "locks" and raises, and  *)
(* so does __exit__ during the admission checks; then the handler of _deploy *)
(* takes over.  Between mkdir() and append(), and in _release, a signal      *)
(* leaves reservations behind.  A plan is published outside that handler:    *)
(* persist() is left, and where the signature is known to be linked and the  *)
(* JSON is not (a signal at "unstage" may come after link() but before       *)
(* published_output is set) its cleanup comes first.                         *)
Interrupt(r) ==
    /\ ~run[r].recovering /\ run[r].pc \notin Ended
    /\ spent.signals < MaxSignals
    /\ spent' = [spent EXCEPT !.signals = @ + 1]
    /\ \/ /\ run[r].pc \in Entering \cup {"admit"}
          /\ Becomes(r, [run[r] EXCEPT !.pc = "release", !.recovering = TRUE,
                                       !.broken = At(r, "register")])
       \/ /\ run[r].pc \in Working /\ ~Planning(run[r])
          /\ Becomes(r, Handled(run[r]))
       \/ /\ Planning(run[r])
          /\ Becomes(r, [run[r] EXCEPT !.pc = "release", !.recovering = TRUE])
       \/ /\ Planning(run[r]) /\ run[r].pc \in {"link_output", "unstage"} /\ r \notin Forced
          /\ Becomes(r, [run[r] EXCEPT !.pc = "samefile", !.recovering = TRUE])
       \/ /\ At(r, "release")
          /\ Becomes(r, [run[r] EXCEPT !.pc = "done", !.recovering = TRUE,
                                       !.broken = (run[r].locks # {})])
    /\ UNCHANGED <<files, reserved>>

(* SIGKILL or power loss *)
Crash(r) ==
    /\ run[r].pc \notin Ended
    /\ spent.crashes < MaxCrashes
    /\ spent' = [spent EXCEPT !.crashes = @ + 1]
    /\ Goes(r, "crashed")
    /\ UNCHANGED <<files, reserved>>

(* A writer without reservations creates a file where there is none. *)
OutsideWrites ==
    /\ spent.writes < MaxWrites
    /\ spent' = [spent EXCEPT !.writes = @ + 1]
    /\ \E p \in Paths :
         /\ files[p] = Absent
         /\ files' = [files EXCEPT ![p] = [by |-> Outside, kind |-> "other", n |-> 0]]
    /\ UNCHANGED <<reserved, run>>

Workflow(r) ==
    \/ Reserve(r) \/ Register(r) \/ Examine(r) \/ Admit(r) \/ Mutate(r)
    \/ RecordFailure(r) \/ Stage(r) \/ Recheck(r) \/ LinkBundle(r) \/ LinkOutput(r)
    \/ SameFile(r) \/ Unlink(r) \/ Unstage(r) \/ Release(r)

Next ==
    \/ \E r \in Runs : Workflow(r) \/ Interrupt(r) \/ Crash(r)
    \/ OutsideWrites

Spec == Init /\ [][Next]_vars

(* A run that is not killed keeps going: nothing in it waits for another. *)
FairSpec == Spec /\ \A r \in Runs : WF_vars(Workflow(r) \/ Interrupt(r) \/ Crash(r))

-----------------------------------------------------------------------------
(* Properties *)

TypeOK ==
    /\ files \in [Paths -> File \cup {Absent}]
    /\ reserved \in [Paths -> Runs \cup {Nobody}]
    /\ run \in [Runs -> RunState]
    /\ spent \in Spent

(* __enter__: two runs that share a path, in whatever role, never work at the *)
(* same time, with --force-result or without (operations-runbook.md:84).      *)
Exclusive ==
    \A r, q \in Runs :
        r # q /\ run[r].pc \in Working /\ run[q].pc \in Working
            => PathsOf(r) \cap PathsOf(q) = {}

(* __enter__, sorted(paths): of two runs that want the same paths one gets    *)
(* through; they never refuse each other.                                     *)
NoMutualRefusal ==
    \A r, q \in Runs : ~(run[r].refusedBy = q /\ run[q].refusedBy = r)

(* checkpoint() before the mutation: from the first mutation on, and after a  *)
(* crash until somebody clears the reservation, what the run would put back   *)
(* is on disk, and no other run overwrites it, not even by force.             *)
JournalKept ==
    \A r \in Runs :
        run[r].mutated /\ JournalOf[r] \in run[r].locks =>
            files[JournalOf[r]].by = r /\ files[JournalOf[r]].kind = "journal"

(* f belongs to the plan of a dry run that was interrupted: its publication   *)
(* is the one that a signal can cut anywhere, also between a link() and the   *)
(* assignment that remembers it.  Nothing that was mutated depends on it.     *)
Cut(r, f) == f.n = 0 /\ run[r].recovering

(* persist(), "publish the JSON last as completion marker": whenever the JSON *)
(* of an unforced run is there, so is the signature made for this very JSON,  *)
(* until a forced run takes its place.  This holds for the result of every    *)
(* deployment, and for the plan of a dry run unless a signal cut that run:    *)
(* then the cleanup of persist() may remove the signature of a published plan *)
(* (deployment_records.py:132-148).                                           *)
CompletionMarker ==
    \A r \in Runs \ Forced :
        files[OutputOf[r]].by = r =>
            \/ files[BundleOf[r]] = [by |-> r, kind |-> "signature", n |-> files[OutputOf[r]].n]
            \/ files[BundleOf[r]].by \in Forced
            \/ Cut(r, files[OutputOf[r]])

(* persist(), cleanup: a run that ends leaves no signature without its JSON,  *)
(* unless removing the signature failed as well, or a signal cut a dry run    *)
(* after link() of the signature and before published_bundle was set (lines   *)
(* 130-131); only a forced run may then replace the JSON and not the          *)
(* signature.                                                                 *)
NoOrphanSignature ==
    \A r \in Runs \ Forced :
        run[r].pc = "done" /\ ~run[r].broken /\ files[BundleOf[r]].by = r
            => files[OutputOf[r]].by \in {r} \cup Forced \/ Cut(r, files[BundleOf[r]])

(* persist() and _publish, "never a preexisting ... file owned by someone     *)
(* else" (deployment_records.py:137-138): whatever a run                       *)
(* without force finds at its result and signature paths it leaves there; of   *)
(* its own files it removes only a signature whose JSON is not published, or   *)
(* is the plan of an interrupted dry run.                                      *)
KeepsForeignFiles ==
    [][\A p \in Paths :
         files[p] # Absent /\ files'[p] # files[p] /\ run' # run =>
            \E r \in Runs :
                /\ run'[r] # run[r]
                /\ \/ r \in Forced /\ p \in PathsOf(r)
                   \/ p = JournalOf[r]
                   \/ /\ p = BundleOf[r] /\ files[p].by = r
                      /\ \/ files[OutputOf[r]].by # r
                         \/ Cut(r, files[OutputOf[r]])]_vars

(* Every run ends and its reservations go, unless it was killed, or removing   *)
(* one failed or was cut short by a signal: no run waits for another.          *)
ReservationsFreed ==
    \A r \in Runs, p \in Paths :
        reserved[p] = r ~> (reserved[p] # r \/ At(r, "crashed") \/ run[r].broken)
=============================================================================
