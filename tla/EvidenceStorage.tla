-------------------------- MODULE EvidenceStorage --------------------------
(***************************************************************************)
(* Evidence bundles on disk: how finguard/evidence_writer.py and           *)
(* finguard/evidence_storage.py put a finished bundle at its output path,  *)
(* in place of an earlier one with --force.  A bundle is a directory; its  *)
(* marker, its manifest and the files the manifest lists make it FinGuard's *)
(* own.  Gate runs share the output path with each other and with people   *)
(* who know nothing of them.                                               *)
(***************************************************************************)
EXTENDS Naturals

CONSTANTS
    Writers,      \* gate runs that publish to the same --output
    Earlier,      \* the gate run whose bundle may be there already
    Forced,       \* the writers with --force
    Signed,       \* the bundles signed with the key that readers trust
    Outcome,      \* decision, policy, change and subject that a bundle states
    Common,       \* content that all bundles share: the captured policy
    Junk,         \* content that is not FinGuard's
    Missing,      \* no such file
    MaxFaults,    \* bound on system calls that fail
    MaxSignals,   \* bound on interrupts
    MaxCrashes,   \* bound on writers killed
    MaxEdits      \* bound on changes by outside people

VARIABLES
    output,       \* the directory at the output path
    backup,       \* .<name>.backup-<uuid> of each writer
    staging,      \* .<name>.staging-<random> of each writer
    writer,       \* the label of each writer
    spent         \* how much of each bound has been used

storageVars == <<output, backup, staging, writer, spent>>

Bundles == Writers \cup {Earlier}

ASSUME StorageAssumption ==
    /\ Earlier \notin Writers
    /\ Forced \subseteq Writers /\ Signed \subseteq Bundles
    /\ Common \notin Bundles /\ Junk \notin Bundles /\ Missing \notin Bundles
    /\ Common # Junk /\ Common # Missing /\ Junk # Missing
    /\ MaxFaults \in Nat /\ MaxSignals \in Nat /\ MaxCrashes \in Nat /\ MaxEdits \in Nat

-----------------------------------------------------------------------------
(* Directories.  A file is known by the bundle it was written for. *)

Listed == {"marker", "decision", "policy"}          \* in the manifest's "files"
Names == Listed \cup {"manifest", "signature", "extra"}

Gone == [there |-> FALSE, has |-> [f \in Names |-> Missing]]
Empty == [there |-> TRUE, has |-> [f \in Names |-> Missing]]
Unowned == [there |-> TRUE, has |-> [f \in Names |-> IF f = "extra" THEN Junk ELSE Missing]]

(* _write_bundle: what a gate run puts into its staging directory. *)
Made(b) == [there |-> TRUE,
            has |-> [f \in Names |->
                       CASE f = "policy"    -> Common
                         [] f = "extra"     -> Missing
                         [] f = "signature" -> IF b \in Signed THEN b ELSE Missing
                         [] OTHER           -> b]]

HasFiles(t) == \E f \in Names : t.has[f] # Missing

(* os.replace(directory, target): onto nothing or onto an empty directory. *)
Replaceable(t) == ~HasFiles(t)

(* _owned_bundle: marker and manifest agree on the bundle; with verify_core *)
(* the listed files are what the manifest says.  Other files do not matter. *)
Owned(t, core) ==
    /\ t.there
    /\ t.has["manifest"] \in Bundles
    /\ t.has["marker"] = t.has["manifest"]
    /\ core => \A f \in Listed : t.has[f] = Made(t.has["manifest"]).has[f]

(* _validate_output_target *)
Acceptable(t, w) == HasFiles(t) => w \in Forced /\ Owned(t, TRUE)

-----------------------------------------------------------------------------

Ended == {"returned", "raised", "crashed"}

StorageInit ==
    /\ output \in {Gone, Empty, Unowned, Made(Earlier)}
    /\ backup = [w \in Writers |-> Gone]
    /\ staging = [w \in Writers |-> Gone]
    /\ writer = [w \in Writers |-> "start"]
    /\ spent = [faults |-> 0, signals |-> 0, crashes |-> 0, edits |-> 0]

At(w, label) == writer[w] = label

Goes(w, label) == writer' = [writer EXCEPT ![w] = label]

Fault == /\ spent.faults < MaxFaults
         /\ spent' = [spent EXCEPT !.faults = @ + 1]

(* The exception leaves create_evidence_bundle: the staging directory goes. *)
Raises(w) == /\ Goes(w, "raised")
             /\ staging' = [staging EXCEPT ![w] = Gone]

-----------------------------------------------------------------------------

(* _validate_output_target, before the bundle is written and again after. *)
Validate(w, label, next) ==
    /\ At(w, label)
    /\ \/ Acceptable(output, w) /\ Goes(w, next) /\ UNCHANGED staging
       \/ ~Acceptable(output, w) /\ Raises(w)
    /\ UNCHANGED <<output, backup, spent>>

Start(w) == Validate(w, "start", "stage")

(* The whole bundle is written, hashed and signed in a private directory. *)
Stage(w) ==
    /\ At(w, "stage")
    /\ \/ /\ staging' = [staging EXCEPT ![w] = Made(w)]
          /\ Goes(w, "recheck") /\ UNCHANGED spent
       \/ Fault /\ Raises(w)
    /\ UNCHANGED <<output, backup>>

Recheck(w) == Validate(w, "recheck", "exists")

Exists(w) ==
    /\ At(w, "exists")
    /\ Goes(w, IF output.there THEN "set_aside" ELSE "move")
    /\ UNCHANGED <<output, backup, staging, spent>>

(* The staging directory becomes the output, or the call fails. *)
Arrives(w, next, failed) ==
    \/ /\ Replaceable(output)
       /\ output' = staging[w] /\ staging' = [staging EXCEPT ![w] = Gone]
       /\ Goes(w, next) /\ UNCHANGED spent
    \/ /\ ~Replaceable(output) /\ UNCHANGED <<output, spent>> /\ failed
    \/ /\ Fault /\ UNCHANGED output /\ failed

Move(w) ==
    /\ At(w, "move")
    /\ Arrives(w, "returned", Raises(w))
    /\ UNCHANGED backup

SetAside(w) ==
    /\ At(w, "set_aside")
    /\ \/ /\ output.there
          /\ backup' = [backup EXCEPT ![w] = output] /\ output' = Gone
          /\ Goes(w, "swap") /\ UNCHANGED <<staging, spent>>
       \/ ~output.there /\ Raises(w) /\ UNCHANGED <<output, backup, spent>>
       \/ Fault /\ Raises(w) /\ UNCHANGED <<output, backup>>

Swap(w) ==
    /\ At(w, "swap")
    /\ Arrives(w, "reclaim", Goes(w, "put_back") /\ UNCHANGED staging)
    /\ UNCHANGED backup

(* Mutant: after a failed swap the backup is removed. *)
PutBackRemoving(w) ==
    /\ At(w, "put_back")
    /\ Raises(w)
    /\ backup' = [backup EXCEPT ![w] = Gone]
    /\ UNCHANGED <<output, spent>>

(* The directory that was set aside returns, unless its name is taken. *)
PutBack(w) ==
    /\ At(w, "put_back")
    /\ Raises(w)
    /\ \/ /\ Replaceable(output)
          /\ output' = backup[w] /\ backup' = [backup EXCEPT ![w] = Gone]
          /\ UNCHANGED spent
       \/ ~Replaceable(output) /\ UNCHANGED <<output, backup, spent>>
       \/ Fault /\ UNCHANGED <<output, backup>>

(* Mutant: whatever was set aside is removed. *)
ReclaimAll(w) ==
    /\ At(w, "reclaim")
    /\ Goes(w, "rmtree")
    /\ UNCHANGED <<output, backup, staging, spent>>

(* _remove_replaced_target: only an empty directory or an owned bundle. *)
Reclaim(w) ==
    /\ At(w, "reclaim")
    /\ \/ /\ ~HasFiles(backup[w])
          /\ backup' = [backup EXCEPT ![w] = Gone]
          /\ Goes(w, "returned") /\ UNCHANGED staging
       \/ /\ HasFiles(backup[w]) /\ Owned(backup[w], TRUE)
          /\ Goes(w, "rmtree") /\ UNCHANGED <<backup, staging>>
       \/ /\ HasFiles(backup[w]) /\ ~Owned(backup[w], TRUE)
          /\ Raises(w) /\ UNCHANGED backup
    /\ UNCHANGED <<output, spent>>

(* rmtree stops where it fails. *)
RmTree(w) ==
    /\ At(w, "rmtree")
    /\ \/ /\ backup' = [backup EXCEPT ![w] = Gone]
          /\ Goes(w, "returned") /\ UNCHANGED <<staging, spent>>
       \/ /\ Fault
          /\ backup' = [backup EXCEPT ![w].has["marker"] = Missing]
          /\ Raises(w)
    /\ UNCHANGED output

(* KeyboardInterrupt: "except BaseException" cleans up.  Inside the second   *)
(* "try" the directory that was set aside is put back first; between the     *)
(* rename and that "try" it is not.                                          *)
Interrupt(w) ==
    /\ writer[w] \notin Ended
    /\ spent.signals < MaxSignals
    /\ spent' = [spent EXCEPT !.signals = @ + 1]
    /\ \/ At(w, "swap") /\ Goes(w, "put_back") /\ UNCHANGED staging
       \/ Raises(w)
    /\ UNCHANGED <<output, backup>>

(* SIGKILL or power loss; each rename is atomic. *)
Crash(w) ==
    /\ writer[w] \notin Ended
    /\ spent.crashes < MaxCrashes
    /\ spent' = [spent EXCEPT !.crashes = @ + 1]
    /\ Goes(w, "crashed")
    /\ UNCHANGED <<output, backup, staging>>

(* Somebody makes a directory where there is none, with or without files in *)
(* it, or puts a file into the one that is there.                           *)
OutsideEdits ==
    /\ spent.edits < MaxEdits
    /\ spent' = [spent EXCEPT !.edits = @ + 1]
    /\ \/ ~output.there /\ output' \in {Empty, Unowned}
       \/ output.there /\ output' = [output EXCEPT !.has["extra"] = Junk]
    /\ UNCHANGED <<backup, staging, writer>>

Write(w) ==
    \/ Start(w) \/ Stage(w) \/ Recheck(w) \/ Exists(w) \/ Move(w) \/ SetAside(w)
    \/ Swap(w) \/ PutBack(w) \/ Reclaim(w) \/ RmTree(w)

StorageNext ==
    \/ \E w \in Writers : Write(w) \/ Interrupt(w) \/ Crash(w)
    \/ OutsideEdits

StorageSpec == StorageInit /\ [][StorageNext]_storageVars

-----------------------------------------------------------------------------
(* Properties *)

(* The complete bundle of b, whatever else lies in the directory. *)
Holds(t, b) == t.there /\ \A f \in Names \ {"extra"} : t.has[f] = Made(b).has[f]

Kept == {output} \cup {backup[w] : w \in Writers}

(* _publish_bundle: renaming one directory away and another one in its place *)
(* loses no evidence: once a complete bundle stands at the output there is   *)
(* one there or in a backup ever after, through failures, interrupts, crashes *)
(* and other writers.                                                        *)
EvidenceSurvives ==
    [][(\E b \in Bundles, t \in Kept : Holds(t, b)) =>
       (\E b \in Bundles, t \in Kept' : Holds(t, b))]_storageVars

(* "refusing to replace directory not owned by FinGuard": no writer destroys *)
(* files of a directory that is not a complete bundle; it may set it aside.  *)
UnownedSurvives ==
    [][\A t \in Kept : HasFiles(t) /\ ~Owned(t, TRUE) /\ writer' # writer => t \in Kept']_storageVars

(* "evidence output is not empty (use --force)" (evidence_storage.py:45):    *)
(* without --force a writer takes no files away from the output path.        *)
UnforcedReplacesNothing ==
    [][\A w \in Writers \ Forced :
         writer'[w] # writer[w] /\ HasFiles(output) => output' = output]_storageVars
=============================================================================
