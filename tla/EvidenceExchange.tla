-------------------------- MODULE EvidenceExchange --------------------------
(***************************************************************************)
(* Evidence bundles between those who write and those who read them:       *)
(* "finguard verify" and "finguard deploy" (finguard/cli.py) copy the      *)
(* output directory file by file (finguard/snapshots.py) and verify the    *)
(* copy (finguard/evidence_verifier.py), while gate runs of EvidenceStorage *)
(* may replace the directory between any two reads.                        *)
(***************************************************************************)
EXTENDS EvidenceStorage

VARIABLES
    reader,       \* the label of the reader and what is left to copy
    copy,         \* its private copy of the bundle
    parsed        \* the manifest it goes by

vars == <<output, backup, staging, writer, spent, reader, copy, parsed>>

readerVars == <<reader, copy, parsed>>

(* inputs/ is a directory of its own: it is listed when its turn comes. *)
Inputs == {"policy"}
Top == Names \ Inputs

Init == /\ StorageInit
        /\ reader = [pc |-> "list", todo |-> {}]
        /\ copy = Gone
        /\ parsed = Missing

ReaderAt(label) == reader.pc = label

Reads(label) == reader' = [pc |-> label, todo |-> {}]

(* copy_directory: scandir() of a directory that may be gone. *)
List(label, names, next) ==
    /\ ReaderAt(label)
    /\ \/ /\ output.there
          /\ reader' = [pc |-> next, todo |-> {f \in names : output.has[f] # Missing}]
          /\ copy' = [copy EXCEPT !.there = TRUE]
       \/ ~output.there /\ Reads("refused") /\ UNCHANGED copy
    /\ UNCHANGED <<parsed, output, backup, staging, writer, spent>>

(* copy_file: each name is opened in whatever directory is there by now. *)
CopyFiles(label, next) ==
    /\ ReaderAt(label)
    /\ \/ \E f \in reader.todo :
            /\ output.has[f] # Missing
            /\ copy' = [copy EXCEPT !.has[f] = output.has[f]]
            /\ reader' = [reader EXCEPT !.todo = @ \ {f}]
       \/ \E f \in reader.todo :
            output.has[f] = Missing /\ Reads("refused") /\ UNCHANGED copy
       \/ reader.todo = {} /\ Reads(next) /\ UNCHANGED copy
    /\ UNCHANGED <<parsed, output, backup, staging, writer, spent>>

(* Mutant: the bundle is verified in place. *)
SourceInPlace == output

(* What verify_evidence_bundle reads: the private copy. *)
Source == copy

Checks(label, ok, next) ==
    /\ ReaderAt(label)
    /\ Reads(IF ok THEN next ELSE "refused")
    /\ UNCHANGED <<copy, output, backup, staging, writer, spent>>

(* The ownership marker, and the manifest that the rest goes by. *)
Parse == /\ Checks("parse", Owned(Source, FALSE), "closed_world")
         /\ parsed' = IF Owned(Source, FALSE) THEN Source.has["manifest"] ELSE parsed

(* Mutant: the signature counts as a file that is not listed. *)
ClosedWorldStrict ==
    /\ Checks("closed_world",
              \A f \in Names \ (Listed \cup {"manifest"}) : Source.has[f] = Missing,
              "hash")
    /\ UNCHANGED parsed

(* Nothing lies in the directory that the manifest does not list. *)
ClosedWorld ==
    /\ Checks("closed_world",
              \A f \in Names \ (Listed \cup {"manifest", "signature"}) : Source.has[f] = Missing,
              "hash")
    /\ UNCHANGED parsed

Hash == /\ Checks("hash", \A f \in Listed : Source.has[f] = Made(parsed).has[f], "sign")
        /\ UNCHANGED parsed

(* The signature is by the trusted key, over the manifest file as it is now. *)
Sign == /\ Checks("sign", Source.has["signature"] \in Signed /\
                          Source.has["signature"] = Source.has["manifest"], "decision")
        /\ UNCHANGED parsed

(* decision.json and the audit log state what the manifest states. *)
Decision ==
    /\ Checks("decision", Source.has["decision"] \in Bundles
                          /\ Outcome[Source.has["decision"]] = Outcome[parsed], "accepted")
    /\ UNCHANGED parsed

Read ==
    \/ List("list", Top, "copy") \/ CopyFiles("copy", "list_inputs")
    \/ List("list_inputs", Inputs, "copy_inputs") \/ CopyFiles("copy_inputs", "parse")
    \/ Parse \/ ClosedWorld \/ Hash \/ Sign \/ Decision

Next ==
    \/ Read
    \/ StorageNext /\ UNCHANGED readerVars

Spec == Init /\ [][Next]_vars

-----------------------------------------------------------------------------
(* Properties *)

(* cli.py:135-137, "a concurrently replaced audit file cannot be reported as *)
(* part of a verified bundle": what is accepted is, file by file, one bundle *)
(* signed with the trusted key, whatever was replaced during the copying,    *)
(* and the manifest that was parsed is the one whose signature was verified. *)
AcceptedIsGenuine ==
    ReaderAt("accepted") => parsed \in Signed /\ copy = Made(parsed)

(* Refusals come from replacement, foreign files or missing trust only: a     *)
(* reader that got hold of one whole signed bundle, whatever writers did to   *)
(* the directory before, between and after its reads, does not refuse it, and *)
(* one that meets nobody at work gets hold of the bundle that is there.       *)
GenuineIsAccepted ==
    ReaderAt("refused") =>
        /\ copy \notin {Made(b) : b \in Signed}
        /\ spent.edits = 0 /\ (\A w \in Writers : writer[w] = "start")
              => output \notin {Made(b) : b \in Signed}
=============================================================================
