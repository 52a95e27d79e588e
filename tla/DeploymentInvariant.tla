------------------------ MODULE DeploymentInvariant ------------------------
(***************************************************************************)
(* The inductive invariant of Deployment.  Type correctness and mutual     *)
(* exclusion are not inductive on their own: they rest on what a run knows *)
(* at each label, and on what the patches that are still under way, or     *)
(* already abandoned by their clients, can do when they arrive.            *)
(***************************************************************************)
EXTENDS Deployment

Unacquired == {"preflight", "acquire_read", "acquire", "acquire_check"}
Acquired == {"prepare", "prepared"}
Mutating == (Body \ (Unacquired \cup Acquired)) \cup Recovery

(* What one run knows: the original content from the acquisition on, and   *)
(* that it may have mutated the object from before the first patch.        *)
Coherent(s) ==
    /\ s.pc \in Unacquired => s.original = NoContent /\ ~s.mutated
    /\ s.pc \in Acquired => s.original \in Content /\ ~s.mutated
    /\ s.pc \in Mutating => s.mutated
    /\ s.mutated => s.original \in Content
    /\ s.pc = "apply" => s.seen.audit = s.original.audit

CoherentState == {s \in RunState : Coherent(s)}

(* An abandoned patch still carries what its run knew when it sent it. *)
Faithful(q) ==
    /\ q.op \in {"apply", "restore"} =>
          q.from \in Content /\ run[q.run].mutated /\ run[q.run].original = q.from
    /\ q.op = "apply" => q.seen.audit = q.from.audit
    /\ q.op = "release" => run[q.run].pc \in Ended

(* A claim on a version that is still current meets the object unlocked and *)
(* the annotations as they were read.                                       *)
Current(q) ==
    q.op = "acquire" =>
        /\ q.seen.rv <= obj.rv
        /\ q.seen.rv = obj.rv => /\ obj.lock = NoRun
                                 /\ obj.content.audit = q.seen.audit
                                 /\ obj.extra = q.seen.extra

(* Nothing is mutated before the content it replaces is in the journal. *)
Journaled(r) ==
    /\ journal[r].previous \in {NoContent, run[r].original}
    /\ run[r].mutated \/ run[r].pc = "prepared" =>
          journal[r].previous = run[r].original

TypeInv == TypeOK /\ run \in [Runs -> CoherentState]

LateInv == \A q \in late : Faithful(q) /\ Current(q)

ClaimInv == \A r \in Runs : run[r].pc = "acquire" => Current(PatchOf(r))

JournalInv == \A r \in Runs : Journaled(r)

(* Each part is preserved with the help of those before it. *)
Inv == TypeInv /\ LateInv /\ ClaimInv /\ JournalInv /\ LockHeld
=============================================================================
