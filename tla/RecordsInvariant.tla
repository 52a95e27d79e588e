-------------------------- MODULE RecordsInvariant --------------------------
(***************************************************************************)
(* The inductive invariants behind DeploymentRecords: what a run remembers *)
(* to have reserved is reserved for it, and it works only when that is     *)
(* everything it needs; why refusals are never mutual; and what an         *)
(* unforced run finds at its paths while it publishes.                     *)
(***************************************************************************)
EXTENDS DeploymentRecords

(* What is in "locks" was made by the run; mkdir() comes before append().  *)
Remembered(r) ==
    /\ run[r].locks \subseteq PathsOf(r)
    /\ \A p \in run[r].locks : reserved[p] = r
    /\ At(r, "register") => \A p \in Paths : First(p, Todo(r)) => reserved[p] = r

(* Nothing is mutated before every path is reserved. *)
Complete(r) ==
    /\ run[r].pc \in Working => run[r].locks = PathsOf(r)
    /\ run[r].pc \in Entering => ~run[r].mutated

(* __enter__ and _release: a run knows its reservations, and holds all of    *)
(* them while it works, whatever fails, is interrupted or is killed.         *)
ReservationInv ==
    /\ TypeOK
    /\ \A r \in Runs : Remembered(r) /\ Complete(r)

-----------------------------------------------------------------------------
(* Why sorted() is enough: a run that is refused has reserved only names     *)
(* before the one it was refused at, and whoever refused it had that one.    *)

InOrder(r) ==
    run[r].pc \in Entering =>
        /\ run[r].refusedBy = Nobody
        /\ \A x \in run[r].locks, y \in Todo(r) : x < y
        /\ \A x \in Paths : reserved[x] = r =>
               x \in run[r].locks \/ (At(r, "register") /\ First(x, Todo(r)))

RefusedAt(r, q, p) ==
    /\ \A x \in Paths : reserved[x] = r => x < p
    /\ run[q].pc \in Entering => reserved[p] = q

RefusalInv ==
    /\ NoMutualRefusal
    /\ \A r \in Runs : InOrder(r)
    /\ \A r, q \in Runs : run[r].refusedBy = q => \E p \in Paths : RefusedAt(r, q, p)

-----------------------------------------------------------------------------
(* Why a JSON has its signature: what an unforced run finds at its paths     *)
(* belongs to no other run, so nothing it writes or removes is another's.    *)

Linked == {"link_output", "samefile", "unlink"}
Published == Linked \cup {"link_bundle", "recheck", "unstage"}

Found(r) ==
    run[r].pc \in Entering \cup Working =>
        \A p \in run[r].locks : \/ At(r, "examine") /\ Last(p, run[r].locks)
                               \/ files[p].by \in {r, Nobody, Outside}

Publication(r) ==
    /\ run[r].pc \in Linked \cup {"unstage"} =>
          files[BundleOf[r]] = [by |-> r, kind |-> "signature", n |-> run[r].n]
    /\ run[r].pc \in Linked \cup {"link_bundle"} /\ files[OutputOf[r]].by = r =>
          Cut(r, files[OutputOf[r]])
    /\ run[r].pc \in Published /\ run[r].n # 0 => run[r].recovering
    /\ files[BundleOf[r]].by = r => run[r].recovering \/ files[BundleOf[r]].n = 0

(* The signature of a run has its JSON, or is about to get it or to go, or is *)
(* what a signal left of a dry run.                                           *)
Paired(r) ==
    files[BundleOf[r]].by = r =>
        \/ files[OutputOf[r]].by \in {r} \cup Forced
        \/ run[r].pc \in Linked \cup {"crashed"}
        \/ run[r].broken
        \/ Cut(r, files[BundleOf[r]])

MarkerInv ==
    /\ CompletionMarker
    /\ \A r \in Runs \ Forced : Found(r) /\ Publication(r) /\ Paired(r)
    /\ \A r \in Forced : run[r].pc \notin {"samefile", "unlink"}
=============================================================================
