--------------------------- MODULE GuardedChange ---------------------------
(***************************************************************************)
(* What FinGuard promises about an object it changes, whatever happens     *)
(* between the client and the API server: one owner at a time; the owner   *)
(* replaces only the content it has put on record, and only by its own     *)
(* deployment; it takes back only its own deployment, and puts back        *)
(* exactly what it replaced.  Outside actors are free, and are seen.       *)
(***************************************************************************)
CONSTANTS Runs, NoRun, Outside, Content, NoContent,
          Deployed(_, _),   \* Deployed(r, c): c with the deployment of r on it
          SameContent(_, _) \* equality without history

VARIABLES
    owner,     \* who may change the content
    content,   \* what is there
    undo,      \* what each run has put on record before changing anything
    actor      \* who wrote last

vars == <<owner, content, undo, actor>>

Init ==
    /\ owner = NoRun /\ content \in Content
    /\ content.by = Outside /\ actor = Outside
    /\ undo = [r \in Runs |-> NoContent]

Take(r) ==
    /\ owner = NoRun /\ owner' = r /\ actor' = r
    /\ UNCHANGED <<content, undo>>

Note(r) ==
    /\ undo[r] = NoContent
    /\ \E c \in Content : undo' = [undo EXCEPT ![r] = c]
    /\ UNCHANGED <<owner, content, actor>>

Change(r) ==
    /\ owner = r /\ undo[r] # NoContent /\ SameContent(content, undo[r])
    /\ content' = Deployed(r, content) /\ actor' = r
    /\ UNCHANGED <<owner, undo>>

Revert(r) ==
    /\ owner = r /\ undo[r] # NoContent
    /\ SameContent(content, Deployed(r, undo[r]))
    /\ content' = undo[r] /\ actor' = r
    /\ UNCHANGED <<owner, undo>>

Leave(r) ==
    /\ owner = r /\ owner' = NoRun /\ actor' = r
    /\ UNCHANGED <<content, undo>>

(* The owner may be deposed, the content may be anybody's or nobody's. *)
Others ==
    /\ actor' = Outside
    /\ owner' \in {owner, NoRun}
    /\ content' = content \/ content' \in {c \in Content : c.by = Outside}
    /\ UNCHANGED undo

Next ==
    \/ \E r \in Runs : Take(r) \/ Note(r) \/ Change(r) \/ Revert(r) \/ Leave(r)
    \/ Others

Spec == Init /\ [][Next]_vars
=============================================================================
