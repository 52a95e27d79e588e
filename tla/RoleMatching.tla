----------------------------- MODULE RoleMatching -----------------------------
(***************************************************************************)
(* _roles_have_distinct_approvers() (finguard/checks/common.py): can every *)
(* required role be given to an approver of its own?  The nested assign()  *)
(* looks for an augmenting path: it takes an approver who is free, or asks *)
(* the role that has one to take somebody else.                            *)
(*                                                                         *)
(* The recursion is a sequence: tried[k] is the approver the k-th active   *)
(* call of assign() is waiting for.  Roles and approvers are taken in any  *)
(* order; the code's (the policy's order, sorted names) is one of these.   *)
(***************************************************************************)
EXTENDS Sequences, Naturals, FiniteSets

CONSTANTS
    Roles,        \* the roles the policy requires
    People,       \* identities of approvers
    NoRole        \* None

ASSUME MatchingAssumption == NoRole \notin Roles /\ IsFiniteSet(People)

VARIABLES
    candidates,   \* who has approved in a role
    holds,        \* identity_to_role
    todo,         \* roles all() has not come to
    root,         \* the role all() is at
    tried,        \* the approvers the active calls wait for
    visited,      \* approvers some call of this attempt has looked at
    result        \* "distinct" or "none", "" until the function returns

vars == <<candidates, holds, todo, root, tried, visited, result>>

Init == /\ candidates \in [Roles -> SUBSET People]
        /\ holds = [i \in People |-> NoRole]
        /\ todo = Roles
        /\ root = NoRole
        /\ tried = <<>>
        /\ visited = {}
        /\ result = ""

(* The role of the k-th active call, and of the innermost. *)
Caller(k) == IF k = 1 THEN root ELSE holds[tried[k - 1]]

Current == Caller(Len(tried) + 1)

-----------------------------------------------------------------------------

(* all() goes on to the next role, with nobody visited. *)
Assign(role) ==
    /\ result = "" /\ root = NoRole
    /\ role \in todo
    /\ todo' = todo \ {role}
    /\ root' = role
    /\ visited' = {}
    /\ UNCHANGED <<candidates, holds, tried, result>>

(* A free approver: the innermost call takes it and returns True, so does *)
(* each call waiting with the approver it waited for.                     *)
Take(i) ==
    /\ root # NoRole
    /\ i \in candidates[Current] \ visited
    /\ holds[i] = NoRole
    /\ visited' = visited \cup {i}
    /\ LET chain == Append(tried, i)
       IN  holds' = [j \in People |-> IF \E k \in DOMAIN chain : chain[k] = j
                                     THEN Caller(CHOOSE k \in DOMAIN chain : chain[k] = j)
                                     ELSE holds[j]]
    /\ root' = NoRole
    /\ tried' = <<>>
    /\ UNCHANGED <<candidates, todo, result>>

(* Mutant: every call starts with nobody visited; Python ends the recursion *)
(* with an error, here it is stuck.                                         *)
AskAfresh(i) ==
    /\ root # NoRole
    /\ i \in candidates[Current] \ visited
    /\ holds[i] # NoRole
    /\ Len(tried) < Cardinality(People)
    /\ visited' = {}
    /\ tried' = Append(tried, i)
    /\ UNCHANGED <<candidates, holds, todo, root, result>>

(* An approver who has a role: ask that role to take somebody else. *)
Ask(i) ==
    /\ root # NoRole
    /\ i \in candidates[Current] \ visited
    /\ holds[i] # NoRole
    /\ visited' = visited \cup {i}
    /\ tried' = Append(tried, i)
    /\ UNCHANGED <<candidates, holds, todo, root, result>>

(* Mutant: approvers who have a role are not asked to give it up. *)
GiveUpAtOnce ==
    /\ root # NoRole
    /\ \A i \in candidates[Current] \ visited : holds[i] # NoRole
    /\ IF tried = <<>>
       THEN result' = "none" /\ root' = NoRole /\ UNCHANGED tried
       ELSE tried' = SubSeq(tried, 1, Len(tried) - 1) /\ UNCHANGED <<root, result>>
    /\ UNCHANGED <<candidates, holds, todo, visited>>

(* Nobody is left to look at: the call returns False, and if it was the *)
(* first so does the function.                                          *)
GiveUp ==
    /\ root # NoRole
    /\ candidates[Current] \subseteq visited
    /\ IF tried = <<>>
       THEN result' = "none" /\ root' = NoRole /\ UNCHANGED tried
       ELSE tried' = SubSeq(tried, 1, Len(tried) - 1) /\ UNCHANGED <<root, result>>
    /\ UNCHANGED <<candidates, holds, todo, visited>>

Finish ==
    /\ result = "" /\ root = NoRole /\ todo = {}
    /\ result' = "distinct"
    /\ UNCHANGED <<candidates, holds, todo, root, tried, visited>>

Next == \/ \E role \in Roles : Assign(role)
        \/ \E i \in People : Take(i) \/ Ask(i)
        \/ GiveUp \/ Finish

(* One function call, without anything to wait for. *)
Spec == Init /\ [][Next]_vars /\ WF_vars(Next)

-----------------------------------------------------------------------------
(* What the function is for: a choice of different approvers for all roles. *)
Distinct == \E approver \in [Roles -> People] :
                /\ \A r \in Roles : approver[r] \in candidates[r]
                /\ \A r, s \in Roles : r # s => approver[r] # approver[s]

(* Types of the variables. *)
TypeOK ==
    /\ candidates \in [Roles -> SUBSET People]
    /\ holds \in [People -> Roles \cup {NoRole}]
    /\ todo \subseteq Roles
    /\ root \in Roles \cup {NoRole}
    /\ tried \in Seq(People)
    /\ visited \subseteq People
    /\ result \in {"", "distinct", "none"}

(* The calls that wait are for different approvers, each a candidate of the   *)
(* role that waits and held by the role that is asked.                        *)
PathInv ==
    /\ root = NoRole => tried = <<>>
    /\ \A k \in DOMAIN tried :
          /\ holds[tried[k]] \in Roles
          /\ tried[k] \in visited
          /\ tried[k] \in candidates[Caller(k)]
          /\ \A l \in DOMAIN tried : tried[k] = tried[l] => k = l

(* Who holds a role has approved in it, and no role that was given out is     *)
(* ever without a holder, however often approvers change hands.               *)
HoldersInv ==
    /\ \A i \in People : holds[i] # NoRole => i \in candidates[holds[i]]
    /\ result # "none" =>
          \A r \in Roles \ (todo \cup {root}) : \E i \in People : holds[i] = r
    /\ result = "distinct" => todo = {}
    /\ result # "" => root = NoRole

MatchingInv == TypeOK /\ PathInv /\ HoldersInv

(* Nobody shares a role, and no role is held before its turn.                 *)
UniqueInv ==
    /\ \A i, j \in People : holds[i] # NoRole /\ holds[i] = holds[j] => i = j
    /\ \A i \in People : holds[i] \in Roles => holds[i] \notin todo \cup {root}
    /\ root \notin todo

(* Some role r, and the roles of all that its candidates lead to, have fewer  *)
(* candidates than they are roles.                                            *)
Stuck == \E r \in Roles, seen \in SUBSET People :
            /\ candidates[r] \subseteq seen
            /\ \A i \in seen : holds[i] \in Roles \ {r} /\ candidates[holds[i]] \subseteq seen

(* Whoever was visited in vain leads only to others visited, so an attempt    *)
(* that fails has found a reason why none can succeed.                        *)
SearchInv ==
    /\ UniqueInv
    /\ root # NoRole => \A i \in visited :
          /\ holds[i] \in Roles
          /\ candidates[holds[i]] \subseteq visited \/ \E k \in DOMAIN tried : tried[k] = i
    /\ result = "none" => Stuck

(* The function says that approvers can be distinct if and only if they can.  *)
AnswerIsRight == result # "" => (result = "distinct" <=> Distinct)

(* The function returns: assign() never calls itself for ever.                *)
Returns == <>(result # "")
=============================================================================
