---------------------------- MODULE MatchingProofs ----------------------------
(***************************************************************************)
(* Theorems about RoleMatching, for any roles, approvers and candidates.   *)
(***************************************************************************)
EXTENDS RoleMatching, FiniteSetTheorems, TLAPS

(* What sequences of approvers are made of. *)
LEMMA EmptyFacts ==
    ASSUME NEW S
    PROVE  <<>> \in Seq(S) /\ Len(<<>>) = 0 /\ DOMAIN <<>> = {}
<1>1. <<>> \in Seq(S)
  OBVIOUS
<1>2. Len(<<>>) = 0
  OBVIOUS
<1>3. DOMAIN <<>> = 1 .. Len(<<>>)
  OBVIOUS
<1> QED
  BY <1>1, <1>2, <1>3

LEMMA LenFacts ==
    ASSUME NEW S, NEW s \in Seq(S)
    PROVE  Len(s) \in Nat /\ DOMAIN s = 1 .. Len(s)
  OBVIOUS

LEMMA AppendFacts ==
    ASSUME NEW S, NEW s \in Seq(S), NEW x \in S
    PROVE  /\ Append(s, x) \in Seq(S) /\ Len(s) \in Nat /\ DOMAIN s = 1 .. Len(s)
           /\ Len(Append(s, x)) = Len(s) + 1
           /\ DOMAIN Append(s, x) = 1 .. Len(s) + 1
           /\ Append(s, x)[Len(s) + 1] = x
           /\ \A k \in 1 .. Len(s) : Append(s, x)[k] = s[k] /\ s[k] \in S
<1>1. Append(s, x) \in Seq(S) /\ Len(s) \in Nat /\ Len(Append(s, x)) = Len(s) + 1
  OBVIOUS
<1>2. DOMAIN s = 1 .. Len(s)
  OBVIOUS
<1>3. \A k \in 1 .. Len(s) : Append(s, x)[k] = s[k] /\ s[k] \in S
  OBVIOUS
<1>4. Append(s, x)[Len(s) + 1] = x
  OBVIOUS
<1>5. DOMAIN Append(s, x) = 1 .. Len(s) + 1
  BY <1>1
<1> QED
  BY <1>1, <1>2, <1>3, <1>4, <1>5

LEMMA FrontFacts ==
    ASSUME NEW S, NEW s \in Seq(S), s # <<>>
    PROVE  /\ Len(s) \in Nat \ {0} /\ DOMAIN s = 1 .. Len(s)
           /\ SubSeq(s, 1, Len(s) - 1) \in Seq(S)
           /\ DOMAIN SubSeq(s, 1, Len(s) - 1) = 1 .. Len(s) - 1
           /\ \A k \in 1 .. Len(s) - 1 : SubSeq(s, 1, Len(s) - 1)[k] = s[k]
<1>1. Len(s) \in Nat \ {0} /\ DOMAIN s = 1 .. Len(s)
  OBVIOUS
<1>2. SubSeq(s, 1, Len(s) - 1) \in Seq(S) /\ Len(SubSeq(s, 1, Len(s) - 1)) = Len(s) - 1
  BY <1>1
<1>3. DOMAIN SubSeq(s, 1, Len(s) - 1) = 1 .. Len(s) - 1
  BY <1>2
<1>4. \A k \in 1 .. Len(s) - 1 : SubSeq(s, 1, Len(s) - 1)[k] = s[k]
  BY <1>1
<1> QED
  BY <1>1, <1>2, <1>3, <1>4

LEMMA InitInv == Init => MatchingInv
<1> SUFFICES ASSUME Init PROVE MatchingInv
  OBVIOUS
<1>1. tried = <<>> /\ DOMAIN tried = {} /\ tried \in Seq(People)
  BY EmptyFacts DEF Init
<1>2. TypeOK
  BY <1>1 DEF Init, TypeOK
<1>3. PathInv
  BY <1>1 DEF PathInv
<1>4. \A i \in People : holds[i] = NoRole
  BY DEF Init
<1>5. result = "" /\ todo = Roles
  BY DEF Init
<1>6. HoldersInv
  BY <1>4, <1>5 DEF HoldersInv
<1> QED
  BY <1>2, <1>3, <1>6 DEF MatchingInv

(* Callers are roles, and the innermost call is one of them. *)
LEMMA CallersAreRoles ==
    ASSUME MatchingInv, root # NoRole
    PROVE  \A k \in 1 .. Len(tried) + 1 : Caller(k) \in Roles
<1>1. Len(tried) \in Nat /\ DOMAIN tried = 1 .. Len(tried) /\ root \in Roles
  <2>1. tried \in Seq(People) /\ root \in Roles
    BY DEF MatchingInv, TypeOK
  <2> QED
    BY <2>1, LenFacts
<1>2. \A k \in 1 .. Len(tried) : holds[tried[k]] \in Roles
  BY <1>1 DEF MatchingInv, PathInv
<1>3. ASSUME NEW k \in 1 .. Len(tried) + 1 PROVE Caller(k) \in Roles
  <2>1. CASE k = 1
    BY <2>1, <1>1 DEF Caller
  <2>2. CASE k # 1
    <3>1. k - 1 \in 1 .. Len(tried)
      BY <2>2, <1>1
    <3> QED
      BY <2>2, <3>1, <1>2 DEF Caller
  <2> QED
    BY <2>1, <2>2
<1> QED
  BY <1>3

LEMMA AssignKeeps ==
    ASSUME MatchingInv, NEW role \in Roles, Assign(role)
    PROVE  MatchingInv'
<1>1. tried = <<>>
  BY DEF MatchingInv, PathInv, Assign
<1>2. TypeOK'
  BY DEF MatchingInv, TypeOK, Assign
<1>3. PathInv'
  <2>1. tried' = <<>> /\ DOMAIN tried' = {}
    BY <1>1, EmptyFacts DEF Assign
  <2> QED
    BY <2>1 DEF PathInv
<1>4. HoldersInv'
  <2>1. /\ result = "" /\ root = NoRole /\ todo' = todo \ {role} /\ root' = role
        /\ UNCHANGED <<candidates, holds, result>>
    BY DEF Assign
  <2>2. result' # "distinct"
    BY <2>1
  <2>3. Roles \ (todo' \cup {root'}) \subseteq Roles \ (todo \cup {root})
    BY <2>1, MatchingAssumption
  <2>4. \A i \in People : holds'[i] # NoRole => i \in candidates'[holds'[i]]
    BY <2>1 DEF MatchingInv, HoldersInv
  <2>5. \A r \in Roles \ (todo \cup {root}) : \E i \in People : holds'[i] = r
    BY <2>1 DEF MatchingInv, HoldersInv
  <2> QED
    BY <2>1, <2>2, <2>3, <2>4, <2>5 DEF HoldersInv
<1> QED
  BY <1>2, <1>3, <1>4 DEF MatchingInv

LEMMA AskKeeps ==
    ASSUME MatchingInv, NEW i \in People, Ask(i)
    PROVE  MatchingInv'
<1> USE DEF MatchingInv
<1>1. tried \in Seq(People) /\ tried' = Append(tried, i)
  BY DEF TypeOK, Ask
<1>2. /\ tried' \in Seq(People) /\ Len(tried') = Len(tried) + 1 /\ DOMAIN tried' = 1 .. Len(tried) + 1
      /\ tried'[Len(tried) + 1] = i
      /\ \A k \in 1 .. Len(tried) : tried'[k] = tried[k]
      /\ DOMAIN tried = 1 .. Len(tried) /\ Len(tried) \in Nat
  BY <1>1, AppendFacts
<1>3. TypeOK'
  <2>1. visited' \subseteq People
    BY DEF TypeOK, Ask
  <2>2. UNCHANGED <<candidates, holds, todo, root, result>>
    BY DEF Ask
  <2> QED
    BY <1>2, <2>1, <2>2 DEF TypeOK
<1>4. \A k \in 1 .. Len(tried) + 1 : Caller(k)' = Caller(k)
  BY <1>2 DEF Caller, Ask
<1>5. PathInv'
  <2>1. root' # NoRole
    BY DEF Ask
  <2>2. ASSUME NEW k \in DOMAIN tried'
        PROVE  /\ holds'[tried'[k]] \in Roles
               /\ tried'[k] \in visited'
               /\ tried'[k] \in candidates'[Caller(k)']
               /\ \A l \in DOMAIN tried' : tried'[k] = tried'[l] => k = l
    <3>1. i \notin visited /\ \A l \in 1 .. Len(tried) : tried[l] \in visited
      BY <1>2 DEF Ask, PathInv
    <3>2. CASE k = Len(tried) + 1
      <4>1. holds'[i] \in Roles
        BY DEF Ask, TypeOK
      <4>2. i \in candidates'[Caller(k)']
        BY <3>2, <1>4 DEF Ask, Current
      <4> QED
        BY <4>1, <4>2, <3>1, <3>2, <1>2 DEF Ask
    <3>3. CASE k \in 1 .. Len(tried)
      <4>1. tried[k] \in candidates[Caller(k)] /\ holds[tried[k]] \in Roles /\ tried[k] \in visited
        BY <3>3, <1>2 DEF PathInv
      <4>2. \A l \in 1 .. Len(tried) : tried[k] = tried[l] => k = l
        BY <3>3, <1>2 DEF PathInv
      <4>3. tried'[k] \in candidates'[Caller(k)']
        BY <4>1, <1>4, <1>2, <3>3 DEF Ask
      <4> QED
        BY <4>1, <4>2, <4>3, <3>1, <3>3, <1>2 DEF Ask
    <3> QED
      BY <3>2, <3>3, <1>2
  <2> QED
    BY <2>1, <2>2 DEF PathInv
<1>6. HoldersInv'
  BY DEF HoldersInv, Ask
<1> QED
  BY <1>3, <1>5, <1>6

LEMMA GiveUpKeeps ==
    ASSUME MatchingInv, GiveUp
    PROVE  MatchingInv'
<1> USE DEF MatchingInv
<1>1. CASE tried = <<>>
  <2>1. /\ result' = "none" /\ root' = NoRole /\ tried' = <<>>
        /\ UNCHANGED <<candidates, holds, todo, visited>>
    BY <1>1 DEF GiveUp
  <2>2. TypeOK'
    BY <2>1, <1>1 DEF TypeOK
  <2>3. PathInv'
    BY <2>1, EmptyFacts DEF PathInv
  <2>4. HoldersInv'
    BY <2>1 DEF HoldersInv
  <2> QED
    BY <2>2, <2>3, <2>4
<1>2. CASE tried # <<>>
  <2>0. tried \in Seq(People) /\ tried' = SubSeq(tried, 1, Len(tried) - 1)
    BY <1>2 DEF TypeOK, GiveUp
  <2>1. tried \in Seq(People) /\ tried' = SubSeq(tried, 1, Len(tried) - 1) /\ Len(tried) \in Nat
        /\ Len(tried) # 0
    BY <1>2, <2>0, FrontFacts
  <2>2. /\ tried' \in Seq(People) /\ DOMAIN tried' = 1 .. Len(tried) - 1
        /\ \A k \in 1 .. Len(tried) - 1 : tried'[k] = tried[k]
        /\ DOMAIN tried = 1 .. Len(tried)
    BY <1>2, <2>1, FrontFacts
  <2>3. UNCHANGED <<candidates, holds, todo, root, visited, result>>
    BY <1>2 DEF GiveUp
  <2>4. TypeOK'
    BY <2>2, <2>3 DEF TypeOK
  <2>5. \A k \in 1 .. Len(tried) - 1 : Caller(k)' = Caller(k)
    BY <2>1, <2>2, <2>3 DEF Caller
  <2>6. PathInv'
    BY <2>1, <2>2, <2>3, <2>5 DEF PathInv, GiveUp
  <2>7. HoldersInv'
    BY <2>3 DEF HoldersInv
  <2> QED
    BY <2>4, <2>6, <2>7
<1> QED
  BY <1>1, <1>2

(* Along the path everybody moves to the role that waits for him: roles that *)
(* lose their holder are those the path goes through, and each gets another. *)
LEMMA TakeKeeps ==
    ASSUME MatchingInv, NEW i \in People, Take(i)
    PROVE  MatchingInv'
<1> USE DEF MatchingInv
<1> DEFINE n == Len(tried)
           chain == Append(tried, i)
<1>1. /\ n \in Nat /\ DOMAIN tried = 1 .. n /\ DOMAIN chain = 1 .. n + 1
      /\ chain[n + 1] = i /\ \A k \in 1 .. n : chain[k] = tried[k]
      /\ \A k \in 1 .. n + 1 : chain[k] \in People
  <2>1. tried \in Seq(People)
    BY DEF TypeOK
  <2>2. /\ n \in Nat /\ DOMAIN tried = 1 .. n /\ DOMAIN chain = 1 .. n + 1
        /\ chain[n + 1] = i
        /\ \A k \in 1 .. n : chain[k] = tried[k] /\ tried[k] \in People
    BY <2>1, AppendFacts
  <2> QED
    BY <2>2
<1> HIDE DEF n
<1>2. \A k, l \in 1 .. n + 1 : chain[k] = chain[l] => k = l
  <2>1. i \notin visited
    BY DEF Take
  <2>2. \A k \in 1 .. n : tried[k] \in visited /\ \A l \in 1 .. n : tried[k] = tried[l] => k = l
    BY <1>1 DEF PathInv
  <2> QED
    BY <2>1, <2>2, <1>1
<1>3. \A k \in 1 .. n + 1 : Caller(k) \in Roles
  BY CallersAreRoles DEF Take, n
<1>4. \A k \in 1 .. n + 1 : chain[k] \in candidates[Caller(k)]
  <2>1. i \in candidates[Caller(n + 1)]
    BY DEF Take, Current, n
  <2> QED
    BY <2>1, <1>1 DEF PathInv
<1>5. \A j \in People : holds'[j] = IF \E k \in DOMAIN chain : chain[k] = j
                                    THEN Caller(CHOOSE k \in DOMAIN chain : chain[k] = j)
                                    ELSE holds[j]
  BY DEF Take
<1>6. \A k \in 1 .. n + 1 : holds'[chain[k]] = Caller(k)
  <2> SUFFICES ASSUME NEW k \in 1 .. n + 1
               PROVE  holds'[chain[k]] = Caller(k)
    OBVIOUS
  <2> DEFINE l == CHOOSE l \in DOMAIN chain : chain[l] = chain[k]
  <2>1. l \in DOMAIN chain /\ chain[l] = chain[k]
    BY <1>1
  <2>2. l = k
    BY <2>1, <1>1, <1>2
  <2>3. chain[k] \in People /\ \E m \in DOMAIN chain : chain[m] = chain[k]
    BY <1>1
  <2>4. holds'[chain[k]] = Caller(l)
    BY <1>5, <2>3
  <2> QED
    BY <2>2, <2>4
<1>7. \A j \in People : (\A k \in 1 .. n + 1 : chain[k] # j) => holds'[j] = holds[j]
  BY <1>5, <1>1
<1>8. \A j \in People : holds'[j] \in Roles \cup {NoRole}
                        /\ (holds'[j] # NoRole => j \in candidates[holds'[j]])
  <2> SUFFICES ASSUME NEW j \in People
               PROVE  /\ holds'[j] \in Roles \cup {NoRole}
                      /\ holds'[j] # NoRole => j \in candidates[holds'[j]]
    OBVIOUS
  <2>1. CASE \E k \in 1 .. n + 1 : chain[k] = j
    BY <2>1, <1>3, <1>4, <1>6
  <2>2. CASE \A k \in 1 .. n + 1 : chain[k] # j
    BY <2>2, <1>7 DEF TypeOK, HoldersInv
  <2> QED
    BY <2>1, <2>2
<1>9. TypeOK'
  <2>1. holds' \in [People -> Roles \cup {NoRole}]
    <3>1. holds' = [j \in People |-> holds'[j]]
      BY DEF Take
    <3> QED
      BY <3>1, <1>8
  <2>2. tried' \in Seq(People) /\ root' = NoRole /\ visited' \subseteq People
        /\ UNCHANGED <<candidates, todo, result>>
    BY EmptyFacts DEF Take, TypeOK
  <2> QED
    BY <2>1, <2>2 DEF TypeOK
<1>10. PathInv'
  <2>1. tried' = <<>> /\ DOMAIN tried' = {}
    BY EmptyFacts DEF Take
  <2> QED
    BY <2>1 DEF PathInv
<1>11. \A r \in Roles \ todo : result # "none" => \E j \in People : holds'[j] = r
  <2> SUFFICES ASSUME NEW r \in Roles \ todo, result # "none"
               PROVE  \E j \in People : holds'[j] = r
    OBVIOUS
  <2>1. CASE r = root
    <3>1. holds'[chain[1]] = root /\ chain[1] \in People
      BY <1>1, <1>6 DEF Caller
    <3> QED
      BY <3>1, <2>1
  <2>2. CASE r # root
    <3>1. PICK j \in People : holds[j] = r
      BY <2>2 DEF HoldersInv
    <3>2. CASE \A k \in 1 .. n + 1 : chain[k] # j
      BY <3>1, <3>2, <1>7
    <3>3. CASE \E k \in 1 .. n + 1 : chain[k] = j
      <4>1. PICK k \in 1 .. n + 1 : chain[k] = j
        BY <3>3
      <4>2. k \in 1 .. n
        <5>1. holds[i] = NoRole /\ r # NoRole
          BY MatchingAssumption DEF Take
        <5> QED
          BY <5>1, <4>1, <3>1, <1>1
      <4>3. k + 1 \in 1 .. n + 1 /\ k + 1 # 1 /\ (k + 1) - 1 = k
        BY <4>2, <1>1
      <4>4. Caller(k + 1) = r
        BY <4>1, <4>2, <4>3, <3>1, <1>1 DEF Caller
      <4>5. holds'[chain[k + 1]] = r /\ chain[k + 1] \in People
        BY <4>3, <4>4, <1>1, <1>6
      <4> QED
        BY <4>5
    <3> QED
      BY <3>2, <3>3
  <2> QED
    BY <2>1, <2>2
<1>12. HoldersInv'
  <2>1. UNCHANGED <<candidates, todo, result>> /\ root' = NoRole
    BY DEF Take
  <2>2. result' = "distinct" => todo' = {} /\ root' = NoRole
    BY <2>1 DEF HoldersInv
  <2> QED
    BY <2>1, <2>2, <1>8, <1>11 DEF HoldersInv
<1> QED
  BY <1>9, <1>10, <1>12

LEMMA FinishKeeps ==
    ASSUME MatchingInv, Finish
    PROVE  MatchingInv'
  BY DEF MatchingInv, TypeOK, PathInv, HoldersInv, Finish, Caller

LEMMA NextKeeps ==
    ASSUME MatchingInv, [Next]_vars
    PROVE  MatchingInv'
<1>1. CASE UNCHANGED vars
  BY <1>1 DEF MatchingInv, TypeOK, PathInv, HoldersInv, Caller, vars
<1>2. CASE Next
  BY <1>2, AssignKeeps, TakeKeeps, AskKeeps, GiveUpKeeps, FinishKeeps DEF Next
<1> QED
  BY <1>1, <1>2

(* Who holds a role has approved in it, no role that was given out is ever   *)
(* without a holder, and the calls that wait are for different approvers.    *)
THEOREM MatchingInvHolds == Spec => []MatchingInv
<1>1. Init => MatchingInv
  BY InitInv
<1>2. MatchingInv /\ [Next]_vars => MatchingInv'
  BY NextKeeps
<1> QED
  BY <1>1, <1>2, PTL DEF Spec

-----------------------------------------------------------------------------
(* A failed attempt proves that none can succeed. *)

LEMMA InitSearch == Init => SearchInv
<1> SUFFICES ASSUME Init PROVE SearchInv
  OBVIOUS
<1>1. \A i \in People : holds[i] = NoRole
  BY DEF Init
<1>2. root = NoRole /\ todo = Roles /\ result = ""
  BY DEF Init
<1>3. UniqueInv
  BY <1>1, <1>2, MatchingAssumption DEF UniqueInv
<1> QED
  BY <1>2, <1>3 DEF SearchInv

LEMMA AssignSearch ==
    ASSUME MatchingInv, SearchInv, NEW role \in Roles, Assign(role)
    PROVE  SearchInv'
<1>1. /\ result = "" /\ root = NoRole /\ role \in todo
      /\ todo' = todo \ {role} /\ root' = role /\ visited' = {}
      /\ UNCHANGED <<candidates, holds, tried, result>>
  BY DEF Assign
<1>2. UniqueInv'
  BY <1>1 DEF SearchInv, UniqueInv
<1> QED
  BY <1>1, <1>2 DEF SearchInv

LEMMA AskSearch ==
    ASSUME MatchingInv, SearchInv, NEW i \in People, Ask(i)
    PROVE  SearchInv'
<1>1. /\ root # NoRole /\ holds[i] # NoRole /\ visited' = visited \cup {i}
      /\ tried' = Append(tried, i)
      /\ UNCHANGED <<candidates, holds, todo, root, result>>
  BY DEF Ask
<1>2. tried \in Seq(People) /\ holds[i] \in Roles /\ result # "none"
  BY <1>1 DEF MatchingInv, TypeOK, HoldersInv
<1>3. /\ \A k \in DOMAIN tried : k \in DOMAIN tried' /\ tried'[k] = tried[k]
      /\ \E k \in DOMAIN tried' : tried'[k] = i
  <2>1. /\ DOMAIN tried = 1 .. Len(tried) /\ DOMAIN tried' = 1 .. Len(tried) + 1
        /\ tried'[Len(tried) + 1] = i /\ \A k \in 1 .. Len(tried) : tried'[k] = tried[k]
        /\ Len(tried) \in Nat
    BY <1>1, <1>2, AppendFacts
  <2> QED
    BY <2>1
<1>4. UniqueInv'
  BY <1>1 DEF SearchInv, UniqueInv
<1>5. \A j \in visited' : /\ holds'[j] \in Roles
                          /\ \/ candidates'[holds'[j]] \subseteq visited'
                             \/ \E k \in DOMAIN tried' : tried'[k] = j
  <2> SUFFICES ASSUME NEW j \in visited'
               PROVE  /\ holds'[j] \in Roles
                      /\ \/ candidates'[holds'[j]] \subseteq visited'
                         \/ \E k \in DOMAIN tried' : tried'[k] = j
    OBVIOUS
  <2>1. CASE j = i
    BY <2>1, <1>1, <1>2, <1>3
  <2>2. CASE j \in visited
    <3>1. holds[j] \in Roles /\ (\/ candidates[holds[j]] \subseteq visited
                                \/ \E k \in DOMAIN tried : tried[k] = j)
      BY <2>2, <1>1 DEF SearchInv
    <3> QED
      BY <3>1, <1>1, <1>3
  <2> QED
    BY <2>1, <2>2, <1>1
<1> QED
  BY <1>1, <1>2, <1>4, <1>5 DEF SearchInv

LEMMA GiveUpSearch ==
    ASSUME MatchingInv, SearchInv, GiveUp
    PROVE  SearchInv'
<1>1. /\ root # NoRole /\ candidates[Current] \subseteq visited
      /\ UNCHANGED <<candidates, holds, todo, visited>>
  BY DEF GiveUp
<1>2. /\ tried \in Seq(People) /\ result # "none" /\ visited \subseteq People /\ root \in Roles
      /\ todo \subseteq Roles
  BY <1>1 DEF MatchingInv, TypeOK, HoldersInv
<1>3. CASE tried = <<>>
  <2>1. result' = "none" /\ root' = NoRole
    BY <1>3 DEF GiveUp
  <2>2. Current = root /\ DOMAIN tried = {}
    BY <1>3, EmptyFacts DEF Current, Caller
  <2>3. \A i \in visited : holds[i] \in Roles \ {root} /\ candidates[holds[i]] \subseteq visited
    BY <1>1, <1>2, <2>2 DEF SearchInv, UniqueInv
  <2>4. Stuck'
    BY <1>1, <1>2, <2>2, <2>3 DEF Stuck
  <2>5. UniqueInv'
    BY <1>1, <1>2, <2>1, MatchingAssumption DEF SearchInv, UniqueInv
  <2> QED
    BY <2>1, <2>4, <2>5 DEF SearchInv
<1>4. CASE tried # <<>>
  <2>1. tried' = SubSeq(tried, 1, Len(tried) - 1) /\ UNCHANGED <<root, result>>
    BY <1>4 DEF GiveUp
  <2>2. /\ Len(tried) \in Nat \ {0} /\ DOMAIN tried = 1 .. Len(tried)
        /\ DOMAIN tried' = 1 .. Len(tried) - 1
        /\ \A k \in 1 .. Len(tried) - 1 : tried'[k] = tried[k]
    BY <1>2, <1>4, <2>1, FrontFacts
  <2>3. Current = holds[tried[Len(tried)]]
    BY <2>2 DEF Current, Caller
  <2>4. UniqueInv'
    BY <1>1, <2>1 DEF SearchInv, UniqueInv
  <2>5. ASSUME NEW i \in visited
        PROVE  /\ holds[i] \in Roles
               /\ \/ candidates[holds[i]] \subseteq visited
                  \/ \E k \in DOMAIN tried' : tried'[k] = i
    <3>1. /\ holds[i] \in Roles
          /\ \/ candidates[holds[i]] \subseteq visited
             \/ \E k \in 1 .. Len(tried) : tried[k] = i
      BY <1>1, <2>2 DEF SearchInv
    <3>2. CASE i = tried[Len(tried)]
      BY <3>1, <3>2, <2>3, <1>1
    <3>3. CASE i # tried[Len(tried)]
      BY <3>1, <3>3, <2>2
    <3> QED
      BY <3>2, <3>3
  <2> QED
    BY <1>1, <1>2, <2>1, <2>4, <2>5 DEF SearchInv
<1> QED
  BY <1>3, <1>4

(* Roles along the path are different: the first was not held, the others *)
(* are held by different people.                                          *)
LEMMA TakeSearch ==
    ASSUME MatchingInv, SearchInv, NEW i \in People, Take(i)
    PROVE  SearchInv'
<1> DEFINE n == Len(tried)
           chain == Append(tried, i)
<1>1. /\ root # NoRole /\ holds[i] = NoRole /\ root' = NoRole
      /\ UNCHANGED <<candidates, todo, result>>
  BY DEF Take
<1>2. /\ tried \in Seq(People) /\ result # "none" /\ todo \subseteq Roles
      /\ holds \in [People -> Roles \cup {NoRole}] /\ root \in Roles
  BY <1>1 DEF MatchingInv, TypeOK, HoldersInv
<1>3. /\ n \in Nat /\ DOMAIN tried = 1 .. n /\ DOMAIN chain = 1 .. n + 1
      /\ chain[n + 1] = i /\ \A k \in 1 .. n : chain[k] = tried[k] /\ tried[k] \in People
  BY <1>2, AppendFacts
<1>4. \A j \in People : holds'[j] = IF \E k \in DOMAIN chain : chain[k] = j
                                    THEN Caller(CHOOSE k \in DOMAIN chain : chain[k] = j)
                                    ELSE holds[j]
  BY DEF Take
<1> HIDE DEF n, chain
<1>5. \A k, l \in 1 .. n : tried[k] = tried[l] => k = l
  BY <1>3 DEF MatchingInv, PathInv
<1>6. \A k \in 1 .. n + 1 : Caller(k) \in Roles \ todo
  <2> SUFFICES ASSUME NEW k \in 1 .. n + 1 PROVE Caller(k) \in Roles \ todo
    OBVIOUS
  <2>1. Caller(k) \in Roles
    BY <1>1, CallersAreRoles DEF n
  <2>2. CASE k = 1
    BY <2>1, <2>2 DEF Caller, SearchInv, UniqueInv
  <2>3. CASE k # 1
    <3>1. k - 1 \in 1 .. n /\ Caller(k) = holds[tried[k - 1]] /\ tried[k - 1] \in People
      BY <2>3, <1>3 DEF Caller
    <3> QED
      BY <2>1, <3>1 DEF SearchInv, UniqueInv
  <2> QED
    BY <2>2, <2>3
<1>7. \A k, l \in 1 .. n + 1 : Caller(k) = Caller(l) => k = l
  <2> SUFFICES ASSUME NEW k \in 1 .. n + 1, NEW l \in 1 .. n + 1, Caller(k) = Caller(l)
               PROVE  k = l
    OBVIOUS
  <2>1. \A m \in 1 .. n + 1 : m # 1 =>
            /\ m - 1 \in 1 .. n /\ Caller(m) = holds[tried[m - 1]] /\ tried[m - 1] \in People
            /\ Caller(m) # root
    <3> SUFFICES ASSUME NEW m \in 1 .. n + 1, m # 1
                 PROVE  /\ m - 1 \in 1 .. n /\ Caller(m) = holds[tried[m - 1]]
                        /\ tried[m - 1] \in People /\ Caller(m) # root
      OBVIOUS
    <3>1. m - 1 \in 1 .. n /\ Caller(m) = holds[tried[m - 1]] /\ tried[m - 1] \in People
      BY <1>3 DEF Caller
    <3> QED
      BY <3>1, <1>6 DEF SearchInv, UniqueInv
  <2>2. Caller(1) = root
    BY DEF Caller
  <2>3. CASE k = 1 \/ l = 1
    BY <2>1, <2>2, <2>3
  <2>4. CASE k # 1 /\ l # 1
    <3>1. tried[k - 1] = tried[l - 1]
      BY <2>1, <2>4, <1>6, MatchingAssumption DEF SearchInv, UniqueInv
    <3>2. k - 1 = l - 1
      BY <3>1, <2>1, <2>4, <1>5
    <3> QED
      BY <3>2, <1>3
  <2> QED
    BY <2>3, <2>4
(* Nobody off the path holds a role of the path. *)
<1>8. \A j \in People, k \in 1 .. n + 1 :
          (\A l \in 1 .. n + 1 : chain[l] # j) => holds[j] # Caller(k)
  <2> SUFFICES ASSUME NEW j \in People, NEW k \in 1 .. n + 1,
                      \A l \in 1 .. n + 1 : chain[l] # j, holds[j] = Caller(k)
               PROVE  FALSE
    OBVIOUS
  <2>1. CASE k = 1
    BY <2>1, <1>6 DEF Caller, SearchInv, UniqueInv
  <2>2. CASE k # 1
    <3>1. /\ k - 1 \in 1 .. n /\ k - 1 \in 1 .. n + 1
          /\ Caller(k) = holds[tried[k - 1]] /\ tried[k - 1] \in People
          /\ chain[k - 1] = tried[k - 1]
      BY <2>2, <1>3 DEF Caller
    <3>2. j = tried[k - 1]
      BY <3>1, <1>6, MatchingAssumption DEF SearchInv, UniqueInv
    <3> QED
      BY <3>1, <3>2
  <2> QED
    BY <2>1, <2>2
<1>9. \A j \in People : \/ \E k \in 1 .. n + 1 : chain[k] = j /\ holds'[j] = Caller(k)
                        \/ (\A k \in 1 .. n + 1 : chain[k] # j) /\ holds'[j] = holds[j]
  <2> SUFFICES ASSUME NEW j \in People
               PROVE  \/ \E k \in 1 .. n + 1 : chain[k] = j /\ holds'[j] = Caller(k)
                      \/ (\A k \in 1 .. n + 1 : chain[k] # j) /\ holds'[j] = holds[j]
    OBVIOUS
  <2>1. CASE \E k \in DOMAIN chain : chain[k] = j
    <3> DEFINE l == CHOOSE k \in DOMAIN chain : chain[k] = j
    <3>1. l \in DOMAIN chain /\ chain[l] = j
      BY <2>1
    <3>2. holds'[j] = Caller(l)
      BY <2>1, <1>4
    <3> QED
      BY <3>1, <3>2, <1>3
  <2>2. CASE ~ \E k \in DOMAIN chain : chain[k] = j
    BY <2>2, <1>3, <1>4
  <2> QED
    BY <2>1, <2>2
<1>10. UniqueInv'
  <2>1. ASSUME NEW j \in People, NEW k \in People, holds'[j] # NoRole, holds'[j] = holds'[k]
        PROVE  j = k
    <3>1. CASE \E l \in 1 .. n + 1 : chain[l] = j /\ holds'[j] = Caller(l)
      BY <3>1, <2>1, <1>7, <1>8, <1>9
    <3>2. CASE (\A l \in 1 .. n + 1 : chain[l] # j) /\ holds'[j] = holds[j]
      <4>1. (\A l \in 1 .. n + 1 : chain[l] # k) /\ holds'[k] = holds[k]
        BY <3>2, <2>1, <1>8, <1>9
      <4> QED
        BY <3>2, <4>1, <2>1 DEF SearchInv, UniqueInv
    <3> QED
      BY <3>1, <3>2, <1>9
  <2>2. ASSUME NEW j \in People, holds'[j] \in Roles
        PROVE  holds'[j] \notin todo
    BY <2>2, <1>6, <1>9 DEF SearchInv, UniqueInv
  <2> QED
    BY <2>1, <2>2, <1>1, <1>2, MatchingAssumption DEF UniqueInv
<1> QED
  BY <1>1, <1>2, <1>10 DEF SearchInv

LEMMA FinishSearch ==
    ASSUME MatchingInv, SearchInv, Finish
    PROVE  SearchInv'
<1>1. /\ root = NoRole /\ result' = "distinct"
      /\ UNCHANGED <<candidates, holds, todo, root, tried, visited>>
  BY DEF Finish
<1>2. UniqueInv'
  BY <1>1 DEF SearchInv, UniqueInv
<1> QED
  BY <1>1, <1>2 DEF SearchInv

LEMMA NextSearch ==
    ASSUME MatchingInv, SearchInv, [Next]_vars
    PROVE  SearchInv'
<1>1. CASE UNCHANGED vars
  BY <1>1 DEF SearchInv, UniqueInv, Stuck, vars
<1>2. CASE Next
  BY <1>2, AssignSearch, TakeSearch, AskSearch, GiveUpSearch, FinishSearch DEF Next
<1> QED
  BY <1>1, <1>2

(* Nobody shares a role, and an attempt that fails has found roles that have *)
(* fewer candidates than they are.                                           *)
THEOREM SearchInvHolds == Spec => []SearchInv
<1>1. Init => SearchInv
  BY InitSearch
<1>2. MatchingInv /\ SearchInv /\ [Next]_vars => SearchInv'
  BY NextSearch
<1> QED
  BY <1>1, <1>2, MatchingInvHolds, PTL DEF Spec

(* Given approvers for all roles, pass the approver of the role one holds on *)
(* to the next: an injection of the finite set of those seen into itself     *)
(* that misses r's approver.                                                 *)
LEMMA StuckIsHopeless ==
    ASSUME Stuck, Distinct, UniqueInv
    PROVE  FALSE
<1>1. PICK r \in Roles, seen \in SUBSET People :
          /\ candidates[r] \subseteq seen
          /\ \A i \in seen : holds[i] \in Roles \ {r} /\ candidates[holds[i]] \subseteq seen
  BY DEF Stuck
<1>2. PICK approver \in [Roles -> People] :
          /\ \A s \in Roles : approver[s] \in candidates[s]
          /\ \A s, t \in Roles : s # t => approver[s] # approver[t]
  BY DEF Distinct
<1> DEFINE next == [i \in seen |-> approver[holds[i]]]
<1>3. next \in [seen -> seen]
  BY <1>1, <1>2
<1>4. \A i, j \in seen : next[i] = next[j] => i = j
  <2> SUFFICES ASSUME NEW i \in seen, NEW j \in seen, approver[holds[i]] = approver[holds[j]]
               PROVE  i = j
    OBVIOUS
  <2>1. holds[i] = holds[j] /\ holds[i] \in Roles
    BY <1>1, <1>2
  <2> QED
    BY <2>1, <1>1, MatchingAssumption DEF UniqueInv
<1>5. \A i \in seen : next[i] # approver[r]
  BY <1>1, <1>2
<1>6. approver[r] \in seen
  BY <1>1, <1>2
<1> HIDE DEF next
<1>7. next \in Injection(seen, seen)
  BY <1>3, <1>4 DEF Injection, IsInjective
<1>8. IsFiniteSet(seen)
  BY <1>1, MatchingAssumption, FS_Subset
<1>9. next \in Surjection(seen, seen)
  BY <1>7, <1>8, FS_Injection
<1> QED
  BY <1>5, <1>6, <1>9 DEF Surjection

(* If the function says that approvers can be distinct, then they can. *)
LEMMA DistinctIsTrue ==
    ASSUME MatchingInv, result = "distinct"
    PROVE  Distinct
<1>1. \A r \in Roles : \E i \in People : holds[i] = r
  <2>1. todo = {} /\ root = NoRole /\ result # "none"
    BY DEF MatchingInv, HoldersInv
  <2> QED
    BY <2>1, MatchingAssumption DEF MatchingInv, HoldersInv
<1> DEFINE approver == [r \in Roles |-> CHOOSE i \in People : holds[i] = r]
<1>2. \A r \in Roles : approver[r] \in People /\ holds[approver[r]] = r
  BY <1>1
<1>3. \A r \in Roles : approver[r] \in candidates[r]
  BY <1>2, MatchingAssumption DEF MatchingInv, HoldersInv
<1>4. approver \in [Roles -> People]
  BY <1>2
<1>5. \A r, s \in Roles : r # s => approver[r] # approver[s]
  BY <1>2
<1> HIDE DEF approver
<1> QED
  BY <1>3, <1>4, <1>5 DEF Distinct

(* The function says that approvers can be distinct if and only if they can. *)
THEOREM AnswerRight == Spec => []AnswerIsRight
<1>1. MatchingInv /\ SearchInv => AnswerIsRight
  <2> SUFFICES ASSUME MatchingInv, SearchInv, result # ""
               PROVE  result = "distinct" <=> Distinct
    BY DEF AnswerIsRight
  <2>1. CASE result = "distinct"
    BY <2>1, DistinctIsTrue
  <2>2. CASE result = "none"
    BY <2>2, StuckIsHopeless DEF SearchInv
  <2> QED
    BY <2>1, <2>2 DEF MatchingInv, TypeOK
<1> QED
  BY <1>1, MatchingInvHolds, SearchInvHolds, PTL
=============================================================================
