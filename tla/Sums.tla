---------------------------------- MODULE Sums ----------------------------------
(***************************************************************************)
(* Induction over numbers and finite sets, with sets in the place of       *)
(* predicates, and what it shows of SumFunctionOnSet: a sum over a finite  *)
(* set can be taken apart at any of its elements.                          *)
(***************************************************************************)
EXTENDS Functions, FiniteSets, FiniteSetTheorems, WellFoundedInduction, TLAPS

-----------------------------------------------------------------------------
(* Induction *)

LEMMA LeastNumber ==
    ASSUME NEW S \in SUBSET Nat, S # {}
    PROVE  \E n \in S : \A m \in S : n <= m
<1>1. PICK n \in S : \A m \in S : <<m, n>> \notin OpToRel(<, Nat)
  BY NatLessThanWellFounded, WFMin
<1>2. ASSUME NEW m \in S PROVE n <= m
  <2>1. n \in Nat /\ m \in Nat
    OBVIOUS
  <2>2. ~(m < n)
    BY <1>1, <2>1 DEF OpToRel
  <2> QED
    BY <2>1, <2>2
<1> QED
  BY <1>2

(* What holds of a number if it holds of all smaller ones holds of all. *)
LEMMA NumbersBelow ==
    ASSUME NEW B, \A n \in Nat : 0 .. (n - 1) \subseteq B => n \in B
    PROVE  Nat \subseteq B
<1> SUFFICES ASSUME Nat \ B # {} PROVE FALSE
  OBVIOUS
<1>1. PICK n \in Nat \ B : \A m \in Nat \ B : n <= m
  <2> DEFINE S == Nat \ B
  <2>1. S \in SUBSET Nat /\ S # {}
    OBVIOUS
  <2> HIDE DEF S
  <2>2. \E n \in S : \A m \in S : n <= m
    BY <2>1, LeastNumber
  <2> QED BY <2>2 DEF S
<1>2. ASSUME NEW m \in 0 .. (n - 1) PROVE m \in B
  <2>1. m \in Nat /\ ~(n <= m)
    OBVIOUS
  <2> QED BY <1>1, <2>1
<1> QED
  BY <1>1, <1>2

(* What holds of a set if it holds of all that have one element less holds of *)
(* all finite sets.                                                           *)
LEMMA FiniteSubsets ==
    ASSUME NEW S, IsFiniteSet(S), NEW B,
           \A T \in SUBSET S : (\A x \in T : T \ {x} \in B) => T \in B
    PROVE  SUBSET S \subseteq B
<1> DEFINE sizes == {n \in Nat : \A T \in SUBSET S : Cardinality(T) = n => T \in B}
<1>1. ASSUME NEW T \in SUBSET S
      PROVE  IsFiniteSet(T) /\ Cardinality(T) \in Nat
  BY FS_Subset, FS_CardinalityType
<1>2. ASSUME NEW n \in Nat, 0 .. (n - 1) \subseteq sizes, NEW T \in SUBSET S, Cardinality(T) = n
      PROVE  T \in B
  <2>1. ASSUME NEW x \in T PROVE T \ {x} \in B
    <3>1. Cardinality(T \ {x}) = n - 1 /\ Cardinality(T \ {x}) \in Nat
      BY <1>1, <1>2, FS_RemoveElement
    <3>2. n - 1 \in 0 .. (n - 1)
      BY <3>1
    <3>3. n - 1 \in sizes
      BY <1>2, <3>2
    <3> QED BY <3>1, <3>3
  <2> QED BY <2>1
<1>3. \A n \in Nat : 0 .. (n - 1) \subseteq sizes => n \in sizes
  BY <1>2
<1>4. Nat \subseteq sizes
  <2> HIDE DEF sizes
  <2> QED BY <1>3, NumbersBelow
<1> QED
  BY <1>1, <1>4

-----------------------------------------------------------------------------
(* The equation behind SumFunctionOnSet has a solution. *)

Picked(s) == CHOOSE x \in s : TRUE

Summand(g, w, s) == IF s = {} THEN 0 ELSE w[Picked(s)] + g[s \ {Picked(s)}]

Solves(g, w, S) == g = [s \in SUBSET S |-> Summand(g, w, s)]

LEMMA SumIsSolution ==
    ASSUME NEW w, NEW S
    PROVE  SumFunctionOnSet(w, S) = (CHOOSE g : Solves(g, w, S))[S]
BY DEF SumFunctionOnSet, FoldFunctionOnSet, MapThenFoldSet, Solves, Summand, Picked

LEMMA PickedIsIn ==
    ASSUME NEW s, s # {}
    PROVE  Picked(s) \in s
BY DEF Picked

(* A table of the sums of all sets with at most n elements, for each n. *)
UpTo(S, n) == {s \in SUBSET S : Cardinality(s) <= n}

Tabulates(g, w, S, n) == g = [s \in UpTo(S, n) |-> Summand(g, w, s)]

LEMMA SolutionExists ==
    ASSUME NEW w, NEW S, IsFiniteSet(S)
    PROVE  \E g : Solves(g, w, S)
<1> DEFINE good == {n \in Nat : \E g : Tabulates(g, w, S, n)}
<1>1. ASSUME NEW T \in SUBSET S
      PROVE  /\ IsFiniteSet(T) /\ Cardinality(T) \in Nat
             /\ Cardinality(T) <= Cardinality(S)
             /\ T # {} => /\ Picked(T) \in T
                          /\ Cardinality(T \ {Picked(T)}) = Cardinality(T) - 1
                          /\ Cardinality(T \ {Picked(T)}) \in Nat
                          /\ T \ {Picked(T)} \in SUBSET S
  <2>1. IsFiniteSet(T) /\ Cardinality(T) \in Nat /\ Cardinality(T) <= Cardinality(S)
    BY FS_Subset, FS_CardinalityType
  <2>2. ASSUME T # {}
        PROVE  /\ Picked(T) \in T
               /\ Cardinality(T \ {Picked(T)}) = Cardinality(T) - 1
               /\ Cardinality(T \ {Picked(T)}) \in Nat
    BY <2>1, <2>2, PickedIsIn, FS_RemoveElement, FS_CardinalityType
  <2> QED BY <2>1, <2>2
<1>2. ASSUME NEW n \in Nat, 0 .. (n - 1) \subseteq good
      PROVE  n \in good
  <2>1. CASE n = 0
    <3>1. PICK g : g = [s \in UpTo(S, n) |-> 0]
      OBVIOUS
    <3>2. ASSUME NEW s \in UpTo(S, n) PROVE s = {}
      <4>0. s \in SUBSET S /\ Cardinality(s) <= 0
        BY <2>1 DEF UpTo
      <4>2. IsFiniteSet(s) /\ Cardinality(s) \in Nat
        BY <4>0, <1>1
      <4>1. IsFiniteSet(s) /\ Cardinality(s) = 0
        BY <4>0, <4>2
      <4> QED BY <4>1, FS_EmptySet
    <3>3. \A s \in UpTo(S, n) : Summand(g, w, s) = 0
      BY <3>2 DEF Summand
    <3>4. Tabulates(g, w, S, n)
      BY <3>1, <3>3 DEF Tabulates
    <3> QED BY <3>4
  <2>2. CASE n # 0
    <3>1. n - 1 \in 0 .. (n - 1) /\ n - 1 \in Nat
      BY <2>2
    <3>2. PICK h : Tabulates(h, w, S, n - 1)
      BY <1>2, <3>1
    <3>3. PICK g : g = [s \in UpTo(S, n) |-> Summand(h, w, s)]
      OBVIOUS
    <3>4. ASSUME NEW s \in UpTo(S, n - 1)
          PROVE  g[s] = h[s]
      <4>0. s \in SUBSET S /\ Cardinality(s) <= n - 1
        BY DEF UpTo
      <4>2. Cardinality(s) \in Nat
        BY <4>0, <1>1
      <4>1. s \in UpTo(S, n)
        BY <4>0, <4>2 DEF UpTo
      <4> QED BY <3>2, <3>3, <4>1 DEF Tabulates
    <3>5. ASSUME NEW s \in UpTo(S, n)
          PROVE  Summand(h, w, s) = Summand(g, w, s)
      <4>1. CASE s = {}
        BY <4>1 DEF Summand
      <4>2. CASE s # {}
        <5>1. s \ {Picked(s)} \in UpTo(S, n - 1)
          BY <1>1, <4>2 DEF UpTo
        <5> QED BY <3>4, <4>2, <5>1 DEF Summand
      <4> QED BY <4>1, <4>2
    <3>6. Tabulates(g, w, S, n)
      BY <3>3, <3>5 DEF Tabulates
    <3> QED BY <3>6
  <2> QED BY <2>1, <2>2
<1>3. Nat \subseteq good
  <2> HIDE DEF good
  <2> QED BY <1>2, NumbersBelow
<1>4. PICK g : Tabulates(g, w, S, Cardinality(S))
  BY <1>1, <1>3
<1>5. UpTo(S, Cardinality(S)) = SUBSET S
  BY <1>1 DEF UpTo
<1> QED
  BY <1>4, <1>5 DEF Tabulates, Solves

-----------------------------------------------------------------------------
(* Solutions for one set agree with those for its subsets. *)

LEMMA SolutionsAgree ==
    ASSUME NEW S, IsFiniteSet(S), NEW T \in SUBSET S, NEW w, NEW v, NEW g, NEW h,
           Solves(g, w, S), Solves(h, v, T), \A x \in T : w[x] = v[x]
    PROVE  \A s \in SUBSET T : g[s] = h[s]
<1> DEFINE B == {s \in SUBSET T : g[s] = h[s]}
<1>1. ASSUME NEW s \in SUBSET T, \A x \in s : s \ {x} \in B
      PROVE  s \in B
  <2>1. g[s] = Summand(g, w, s) /\ h[s] = Summand(h, v, s)
    BY DEF Solves
  <2>2. CASE s = {}
    BY <2>1, <2>2 DEF Summand
  <2>3. CASE s # {}
    <3>1. Picked(s) \in s /\ g[s \ {Picked(s)}] = h[s \ {Picked(s)}]
      BY <1>1, <2>3, PickedIsIn
    <3>2. w[Picked(s)] = v[Picked(s)]
      BY <3>1
    <3> QED BY <2>1, <2>3, <3>1, <3>2 DEF Summand
  <2> QED BY <2>2, <2>3
<1>2. IsFiniteSet(T)
  BY FS_Subset
<1>3. SUBSET T \subseteq B
  <2> HIDE DEF B
  <2> QED BY <1>1, <1>2, FiniteSubsets
<1> QED
  BY <1>3

LEMMA SolutionIsInt ==
    ASSUME NEW S, IsFiniteSet(S), NEW w, \A x \in S : w[x] \in Int, NEW g, Solves(g, w, S)
    PROVE  \A s \in SUBSET S : g[s] \in Int
<1> DEFINE B == {s \in SUBSET S : g[s] \in Int}
<1>1. ASSUME NEW s \in SUBSET S, \A x \in s : s \ {x} \in B
      PROVE  s \in B
  <2>1. g[s] = Summand(g, w, s)
    BY DEF Solves
  <2>2. CASE s = {}
    BY <2>1, <2>2 DEF Summand
  <2>3. CASE s # {}
    <3>1. Picked(s) \in s /\ g[s \ {Picked(s)}] \in Int
      BY <1>1, <2>3, PickedIsIn
    <3>2. w[Picked(s)] \in Int
      BY <3>1
    <3> QED BY <2>1, <2>3, <3>1, <3>2 DEF Summand
  <2> QED BY <2>2, <2>3
<1>2. SUBSET S \subseteq B
  <2> HIDE DEF B
  <2> QED BY <1>1, FiniteSubsets
<1> QED
  BY <1>2

(* In a solution, sums can be taken apart at any element. *)
LEMMA SolutionTakesApart ==
    ASSUME NEW S, IsFiniteSet(S), NEW w, \A x \in S : w[x] \in Int, NEW g, Solves(g, w, S)
    PROVE  \A s \in SUBSET S : \A x \in s : g[s] = w[x] + g[s \ {x}]
<1> DEFINE B == {s \in SUBSET S : \A x \in s : g[s] = w[x] + g[s \ {x}]}
<1>0. \A s \in SUBSET S : g[s] \in Int
  BY SolutionIsInt
<1>1. ASSUME NEW s \in SUBSET S, \A x \in s : s \ {x} \in B
      PROVE  s \in B
  <2>1. g[s] = Summand(g, w, s)
    BY DEF Solves
  <2>2. CASE s = {}
    BY <2>2
  <2>3. CASE s # {}
    <3>1. PICK p \in s : g[s] = w[p] + g[s \ {p}]
      BY <2>1, <2>3, PickedIsIn DEF Summand
    <3>3. ASSUME NEW x \in s, x # p PROVE g[s] = w[x] + g[s \ {x}]
      <4>1. /\ s \ {p} \in B /\ s \ {x} \in B /\ x \in s \ {p} /\ p \in s \ {x}
            /\ (s \ {p}) \ {x} = (s \ {x}) \ {p}
        BY <1>1, <3>3
      <4>2. /\ g[s \ {p}] = w[x] + g[(s \ {p}) \ {x}]
            /\ g[s \ {x}] = w[p] + g[(s \ {p}) \ {x}]
        BY <4>1
      <4>3. g[s \ {p}] \in Int /\ g[s \ {x}] \in Int /\ g[(s \ {p}) \ {x}] \in Int
        <5>1. s \ {p} \in SUBSET S /\ s \ {x} \in SUBSET S /\ (s \ {p}) \ {x} \in SUBSET S
          OBVIOUS
        <5> QED BY <5>1, <1>0
      <4>4. w[x] \in Int /\ w[p] \in Int
        OBVIOUS
      <4> QED BY <3>1, <4>2, <4>3, <4>4
    <3> QED BY <3>1, <3>3
  <2> QED BY <2>2, <2>3
<1>2. SUBSET S \subseteq B
  <2> HIDE DEF B
  <2> QED BY <1>1, FiniteSubsets
<1> QED
  BY <1>2

-----------------------------------------------------------------------------
(* What a sum over a finite set is. *)

LEMMA SumEmpty ==
    ASSUME NEW w
    PROVE  SumFunctionOnSet(w, {}) = 0
<1>1. PICK g : Solves(g, w, {})
  BY SolutionExists, FS_EmptySet
<1>2. Solves(CHOOSE h : Solves(h, w, {}), w, {})
  BY <1>1
<1> QED
  BY <1>2, SumIsSolution DEF Solves, Summand

LEMMA SumSame ==
    ASSUME NEW S, IsFiniteSet(S), NEW w, NEW v, \A x \in S : w[x] = v[x]
    PROVE  SumFunctionOnSet(w, S) = SumFunctionOnSet(v, S)
<1>1. Solves(CHOOSE g : Solves(g, w, S), w, S)
  BY SolutionExists
<1>2. Solves(CHOOSE h : Solves(h, v, S), v, S)
  BY SolutionExists
<1>3. S \in SUBSET S
  OBVIOUS
<1> QED
  BY <1>1, <1>2, <1>3, SolutionsAgree, SumIsSolution

LEMMA SumOfSubset ==
    ASSUME NEW S, IsFiniteSet(S), NEW T \in SUBSET S, NEW w, NEW g, Solves(g, w, S)
    PROVE  SumFunctionOnSet(w, T) = g[T]
<1>1. IsFiniteSet(T)
  BY FS_Subset
<1>2. Solves(CHOOSE h : Solves(h, w, T), w, T)
  BY <1>1, SolutionExists
<1>3. T \in SUBSET T
  OBVIOUS
<1>4. g[T] = (CHOOSE h : Solves(h, w, T))[T]
  BY <1>2, <1>3, SolutionsAgree
<1> QED
  BY <1>4, SumIsSolution

LEMMA SumStep ==
    ASSUME NEW S, IsFiniteSet(S), NEW w, \A y \in S : w[y] \in Int, NEW x \in S
    PROVE  SumFunctionOnSet(w, S) = w[x] + SumFunctionOnSet(w, S \ {x})
<1>1. PICK g : Solves(g, w, S)
  BY SolutionExists
<1>2. S \in SUBSET S /\ S \ {x} \in SUBSET S
  OBVIOUS
<1>3. g[S] = w[x] + g[S \ {x}]
  BY <1>1, <1>2, SolutionTakesApart
<1> QED
  BY <1>1, <1>2, <1>3, SumOfSubset

LEMMA SumInt ==
    ASSUME NEW S, IsFiniteSet(S), NEW w, \A y \in S : w[y] \in Int
    PROVE  SumFunctionOnSet(w, S) \in Int
<1>1. PICK g : Solves(g, w, S)
  BY SolutionExists
<1>2. S \in SUBSET S
  OBVIOUS
<1>3. g[S] \in Int
  BY <1>1, <1>2, SolutionIsInt
<1> QED
  BY <1>1, <1>2, <1>3, SumOfSubset

LEMMA SumNat ==
    ASSUME NEW S, IsFiniteSet(S), NEW w, \A y \in S : w[y] \in Nat
    PROVE  SumFunctionOnSet(w, S) \in Nat
<1> DEFINE B == {T \in SUBSET S : SumFunctionOnSet(w, T) \in Nat}
<1>1. ASSUME NEW T \in SUBSET S, \A x \in T : T \ {x} \in B
      PROVE  T \in B
  <2>1. CASE T = {}
    BY <2>1, SumEmpty
  <2>2. CASE T # {}
    <3>1. PICK x \in T : TRUE
      BY <2>2
    <3>2. IsFiniteSet(T) /\ \A y \in T : w[y] \in Int
      BY FS_Subset
    <3>3. SumFunctionOnSet(w, T) = w[x] + SumFunctionOnSet(w, T \ {x})
      BY <3>2, SumStep
    <3>4. w[x] \in Nat /\ SumFunctionOnSet(w, T \ {x}) \in Nat
      BY <1>1
    <3> QED BY <3>3, <3>4
  <2> QED BY <2>1, <2>2
<1>2. SUBSET S \subseteq B
  <2> HIDE DEF B
  <2> QED BY <1>1, FiniteSubsets
<1> QED
  BY <1>2

(* A part's sum of natural numbers is at most the whole's. *)
LEMMA SumOfPart ==
    ASSUME NEW S, IsFiniteSet(S), NEW w, \A y \in S : w[y] \in Nat, NEW T \in SUBSET S
    PROVE  SumFunctionOnSet(w, T) <= SumFunctionOnSet(w, S)
<1> DEFINE B == {R \in SUBSET S : SumFunctionOnSet(w, R \cap T) <= SumFunctionOnSet(w, R)}
<1>0. \A R \in SUBSET S : SumFunctionOnSet(w, R) \in Nat
  BY FS_Subset, SumNat
<1>1. ASSUME NEW R \in SUBSET S, \A x \in R : R \ {x} \in B
      PROVE  R \in B
  <2>1. CASE R = {}
    <3>1. R \cap T = R
      BY <2>1
    <3> QED BY <3>1, <1>0
  <2>2. CASE R # {}
    <3>1. PICK x \in R : TRUE
      BY <2>2
    <3>2. \A Q \in SUBSET S : IsFiniteSet(Q) /\ \A y \in Q : w[y] \in Int
      BY FS_Subset
    <3>3. SumFunctionOnSet(w, R) = w[x] + SumFunctionOnSet(w, R \ {x})
      BY <3>2, SumStep
    <3>4. SumFunctionOnSet(w, (R \ {x}) \cap T) <= SumFunctionOnSet(w, R \ {x})
      BY <1>1
    <3>5. w[x] \in Nat
      OBVIOUS
    <3>6. /\ R \cap T \in SUBSET S /\ (R \ {x}) \cap T \in SUBSET S /\ R \ {x} \in SUBSET S
      OBVIOUS
    <3>9. /\ SumFunctionOnSet(w, R \ {x}) \in Nat
          /\ SumFunctionOnSet(w, (R \ {x}) \cap T) \in Nat
      BY <1>0, <3>6
    <3>7. CASE x \in T
      <4>1. x \in R \cap T /\ (R \cap T) \ {x} = (R \ {x}) \cap T
        BY <3>7
      <4>2. SumFunctionOnSet(w, R \cap T) = w[x] + SumFunctionOnSet(w, (R \cap T) \ {x})
        BY <3>2, <3>6, <4>1, SumStep
      <4>3. SumFunctionOnSet(w, R \cap T) = w[x] + SumFunctionOnSet(w, (R \ {x}) \cap T)
        BY <4>1, <4>2
      <4> QED BY <3>3, <3>4, <3>5, <3>9, <4>3
    <3>8. CASE x \notin T
      <4>1. R \cap T = (R \ {x}) \cap T
        BY <3>8
      <4>2. SumFunctionOnSet(w, R \cap T) = SumFunctionOnSet(w, (R \ {x}) \cap T)
        BY <4>1
      <4> QED BY <3>3, <3>4, <3>5, <3>9, <4>2
    <3> QED BY <3>7, <3>8
  <2> QED BY <2>1, <2>2
<1>2. SUBSET S \subseteq B
  <2> HIDE DEF B
  <2> QED BY <1>1, FiniteSubsets
<1>3. S \in B /\ S \cap T = T
  BY <1>2
<1> QED
  BY <1>3
=============================================================================
