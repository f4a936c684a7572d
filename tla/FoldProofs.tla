------------------------------ MODULE FoldProofs ------------------------------
(***************************************************************************)
(* Folds over finite sets and sequences, and the greatest and the least of *)
(* a set of numbers.                                                       *)
(*                                                                         *)
(* A fold of the community modules is a recursive function over the        *)
(* subsets of a finite set.  Its values are reached by induction over the  *)
(* subsets: Induction and SubsetInduction are stated with a set of subsets *)
(* in the place of the predicate, from the minimal elements of a           *)
(* well-founded relation, and FoldExists gives the table of a fold.        *)
(***************************************************************************)
EXTENDS FiniteSetsExt, Integers, FiniteSetTheorems, WellFoundedInduction, TLAPS

\* A set of naturals with 0 that is closed under successor holds them all.
LEMMA Induction ==
  ASSUME NEW T, 0 \in T, \A n \in Nat : n \in T => n + 1 \in T
  PROVE  Nat \subseteq T
<1>. SUFFICES ASSUME Nat \ T # {} PROVE FALSE
  OBVIOUS
<1>1. PICK n \in Nat \ T : \A k \in Nat \ T : ~(<<k, n>> \in OpToRel(<, Nat))
  <2>. Nat \ T \subseteq Nat
    OBVIOUS
  <2>. QED  BY NatLessThanWellFounded, WFMin
<1>2. n # 0 /\ n - 1 \in Nat /\ n - 1 < n
  OBVIOUS
<1>3. <<n - 1, n>> \in OpToRel(<, Nat)
  BY <1>2 DEF OpToRel
<1>4. n - 1 \in T
  BY <1>1, <1>2, <1>3
<1>5. (n - 1) + 1 \in T
  BY <1>2, <1>4
<1>. QED  BY <1>5

\* A family of subsets of a finite set that holds the empty set, and a set when
\* it holds what is left of it without some member, holds the whole set.
LEMMA SubsetInduction ==
  ASSUME NEW S, IsFiniteSet(S), NEW T, {} \in T,
         \A s \in SUBSET S : s # {} => \E x \in s : s \ {x} \in T => s \in T
  PROVE  SUBSET S \subseteq T
<1>. DEFINE N == {n \in Nat : \A s \in SUBSET S : Cardinality(s) = n => s \in T}
<1>1. 0 \in N
  <2>. SUFFICES ASSUME NEW s \in SUBSET S, Cardinality(s) = 0 PROVE s \in T
    OBVIOUS
  <2>. s = {}
    BY FS_Subset, FS_EmptySet
  <2>. QED  OBVIOUS
<1>2. ASSUME NEW n \in Nat, n \in N PROVE n + 1 \in N
  <2>. SUFFICES ASSUME NEW s \in SUBSET S, Cardinality(s) = n + 1 PROVE s \in T
    OBVIOUS
  <2>1. IsFiniteSet(s)
    BY FS_Subset
  <2>2. s # {}
    <3>1. Cardinality({}) = 0
      BY FS_EmptySet
    <3>2. n + 1 # 0
      OBVIOUS
    <3>. QED  BY <3>1, <3>2
  <2>3. PICK x \in s : s \ {x} \in T => s \in T
    BY <2>2
  <2>4. Cardinality(s \ {x}) = n
    <3>1. Cardinality(s \ {x}) = Cardinality(s) - 1
      BY <2>1, FS_RemoveElement
    <3>. QED  BY <3>1
  <2>. QED  BY <1>2, <2>3, <2>4
<1>. HIDE DEF N
<1>3. Nat \subseteq N
  BY <1>1, <1>2, Induction
<1>. SUFFICES ASSUME NEW s \in SUBSET S PROVE s \in T
  OBVIOUS
<1>4. Cardinality(s) \in Nat
  BY FS_Subset, FS_CardinalityType
<1>. QED  BY <1>3, <1>4 DEF N

\* What a fold over a finite set computes, step by step: the recursion has a
\* solution.  G is the step, P says which member is taken.
FoldTable(it, S, V, base, G, P) ==
  /\ it \in [SUBSET S -> V]
  /\ \A s \in SUBSET S : it[s] = IF s = {} THEN base ELSE G[<<P[s], it[s \ {P[s]}]>>]

Picks(P, S) == \A s \in SUBSET S : s # {} => P[s] \in s

LEMMA FoldExists ==
  ASSUME NEW S, IsFiniteSet(S), NEW V, NEW base \in V, NEW G \in [S \X V -> V],
         NEW P, Picks(P, S)
  PROVE  \E it : FoldTable(it, S, V, base, G, P)
<1>. DEFINE Small(n) == {s \in SUBSET S : Cardinality(s) <= n}
            Solves(it, D) == \A s \in D : it[s] = IF s = {} THEN base ELSE G[<<P[s], it[s \ {P[s]}]>>]
            N == {n \in Nat : \E it \in [Small(n) -> V] : Solves(it, Small(n))}
<1>0. \A s \in SUBSET S : /\ IsFiniteSet(s) /\ Cardinality(s) \in Nat
                          /\ s # {} => P[s] \in s
  BY FS_Subset, FS_CardinalityType DEF Picks
<1>1. 0 \in N
  <2>. DEFINE it == [s \in Small(0) |-> base]
  <2>1. \A s \in Small(0) : s = {}
    BY <1>0, FS_EmptySet
  <2>2. it \in [Small(0) -> V] /\ Solves(it, Small(0))
    BY <2>1
  <2>. QED  BY <2>2
<1>2. ASSUME NEW n \in Nat, n \in N PROVE n + 1 \in N
  <2>1. PICK it \in [Small(n) -> V] : Solves(it, Small(n))
    BY <1>2
  <2>. DEFINE jt == [s \in Small(n + 1) |-> IF s = {} THEN base ELSE G[<<P[s], it[s \ {P[s]}]>>]]
  <2>2. ASSUME NEW s \in Small(n + 1), s # {} PROVE s \ {P[s]} \in Small(n) /\ P[s] \in S
    <3>1. P[s] \in s
      BY <1>0, <2>2
    <3>2. Cardinality(s \ {P[s]}) = Cardinality(s) - 1
      BY <1>0, <3>1, FS_RemoveElement
    <3>. QED  BY <1>0, <3>1, <3>2
  <2>3. jt \in [Small(n + 1) -> V]
    BY <2>2
  <2>4. Small(n) \subseteq Small(n + 1)
    BY <1>0
  <2>5. \A s \in Small(n) : jt[s] = it[s]
    BY <2>1, <2>4
  <2>6. Solves(jt, Small(n + 1))
    <3>. SUFFICES ASSUME NEW s \in Small(n + 1)
                  PROVE  jt[s] = IF s = {} THEN base ELSE G[<<P[s], jt[s \ {P[s]}]>>]
      OBVIOUS
    <3>1. CASE s = {}
      BY <3>1
    <3>2. CASE s # {}
      <4>1. jt[s \ {P[s]}] = it[s \ {P[s]}]
        BY <2>2, <2>5, <3>2
      <4>2. jt[s] = G[<<P[s], it[s \ {P[s]}]>>]
        BY <3>2
      <4>. QED  BY <3>2, <4>1, <4>2
    <3>. QED  BY <3>1, <3>2
  <2>. HIDE DEF Small, Solves, jt
  <2>. QED  BY <2>3, <2>6
<1>. HIDE DEF N
<1>3. Nat \subseteq N
  BY <1>1, <1>2, Induction
<1>4. Cardinality(S) \in N
  BY <1>0, <1>3
<1>5. Small(Cardinality(S)) = SUBSET S
  <2>. SUFFICES ASSUME NEW s \in SUBSET S PROVE Cardinality(s) <= Cardinality(S)
    OBVIOUS
  <2>. QED  BY FS_Subset
<1>6. PICK it \in [Small(Cardinality(S)) -> V] : Solves(it, Small(Cardinality(S)))
  <2>. HIDE DEF Small, Solves
  <2>. QED  BY <1>4 DEF N
<1>. QED  BY <1>5, <1>6 DEF FoldTable

\* A fold stays in a set that each of its steps stays in.
FoldStays(it, V, P, S) ==
  it[{}] \in V /\ \A s \in SUBSET S : s # {} /\ it[s \ {P[s]}] \in V => it[s] \in V

LEMMA FoldWithin ==
  ASSUME NEW S, IsFiniteSet(S), NEW V, NEW P, Picks(P, S), NEW it, FoldStays(it, V, P, S)
  PROVE  it[S] \in V
<1>. DEFINE T == {s \in SUBSET S : it[s] \in V}
<1>1. {} \in T
  BY DEF FoldStays
<1>2. ASSUME NEW s \in SUBSET S, s # {} PROVE \E x \in s : s \ {x} \in T => s \in T
  <2>1. P[s] \in s
    BY <1>2 DEF Picks
  <2>2. s \ {P[s]} \in T => s \in T
    BY <1>2 DEF FoldStays
  <2>. HIDE DEF T
  <2>. QED  BY <2>1, <2>2
<1>. HIDE DEF T
<1>3. S \in T
  BY <1>1, <1>2, SubsetInduction
<1>. QED  BY <1>3 DEF T

LEMMA MaxFacts ==
  ASSUME NEW n \in Nat, NEW s \in SUBSET (1 .. n), s # {}
  PROVE  Max(s) \in s /\ \A y \in s : y <= Max(s)
<1>. DEFINE D == {n - z : z \in s}
<1>1. D \subseteq Nat /\ D # {}
  <2>1. \A z \in s : n - z \in Nat
    OBVIOUS
  <2>. QED  BY <2>1
<1>. HIDE DEF D
<1>2. PICK d \in D : \A e \in D : ~(<<e, d>> \in OpToRel(<, Nat))
  BY <1>1, NatLessThanWellFounded, WFMin
<1>3. ASSUME NEW e \in D PROVE d <= e
  <2>1. e \in Nat /\ d \in Nat /\ <<e, d>> \in Nat \X Nat
    BY <1>1
  <2>2. ~(e < d)
    BY <1>2, <2>1 DEF OpToRel
  <2>. QED  BY <2>1, <2>2
<1>4. PICK x \in s : d = n - x
  BY DEF D
<1>5. ASSUME NEW y \in s PROVE x >= y
  <2>1. d <= n - y
    BY <1>3 DEF D
  <2>. QED  BY <1>4, <2>1
<1>6. \E x1 \in s : \A y1 \in s : x1 >= y1
  BY <1>5
<1>7. Max(s) \in s /\ \A y \in s : Max(s) >= y
  BY <1>6 DEF Max
<1>. QED  BY <1>7

LEMMA MinFacts ==
  ASSUME NEW s, s \subseteq Nat, s # {}
  PROVE  Min(s) \in s /\ \A y \in s : Min(s) <= y
<1>1. PICK d \in s : \A e \in s : ~(<<e, d>> \in OpToRel(<, Nat))
  BY NatLessThanWellFounded, WFMin
<1>2. ASSUME NEW e \in s PROVE d <= e
  <2>1. e \in Nat /\ d \in Nat /\ <<e, d>> \in Nat \X Nat
    OBVIOUS
  <2>2. ~(e < d)
    BY <1>1, <2>1 DEF OpToRel
  <2>. QED  BY <2>1, <2>2
<1>3. \E x1 \in s : \A y1 \in s : x1 <= y1
  BY <1>2
<1>. QED  BY <1>3 DEF Min

LEMMA LastPicks ==
  ASSUME NEW n \in Nat
  PROVE  /\ IsFiniteSet(1 .. n)
         /\ Picks([s \in SUBSET (1 .. n) |-> Max(s)], 1 .. n)
<1>1. IsFiniteSet(1 .. n)
  BY FS_Interval
<1>2. Picks([s \in SUBSET (1 .. n) |-> Max(s)], 1 .. n)
  BY MaxFacts DEF Picks
<1>. QED  BY <1>1, <1>2
===============================================================================
