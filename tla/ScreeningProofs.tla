---------------------------- MODULE ScreeningProofs ----------------------------
(***************************************************************************)
(* The kernel, the edges and the passes' data, for any catalogue, any      *)
(* stories, answers and opinions and any number of users.                  *)
(*                                                                         *)
(* The operators of Kernel and Interests are sums and folds of the         *)
(* community modules, reached with the lemmas of FoldProofs.  From these   *)
(* follow the facts about sums (SumOver), those about the kernel           *)
(* (KernelSays), those about the edges derived from a profile              *)
(* (DerivedEdges), and last the inductive invariant (ScreeningInv).        *)
(***************************************************************************)
EXTENDS Screening, FoldProofs

-------------------------------------------------------------------------------
(* Sums.                                                                     *)

\* The member a sum takes next.
Pick(s) == CHOOSE x \in s : TRUE

\* it is the table of the partial sums of f over the subsets of S.
SumTable(it, f, S) ==
  it = [s \in SUBSET S |-> IF s = {} THEN 0 ELSE f[Pick(s)] + it[s \ {Pick(s)}]]

\* The sum of f over S.
SumOver(f, S) == (CHOOSE it : SumTable(it, f, S))[S]

LEMMA PickFacts == \A s : s # {} => Pick(s) \in s
BY DEF Pick

LEMMA SumTableUnique ==
  ASSUME NEW S, IsFiniteSet(S), NEW f, NEW it, NEW jt, SumTable(it, f, S), SumTable(jt, f, S)
  PROVE  jt = it
<1>. DEFINE T == {s \in SUBSET S : jt[s] = it[s]}
<1>1. {} \in T
  BY DEF SumTable
<1>2. ASSUME NEW s \in SUBSET S, s # {} PROVE \E x \in s : s \ {x} \in T => s \in T
  <2>1. Pick(s) \in s
    BY <1>2, PickFacts
  <2>2. jt[s] = f[Pick(s)] + jt[s \ {Pick(s)}] /\ it[s] = f[Pick(s)] + it[s \ {Pick(s)}]
    BY <1>2 DEF SumTable
  <2>. QED  BY <2>1, <2>2
<1>. HIDE DEF T
<1>3. SUBSET S \subseteq T
  BY <1>1, <1>2, SubsetInduction
<1>4. \A s \in SUBSET S : jt[s] = it[s]
  BY <1>3 DEF T
<1>. QED  BY <1>4 DEF SumTable

\* The table exists, and there is only one.
LEMMA SumTables ==
  ASSUME NEW S, IsFiniteSet(S), NEW f, \A x \in S : f[x] \in Nat
  PROVE  \E it : SumTable(it, f, S) /\ it \in [SUBSET S -> Nat] /\ it[S] = SumOver(f, S)
                 /\ \A jt : SumTable(jt, f, S) => jt = it
<1>. DEFINE G == [z \in S \X Nat |-> f[z[1]] + z[2]]
            P == [s \in SUBSET S |-> Pick(s)]
<1>0. ASSUME NEW s \in SUBSET S, s # {} PROVE Pick(s) \in s /\ s \ {Pick(s)} \in SUBSET S
  BY <1>0, PickFacts
<1>1. G \in [S \X Nat -> Nat] /\ Picks(P, S)
  BY <1>0 DEF Picks
<1>2. PICK it \in [SUBSET S -> Nat] : \A s \in SUBSET S :
        it[s] = IF s = {} THEN 0 ELSE G[<<P[s], it[s \ {P[s]}]>>]
  <2>1. \E it : FoldTable(it, S, Nat, 0, G, P)
    <3>. HIDE DEF G, P
    <3>. QED  BY <1>1, FoldExists
  <2>. HIDE DEF G, P
  <2>. QED  BY <2>1 DEF FoldTable
<1>3. SumTable(it, f, S)
  <2>1. ASSUME NEW s \in SUBSET S, s # {} PROVE it[s] = f[Pick(s)] + it[s \ {Pick(s)}]
    <3>1. it[s] = G[<<Pick(s), it[s \ {Pick(s)}]>>]
      BY <1>2, <2>1
    <3>2. <<Pick(s), it[s \ {Pick(s)}]>> \in S \X Nat
      BY <1>0, <1>2, <2>1
    <3>. QED  BY <3>1, <3>2
  <2>2. \A s \in SUBSET S : it[s] = IF s = {} THEN 0 ELSE f[Pick(s)] + it[s \ {Pick(s)}]
    BY <1>2, <2>1
  <2>. HIDE DEF G, P
  <2>. QED  BY <1>2, <2>2 DEF SumTable
<1>. HIDE DEF G, P
<1>4. ASSUME NEW jt, SumTable(jt, f, S) PROVE jt = it
  BY <1>3, <1>4, SumTableUnique
<1>5. SumOver(f, S) = it[S]
  BY <1>3, <1>4 DEF SumOver
<1>. QED  BY <1>2, <1>3, <1>4, <1>5

\* A sum term by term: over nothing it is 0, and each table entry adds one term.
Adds(it, f, S) ==
  /\ it \in [SUBSET S -> Nat] /\ it[{}] = 0 /\ it[S] = SumOver(f, S)
  /\ \A s \in SUBSET S : s # {} =>
       Pick(s) \in s /\ Pick(s) \in S /\ it[s] = f[Pick(s)] + it[s \ {Pick(s)}]

LEMMA SumSteps ==
  ASSUME NEW S, IsFiniteSet(S), NEW f, \A x \in S : f[x] \in Nat
  PROVE  \E it : Adds(it, f, S)
<1>1. PICK it : SumTable(it, f, S) /\ it \in [SUBSET S -> Nat] /\ it[S] = SumOver(f, S)
  BY SumTables
<1>2. it[{}] = 0
  BY <1>1 DEF SumTable
<1>3. ASSUME NEW s \in SUBSET S, s # {}
      PROVE  Pick(s) \in s /\ Pick(s) \in S /\ it[s] = f[Pick(s)] + it[s \ {Pick(s)}]
  BY <1>1, <1>3, PickFacts DEF SumTable
<1>. QED  BY <1>1, <1>2, <1>3 DEF Adds

LEMMA SumType ==
  ASSUME NEW S, IsFiniteSet(S), NEW f, \A x \in S : f[x] \in Nat
  PROVE  SumOver(f, S) \in Nat
<1>1. PICK it : Adds(it, f, S)
  BY SumSteps
<1>. QED  BY <1>1 DEF Adds

\* A sum of greater terms is greater, and of equal terms equal.
LEMMA SumMonotone ==
  ASSUME NEW S, IsFiniteSet(S), NEW f, NEW g,
         \A x \in S : f[x] \in Nat /\ g[x] \in Nat /\ f[x] <= g[x]
  PROVE  SumOver(f, S) <= SumOver(g, S)
<1>1. PICK it : Adds(it, f, S)
  <2>. \A x \in S : f[x] \in Nat
    OBVIOUS
  <2>. QED  BY SumSteps
<1>2. PICK jt : Adds(jt, g, S)
  <2>. \A x \in S : g[x] \in Nat
    OBVIOUS
  <2>. QED  BY SumSteps
<1>. DEFINE T == {s \in SUBSET S : it[s] <= jt[s]}
<1>3. {} \in T
  BY <1>1, <1>2 DEF Adds
<1>4. ASSUME NEW s \in SUBSET S, s # {} PROVE \E x \in s : s \ {x} \in T => s \in T
  <2>. DEFINE x == Pick(s)
  <2>1. x \in s /\ x \in S /\ it[s] = f[x] + it[s \ {x}] /\ jt[s] = g[x] + jt[s \ {x}]
    BY <1>1, <1>2, <1>4 DEF Adds
  <2>2. f[x] \in Nat /\ g[x] \in Nat /\ f[x] <= g[x] /\ it[s \ {x}] \in Nat /\ jt[s \ {x}] \in Nat
    BY <1>1, <1>2, <2>1 DEF Adds
  <2>. QED  BY <2>1, <2>2
<1>. HIDE DEF T
<1>5. SUBSET S \subseteq T
  BY <1>3, <1>4, SubsetInduction
<1>6. it[S] <= jt[S]
  BY <1>5 DEF T
<1>. QED  BY <1>1, <1>2, <1>6 DEF Adds

LEMMA SumEqual ==
  ASSUME NEW S, IsFiniteSet(S), NEW f, NEW g, \A x \in S : f[x] \in Nat /\ f[x] = g[x]
  PROVE  SumOver(f, S) = SumOver(g, S)
<1>1. SumOver(f, S) <= SumOver(g, S) /\ SumOver(g, S) <= SumOver(f, S)
  BY SumMonotone
<1>. QED  BY <1>1, SumType

\* The sum of sums.
LEMMA SumOfSums ==
  ASSUME NEW S, IsFiniteSet(S), NEW f, NEW g, NEW h,
         \A x \in S : f[x] \in Nat /\ g[x] \in Nat /\ h[x] = f[x] + g[x]
  PROVE  SumOver(h, S) = SumOver(f, S) + SumOver(g, S)
<1>1. PICK it : Adds(it, f, S)
  <2>. \A x \in S : f[x] \in Nat
    OBVIOUS
  <2>. QED  BY SumSteps
<1>2. PICK jt : Adds(jt, g, S)
  <2>. \A x \in S : g[x] \in Nat
    OBVIOUS
  <2>. QED  BY SumSteps
<1>0. \A x \in S : h[x] \in Nat
  OBVIOUS
<1>3. PICK kt : Adds(kt, h, S)
  BY <1>0, SumSteps
<1>. DEFINE T == {s \in SUBSET S : kt[s] = it[s] + jt[s]}
<1>4. {} \in T
  BY <1>1, <1>2, <1>3 DEF Adds
<1>5. ASSUME NEW s \in SUBSET S, s # {} PROVE \E x \in s : s \ {x} \in T => s \in T
  <2>1. PICK x \in s : /\ x \in S /\ it[s] = f[x] + it[s \ {x}]
                       /\ jt[s] = g[x] + jt[s \ {x}] /\ kt[s] = h[x] + kt[s \ {x}]
    BY <1>1, <1>2, <1>3, <1>5 DEF Adds
  <2>2. /\ f[x] \in Nat /\ g[x] \in Nat /\ h[x] = f[x] + g[x]
        /\ it[s \ {x}] \in Nat /\ jt[s \ {x}] \in Nat /\ kt[s \ {x}] \in Nat
    BY <1>1, <1>2, <1>3, <2>1 DEF Adds
  <2>3. ASSUME s \ {x} \in T PROVE s \in T
    BY <2>1, <2>2, <2>3
  <2>. HIDE DEF T
  <2>. QED  BY <2>3
<1>. HIDE DEF T
<1>6. SUBSET S \subseteq T
  BY <1>4, <1>5, SubsetInduction
<1>7. kt[S] = it[S] + jt[S]
  BY <1>6 DEF T
<1>. QED  BY <1>1, <1>2, <1>3, <1>7 DEF Adds

\* A weighted sum lies between the weights times the least and the greatest term.
LEMMA SumBetween ==
  ASSUME NEW S, IsFiniteSet(S), NEW w, NEW h, NEW lo \in Nat, NEW hi \in Nat,
         \A x \in S : w[x] \in Nat /\ h[x] \in Nat /\ lo * w[x] <= h[x] /\ h[x] <= hi * w[x]
  PROVE  lo * SumOver(w, S) <= SumOver(h, S) /\ SumOver(h, S) <= hi * SumOver(w, S)
<1>1. PICK it : Adds(it, w, S)
  <2>. \A x \in S : w[x] \in Nat
    OBVIOUS
  <2>. QED  BY SumSteps
<1>2. PICK jt : Adds(jt, h, S)
  <2>. \A x \in S : h[x] \in Nat
    OBVIOUS
  <2>. QED  BY SumSteps
<1>. DEFINE T == {s \in SUBSET S : lo * it[s] <= jt[s] /\ jt[s] <= hi * it[s]}
<1>3. {} \in T
  BY <1>1, <1>2 DEF Adds
<1>4. ASSUME NEW s \in SUBSET S, s # {} PROVE \E x \in s : s \ {x} \in T => s \in T
  <2>1. PICK x \in s : /\ x = Pick(s) /\ x \in S
                       /\ it[s] = w[x] + it[s \ {x}] /\ jt[s] = h[x] + jt[s \ {x}]
    BY <1>1, <1>2, <1>4 DEF Adds
  <2>2. ASSUME s \ {x} \in T PROVE s \in T
    <3>0. it[s \ {x}] \in Nat /\ jt[s \ {x}] \in Nat /\ w[x] \in Nat /\ h[x] \in Nat
      BY <1>1, <1>2, <2>1 DEF Adds
    <3>1. PICK a \in Nat, b \in Nat, c \in Nat, d \in Nat :
            /\ a = w[x] /\ b = it[s \ {x}] /\ c = h[x] /\ d = jt[s \ {x}]
            /\ lo * a <= c /\ c <= hi * a /\ lo * b <= d /\ d <= hi * b
      BY <2>1, <2>2, <3>0
    <3>2. it[s] = a + b /\ jt[s] = c + d
      BY <2>1, <3>1
    <3>3. lo * (a + b) = lo * a + lo * b /\ hi * (a + b) = hi * a + hi * b
      OBVIOUS
    <3>4. lo * a \in Nat /\ lo * b \in Nat /\ hi * a \in Nat /\ hi * b \in Nat
      OBVIOUS
    <3>5. lo * (a + b) <= c + d /\ c + d <= hi * (a + b)
      BY <3>1, <3>3, <3>4
    <3>. QED  BY <3>2, <3>5
  <2>. QED  BY <2>2
<1>. HIDE DEF T
<1>5. SUBSET S \subseteq T
  BY <1>3, <1>4, SubsetInduction
<1>6. lo * it[S] <= jt[S] /\ jt[S] <= hi * it[S]
  BY <1>5 DEF T
<1>. QED  BY <1>1, <1>2, <1>6 DEF Adds

\* A term is part of the sum.
LEMMA SumAtLeast ==
  ASSUME NEW S, IsFiniteSet(S), NEW f, \A x \in S : f[x] \in Nat, NEW y \in S
  PROVE  f[y] <= SumOver(f, S)
<1>1. PICK it : Adds(it, f, S)
  <2>. \A x \in S : f[x] \in Nat
    OBVIOUS
  <2>. QED  BY SumSteps
<1>. DEFINE T == {s \in SUBSET S : y \in s => f[y] <= it[s]}
<1>2. {} \in T
  OBVIOUS
<1>3. ASSUME NEW s \in SUBSET S, s # {} PROVE \E x \in s : s \ {x} \in T => s \in T
  <2>1. PICK x \in s : x \in S /\ it[s] = f[x] + it[s \ {x}]
    BY <1>1, <1>3 DEF Adds
  <2>2. f[x] \in Nat /\ f[y] \in Nat /\ it[s \ {x}] \in Nat
    BY <1>1, <2>1 DEF Adds
  <2>3. ASSUME s \ {x} \in T, y \in s PROVE f[y] <= it[s]
    <3>1. CASE y = x
      BY <2>1, <2>2, <3>1
    <3>2. CASE y # x
      <4>1. f[y] <= it[s \ {x}]
        BY <2>3, <3>2
      <4>. QED  BY <2>1, <2>2, <4>1
    <3>. QED  BY <3>1, <3>2
  <2>. QED  BY <2>3
<1>. HIDE DEF T
<1>4. SUBSET S \subseteq T
  BY <1>2, <1>3, SubsetInduction
<1>5. S \in T /\ it[S] = SumOver(f, S)
  BY <1>1, <1>4 DEF Adds
<1>. QED  BY <1>5 DEF T

\* The sum of one term, and of none.
LEMMA SumOfOne ==
  ASSUME NEW f, NEW y, f[y] \in Nat
  PROVE  SumOver(f, {y}) = f[y] /\ SumOver(f, {}) = 0
<1>1. IsFiniteSet({y}) /\ IsFiniteSet({})
  BY FS_Singleton, FS_EmptySet
<1>2. SumOver(f, {y}) = f[y]
  <2>. DEFINE S == {y}
  <2>1. PICK it : Adds(it, f, S)
    <3>. \A x \in S : f[x] \in Nat
      OBVIOUS
    <3>. HIDE DEF S
    <3>. QED  BY <1>1, SumSteps DEF S
  <2>2. Pick(S) = y /\ it[S] = f[y] + it[S \ {y}] /\ S \ {y} = {}
    BY <2>1 DEF Adds
  <2>. QED  BY <2>1, <2>2 DEF Adds
<1>3. SumOver(f, {}) = 0
  BY <1>1, SumSteps DEF Adds
<1>. QED  BY <1>2, <1>3

-------------------------------------------------------------------------------
(* Numbers.                                                                  *)

LEMMA FiniteImage ==
  ASSUME NEW S, IsFiniteSet(S), NEW f, DOMAIN f = S
  PROVE  IsFiniteSet({f[x] : x \in S})
<1>. DEFINE T == {f[x] : x \in S}
            g == [x \in S |-> f[x]]
<1>1. g \in Surjection(S, T)
  BY DEF Surjection
<1>. HIDE DEF g, T
<1>2. IsFiniteSet(T)
  BY <1>1, FS_Surjection
<1>. QED  BY <1>2 DEF T

LEMMA Division ==
  ASSUME NEW x \in Nat, NEW y \in Nat \ {0}
  PROVE  x \div y \in Nat /\ y * (x \div y) <= x /\ x < y * (x \div y) + y
BY SMT

LEMMA DivWithin ==
  ASSUME NEW x \in Nat, NEW y \in Nat \ {0}, NEW lo \in Nat, NEW hi \in Nat,
         lo * y <= x, x < hi * y + y
  PROVE  lo <= x \div y /\ x \div y <= hi
<1>. DEFINE q == x \div y
<1>1. q \in Nat /\ y * q <= x /\ x < y * q + y
  BY Division
<1>. HIDE DEF q
<1>2. ASSUME lo > q PROVE FALSE
  <2>1. PICK k \in Nat : lo = q + 1 + k
    <3>1. lo - q - 1 \in Nat /\ lo = q + 1 + (lo - q - 1)
      BY <1>1, <1>2
    <3>. QED  BY <3>1
  <2>2. lo * y = y * q + y + k * y
    BY <1>1, <2>1
  <2>3. k * y \in Nat /\ y * q \in Nat
    BY <1>1
  <2>. QED  BY <1>1, <2>2, <2>3
<1>3. ASSUME q > hi PROVE FALSE
  <2>1. PICK k \in Nat : q = hi + 1 + k
    <3>1. q - hi - 1 \in Nat /\ q = hi + 1 + (q - hi - 1)
      BY <1>1, <1>3
    <3>. QED  BY <3>1
  <2>2. y * q = hi * y + y + k * y
    BY <1>1, <2>1
  <2>3. k * y \in Nat /\ hi * y \in Nat
    OBVIOUS
  <2>. QED  BY <1>1, <2>2, <2>3
<1>. QED  BY <1>1, <1>2, <1>3 DEF q

LEMMA RatioWithin ==
  ASSUME NEW n \in Nat, NEW d \in Nat, n <= d
  PROVE  Ratio(n, d) \in 0 .. Scale
<1>1. CASE d = 0
  BY <1>1 DEF Ratio, Scale
<1>2. CASE d # 0
  <2>. DEFINE x == 2 * n * Scale + d
  <2>1. x \in Nat /\ 2 * d \in Nat \ {0} /\ 0 * (2 * d) <= x /\ x < 10000 * (2 * d) + 2 * d
    BY <1>2 DEF Scale
  <2>. HIDE DEF x
  <2>. DEFINE q == x \div (2 * d)
  <2>2. q \in Nat /\ q <= 10000
    BY <2>1, DivWithin, Division
  <2>3. Ratio(n, d) = q
    BY <1>2, Zenon DEF Ratio, x
  <2>. HIDE DEF q
  <2>. QED  BY <2>2, <2>3 DEF Scale
<1>. QED  BY <1>1, <1>2

LEMMA PartWithin ==
  ASSUME NEW share \in 0 .. Scale, NEW x \in 0 .. Scale
  PROVE  Part(share, x) \in 0 .. Scale
<1>1. 0 <= share * x /\ share * x <= 10000 * 10000
  <2>1. PICK k \in Nat, m \in Nat : share + k = 10000 /\ x + m = 10000
    <3>1. 10000 - share \in Nat /\ 10000 - x \in Nat
      BY DEF Scale
    <3>2. share + (10000 - share) = 10000 /\ x + (10000 - x) = 10000
      BY DEF Scale
    <3>. QED  BY <3>1, <3>2
  <2>2. share * x \in Nat /\ share * m \in Nat /\ share * x + share * m = share * (x + m)
    BY <2>1 DEF Scale
  <2>3. share * (x + m) = share * 10000
    BY <2>1
  <2>4. share * 10000 <= 10000 * 10000
    BY DEF Scale
  <2>. QED  BY <2>2, <2>3, <2>4
<1>2. share * x \in Nat
  BY DEF Scale
<1>. DEFINE p == share * x
<1>. HIDE DEF p
<1>3. p \in Nat /\ p <= 100000000
  BY <1>1, <1>2 DEF p
<1>. DEFINE top == 10000
            q == (p + 5000) \div 10000
<1>4. q \in Nat /\ q <= 10000
  BY <1>3
<1>5. top \in Nat /\ top = 10000 /\ Scale = top
  BY DEF Scale
<1>6. Part(share, x) = q
  BY DEF Part, Scale, p
<1>. HIDE DEF top, q
<1>7. q \in 0 .. top
  BY <1>4, <1>5, SMTT(30)
<1>8. Scale = top
  BY <1>5
<1>. QED  BY <1>6, <1>7, <1>8, Zenon

LEMMA LeastMost ==
  ASSUME NEW x \in Nat, NEW y \in Nat
  PROVE  /\ Least(x, y) \in Nat /\ Most(x, y) \in Nat
         /\ Least(x, y) = Least(y, x) /\ Most(x, y) = Most(y, x)
         /\ Least(x, y) <= x /\ Least(x, y) <= y /\ Least(x, y) <= Most(x, y)
BY DEF Least, Most

-------------------------------------------------------------------------------
(* The kernel: of two people, whatever the store holds of them.              *)

\* The edges of a person, as far as the kernel relies on them.
Weighted(es) == IsFiniteSet(es) /\ \A e \in es : e.weight \in Nat

\* The weight of a node is the sum of the weights of its edges.
LEMMA WeightSum ==
  ASSUME NEW es, Weighted(es), NEW n
  PROVE  Weight(es, n) = SumOver([e \in es |-> IF e.node = n THEN e.weight ELSE 0], es)
<1>. DEFINE f == [e \in es |-> IF e.node = n THEN e.weight ELSE 0]
<1>1. \A e \in es : f[e] \in Nat
  BY DEF Weighted
<1>2. PICK it : SumTable(it, f, es) /\ it[es] = SumOver(f, es) /\ \A jt : SumTable(jt, f, es) => jt = it
  <2>. HIDE DEF f
  <2>. QED  BY <1>1, SumTables DEF Weighted
<1>3. \A jt : SumTable(jt, f, es) <=>
        jt = [s \in SUBSET es |-> IF s = {} THEN 0
                ELSE (IF Pick(s).node = n THEN Pick(s).weight ELSE 0) + jt[s \ {Pick(s)}]]
  <2>1. \A s \in SUBSET es : s # {} => f[Pick(s)] = IF Pick(s).node = n THEN Pick(s).weight ELSE 0
    BY PickFacts
  <2>. HIDE DEF f
  <2>. QED  BY <2>1 DEF SumTable
<1>. HIDE DEF f
<1>4. (CHOOSE jt : jt = [s \in SUBSET es |-> IF s = {} THEN 0
                ELSE (IF Pick(s).node = n THEN Pick(s).weight ELSE 0) + jt[s \ {Pick(s)}]]) = it
  BY <1>2, <1>3
<1>5. Weight(es, n) = it[es]
  BY <1>4 DEF Weight, MapThenSumSet, MapThenFoldSet, Pick
<1>. QED  BY <1>2, <1>5 DEF f

LEMMA WeightType ==
  ASSUME NEW es, Weighted(es), NEW n
  PROVE  Weight(es, n) \in Nat
<1>. DEFINE f == [e \in es |-> IF e.node = n THEN e.weight ELSE 0]
<1>1. \A e \in es : f[e] \in Nat
  BY DEF Weighted
<1>2. SumOver(f, es) \in Nat
  <2>. HIDE DEF f
  <2>. QED  BY <1>1, SumType DEF Weighted
<1>. QED  BY <1>2, WeightSum

LEMMA FiniteNodes ==
  ASSUME NEW es, IsFiniteSet(es)
  PROVE  IsFiniteSet(Specific(es)) /\ IsFiniteSet(Broad(es)) /\ IsFiniteSet(CauseNodes(es))
<1>1. IsFiniteSet({f \in es : f.node[2] # General}) /\ IsFiniteSet(Causes(es))
  BY FS_Subset DEF Causes
<1>2. ASSUME NEW S, IsFiniteSet(S) PROVE IsFiniteSet({e.node : e \in S}) /\ IsFiniteSet({e.node[1] : e \in S})
  <2>. DEFINE f == [e \in S |-> e.node]
              g == [e \in S |-> e.node[1]]
  <2>1. IsFiniteSet({f[e] : e \in S}) /\ IsFiniteSet({g[e] : e \in S})
    <3>. DOMAIN f = S /\ DOMAIN g = S
      OBVIOUS
    <3>. HIDE DEF f, g
    <3>. QED  BY <1>2, FiniteImage
  <2>2. {f[e] : e \in S} = {e.node : e \in S} /\ {g[e] : e \in S} = {e.node[1] : e \in S}
    OBVIOUS
  <2>. QED  BY <2>1, <2>2
<1>. QED  BY <1>1, <1>2 DEF Specific, Broad, CauseNodes

\* The sums of the weighted overlap, over the nodes of both.
LowSum(a, b, nodes) == MapThenSumSet(LAMBDA n : Least(Weight(a, n), Weight(b, n)), nodes)
HighSum(a, b, nodes) == MapThenSumSet(LAMBDA n : Most(Weight(a, n), Weight(b, n)), nodes)

LEMMA JaccardSums ==
  ASSUME NEW a, NEW b, Weighted(a), Weighted(b), NEW nodes, IsFiniteSet(nodes)
  PROVE  /\ LowSum(a, b, nodes) = SumOver([n \in nodes |-> Least(Weight(a, n), Weight(b, n))], nodes)
         /\ HighSum(a, b, nodes) = SumOver([n \in nodes |-> Most(Weight(a, n), Weight(b, n))], nodes)
<1>. DEFINE f == [n \in nodes |-> Least(Weight(a, n), Weight(b, n))]
            g == [n \in nodes |-> Most(Weight(a, n), Weight(b, n))]
<1>1. \A n \in nodes : f[n] \in Nat /\ g[n] \in Nat
  BY WeightType, LeastMost
<1>2. PICK it : /\ SumTable(it, f, nodes) /\ it[nodes] = SumOver(f, nodes)
                /\ \A jt : SumTable(jt, f, nodes) => jt = it
  <2>. HIDE DEF f
  <2>. QED  BY <1>1, SumTables
<1>3. PICK kt : /\ SumTable(kt, g, nodes) /\ kt[nodes] = SumOver(g, nodes)
                /\ \A jt : SumTable(jt, g, nodes) => jt = kt
  <2>. HIDE DEF f, g
  <2>. QED  BY <1>1, SumTables
<1>4. \A jt : SumTable(jt, f, nodes) <=>
        jt = [s \in SUBSET nodes |-> IF s = {} THEN 0
                ELSE Least(Weight(a, Pick(s)), Weight(b, Pick(s))) + jt[s \ {Pick(s)}]]
  <2>1. \A s \in SUBSET nodes : s # {} => f[Pick(s)] = Least(Weight(a, Pick(s)), Weight(b, Pick(s)))
    BY PickFacts
  <2>. HIDE DEF f
  <2>. QED  BY <2>1 DEF SumTable
<1>5. \A jt : SumTable(jt, g, nodes) <=>
        jt = [s \in SUBSET nodes |-> IF s = {} THEN 0
                ELSE Most(Weight(a, Pick(s)), Weight(b, Pick(s))) + jt[s \ {Pick(s)}]]
  <2>1. \A s \in SUBSET nodes : s # {} => g[Pick(s)] = Most(Weight(a, Pick(s)), Weight(b, Pick(s)))
    BY PickFacts
  <2>. HIDE DEF f, g
  <2>. QED  BY <2>1 DEF SumTable
<1>. HIDE DEF f, g
<1>6. (CHOOSE jt : jt = [s \in SUBSET nodes |-> IF s = {} THEN 0
          ELSE Least(Weight(a, Pick(s)), Weight(b, Pick(s))) + jt[s \ {Pick(s)}]]) = it
  BY <1>2, <1>4
<1>7. (CHOOSE jt : jt = [s \in SUBSET nodes |-> IF s = {} THEN 0
          ELSE Most(Weight(a, Pick(s)), Weight(b, Pick(s))) + jt[s \ {Pick(s)}]]) = kt
  BY <1>3, <1>5
<1>8. LowSum(a, b, nodes) = it[nodes]
  BY <1>6 DEF LowSum, MapThenSumSet, MapThenFoldSet, Pick
<1>9. HighSum(a, b, nodes) = kt[nodes]
  BY <1>7 DEF HighSum, MapThenSumSet, MapThenFoldSet, Pick
<1>. QED  BY <1>2, <1>3, <1>8, <1>9 DEF f, g

LEMMA JaccardFair ==
  ASSUME NEW a, NEW b, Weighted(a), Weighted(b)
  PROVE  WeightedJaccard(a, b) = WeightedJaccard(b, a) /\ WeightedJaccard(a, b) \in 0 .. Scale
<1>. DEFINE nodes == Specific(a) \cup Specific(b)
            Low(x, y) == [n \in nodes |-> Least(Weight(x, n), Weight(y, n))]
            High(x, y) == [n \in nodes |-> Most(Weight(x, n), Weight(y, n))]
<1>1. IsFiniteSet(nodes) /\ nodes = Specific(b) \cup Specific(a)
  BY FiniteNodes, FS_Union DEF Weighted
<1>2. Low(a, b) = Low(b, a) /\ High(a, b) = High(b, a)
  BY WeightType, LeastMost
<1>3. \A n \in nodes : Low(a, b)[n] \in Nat /\ High(a, b)[n] \in Nat /\ Low(a, b)[n] <= High(a, b)[n]
  BY WeightType, LeastMost
<1>4. /\ SumOver(Low(a, b), nodes) \in Nat /\ SumOver(High(a, b), nodes) \in Nat
      /\ SumOver(Low(a, b), nodes) <= SumOver(High(a, b), nodes)
  <2>. HIDE DEF Low, High, nodes
  <2>. QED  BY <1>1, <1>3, SumType, SumMonotone
<1>5. /\ LowSum(a, b, nodes) = SumOver(Low(a, b), nodes) /\ LowSum(b, a, nodes) = SumOver(Low(b, a), nodes)
      /\ HighSum(a, b, nodes) = SumOver(High(a, b), nodes) /\ HighSum(b, a, nodes) = SumOver(High(b, a), nodes)
  BY <1>1, JaccardSums
<1>6. /\ WeightedJaccard(a, b) = Ratio(LowSum(a, b, nodes), HighSum(a, b, nodes))
      /\ WeightedJaccard(b, a) = Ratio(LowSum(b, a, nodes), HighSum(b, a, nodes))
  <2>1. WeightedJaccard(a, b) = Ratio(LowSum(a, b, nodes), HighSum(a, b, nodes))
    BY DEF WeightedJaccard, LowSum, HighSum, MapThenSumSet, MapThenFoldSet
  <2>2. WeightedJaccard(b, a) = Ratio(LowSum(b, a, Specific(b) \cup Specific(a)), HighSum(b, a, Specific(b) \cup Specific(a)))
    BY DEF WeightedJaccard, LowSum, HighSum, MapThenSumSet, MapThenFoldSet
  <2>. QED  BY <2>1, <2>2, <1>1
<1>. HIDE DEF Low, High
<1>. QED  BY <1>2, <1>4, <1>5, <1>6, RatioWithin

LEMMA BinaryFair ==
  ASSUME NEW s, NEW t, IsFiniteSet(s), IsFiniteSet(t)
  PROVE  BinaryJaccard(s, t) = BinaryJaccard(t, s) /\ BinaryJaccard(s, t) \in 0 .. Scale
<1>1. s \cap t = t \cap s /\ s \cup t = t \cup s
  OBVIOUS
<1>2. IsFiniteSet(s \cup t) /\ s \cap t \in SUBSET (s \cup t)
  BY FS_Union
<1>3. Cardinality(s \cap t) \in Nat /\ Cardinality(s \cup t) \in Nat /\ Cardinality(s \cap t) <= Cardinality(s \cup t)
  BY <1>2, FS_Subset, FS_CardinalityType
<1>. QED  BY <1>1, <1>3, RatioWithin DEF BinaryJaccard

LEMMA InterestFair ==
  ASSUME NEW a, NEW b, Weighted(a), Weighted(b)
  PROVE  /\ InterestComponent(a, b) = InterestComponent(b, a)
         /\ InterestComponent(a, b).score \in 0 .. Scale
<1>. DEFINE x == a \ Causes(a)
            y == b \ Causes(b)
<1>1. Weighted(x) /\ Weighted(y)
  BY FS_Subset DEF Weighted
<1>2. WeightedJaccard(x, y) = WeightedJaccard(y, x) /\ WeightedJaccard(x, y) \in 0 .. Scale
  BY <1>1, JaccardFair
<1>3. /\ BinaryJaccard(Broad(x), Broad(y)) = BinaryJaccard(Broad(y), Broad(x))
      /\ BinaryJaccard(Broad(x), Broad(y)) \in 0 .. Scale
  BY <1>1, FiniteNodes, BinaryFair DEF Weighted
<1>4. Part(Settings.broad, BinaryJaccard(Broad(x), Broad(y))) \in 0 .. Scale
  <2>. Settings.broad \in 0 .. Scale
    BY DEF Settings, Scale
  <2>. QED  BY <1>3, PartWithin
<1>5. Broad(x) \cap Broad(y) = Broad(y) \cap Broad(x) /\ Specific(x) \cap Specific(y) = Specific(y) \cap Specific(x)
  OBVIOUS
<1>. HIDE DEF x, y
<1>. DEFINE w == WeightedJaccard(x, y)
            p == Part(Settings.broad, BinaryJaccard(Broad(x), Broad(y)))
            I(v, q, n, s) ==
              CASE v > 0 -> [score |-> v, nodes |-> n, broad |-> s, type |-> "specific"]
                [] v = 0 /\ q > 0 -> [score |-> q, nodes |-> {}, broad |-> s, type |-> "broad_only"]
                [] OTHER -> [score |-> 0, nodes |-> {}, broad |-> s, type |-> "none"]
<1>6. InterestComponent(a, b) = I(w, p, Specific(x) \cap Specific(y), Broad(x) \cap Broad(y))
  BY Zenon DEF InterestComponent, x, y
<1>7. InterestComponent(b, a) = I(w, p, Specific(x) \cap Specific(y), Broad(x) \cap Broad(y))
  <2>1. InterestComponent(b, a) = I(WeightedJaccard(y, x), Part(Settings.broad, BinaryJaccard(Broad(y), Broad(x))),
                                    Specific(y) \cap Specific(x), Broad(y) \cap Broad(x))
    BY Zenon DEF InterestComponent, x, y
  <2>. HIDE DEF I
  <2>. QED  BY <2>1, <1>2, <1>3, <1>5
<1>8. w \in 0 .. Scale /\ p \in 0 .. Scale
  BY <1>2, <1>4
<1>. HIDE DEF w, p
<1>9. ASSUME NEW n, NEW s PROVE I(w, p, n, s).score \in 0 .. Scale
  <2>1. 0 \in 0 .. Scale
    BY DEF Scale
  <2>. QED  BY <1>8, <2>1
<1>10. I(w, p, Specific(x) \cap Specific(y), Broad(x) \cap Broad(y)).score \in 0 .. Scale
  BY <1>9
<1>. HIDE DEF I
<1>. QED  BY <1>6, <1>7, <1>10

-------------------------------------------------------------------------------
(* Dimensions.                                                               *)

\* Each axis has its matrix; the matrices are symmetric.
LEMMA AxisMatrix ==
  ASSUME NEW axis \in DOMAIN Axes, NEW i \in 1 .. 3, NEW j \in 1 .. 3
  PROVE  /\ Axes[axis].score[i][j] = Axes[axis].score[j][i]
         /\ Axes[axis].score[i][j] \in {2000, 3000, 5000, 6000, 7000, 8000, 10000}
<1>1. Axes[axis].score \in {Similar, Predictable, Structured}
  BY DEF Axes
<1>2. i \in {1, 2, 3} /\ j \in {1, 2, 3}
  OBVIOUS
<1>3. ASSUME NEW M \in {Similar, Predictable, Structured}
      PROVE  M[i][j] = M[j][i] /\ M[i][j] \in {2000, 3000, 5000, 6000, 7000, 8000, 10000}
  <2>1. CASE M = Similar
    BY <1>2, <2>1 DEF Similar
  <2>2. CASE M = Predictable
    BY <1>2, <2>2 DEF Predictable
  <2>3. CASE M = Structured
    BY <1>2, <2>3 DEF Structured
  <2>. QED  BY <2>1, <2>2, <2>3
<1>. QED  BY <1>1, <1>3

LEMMA AxisScoreFair ==
  ASSUME NEW axis \in DOMAIN Axes, NEW v, NEW w
  PROVE  /\ AxisScore(axis, v, w) = AxisScore(axis, w, v)
         /\ AxisScore(axis, v, w) \subseteq {2000, 3000, 5000, 6000, 7000, 8000, 10000}
<1>. DEFINE Places(x) == {i \in 1 .. 3 : Axes[axis].order[i] = x}
            M == Axes[axis].score
<1>0. \A i, j \in 1 .. 3 : M[i][j] = M[j][i] /\ M[i][j] \in {2000, 3000, 5000, 6000, 7000, 8000, 10000}
  BY AxisMatrix
<1>1. AxisScore(axis, v, w) = {M[i][j] : i \in Places(v), j \in Places(w)}
  BY DEF AxisScore
<1>2. AxisScore(axis, w, v) = {M[i][j] : i \in Places(w), j \in Places(v)}
  BY DEF AxisScore
<1>3. Places(v) \subseteq 1 .. 3 /\ Places(w) \subseteq 1 .. 3
  OBVIOUS
<1>. HIDE DEF M, Places
<1>. QED  BY <1>0, <1>1, <1>2, <1>3

\* A match: an axis both are known on, and its score.
LEMMA MatchOf ==
  ASSUME NEW a, NEW b, NEW x
  PROVE  x \in DimensionMatches(a, b) <=>
           \E d \in a, e \in b :
             /\ d.axis = e.axis /\ d.axis \in DOMAIN Axes
             /\ d.confidence >= Settings.axisFloor /\ e.confidence >= Settings.axisFloor
             /\ \E s \in AxisScore(d.axis, d.value, e.value) : x = <<d.axis, s>>
<1>. DEFINE known == {p \in a \X b : /\ p[1].axis = p[2].axis /\ p[1].axis \in DOMAIN Axes
                                     /\ p[1].confidence >= Settings.axisFloor
                                     /\ p[2].confidence >= Settings.axisFloor}
            Scores(p) == {<<p[1].axis, s>> : s \in AxisScore(p[1].axis, p[1].value, p[2].value)}
<1>1. DimensionMatches(a, b) = UNION {Scores(p) : p \in known}
  BY DEF DimensionMatches
<1>2. x \in UNION {Scores(p) : p \in known} <=> \E p \in known : x \in Scores(p)
  <2>. HIDE DEF Scores, known
  <2>. QED  OBVIOUS
<1>3. \A d \in a, e \in b : <<d, e>> \in known <=>
        /\ d.axis = e.axis /\ d.axis \in DOMAIN Axes
        /\ d.confidence >= Settings.axisFloor /\ e.confidence >= Settings.axisFloor
  OBVIOUS
<1>4. \A d, e : x \in Scores(<<d, e>>) <=> \E s \in AxisScore(d.axis, d.value, e.value) : x = <<d.axis, s>>
  OBVIOUS
<1>5. (\E p \in known : x \in Scores(p)) <=> (\E d \in a, e \in b : <<d, e>> \in known /\ x \in Scores(<<d, e>>))
  <2>1. \A p \in known : p[1] \in a /\ p[2] \in b /\ p = <<p[1], p[2]>>
    OBVIOUS
  <2>. HIDE DEF Scores, known
  <2>. QED  BY <2>1
<1>. HIDE DEF Scores, known
<1>6. x \in DimensionMatches(a, b) <=> \E d \in a, e \in b : <<d, e>> \in known /\ x \in Scores(<<d, e>>)
  BY <1>1, <1>2, <1>5
<1>7. ASSUME x \in DimensionMatches(a, b)
      PROVE  \E d \in a, e \in b :
               /\ d.axis = e.axis /\ d.axis \in DOMAIN Axes
               /\ d.confidence >= Settings.axisFloor /\ e.confidence >= Settings.axisFloor
               /\ \E s \in AxisScore(d.axis, d.value, e.value) : x = <<d.axis, s>>
  <2>1. PICK d \in a, e \in b : <<d, e>> \in known /\ x \in Scores(<<d, e>>)
    BY <1>6, <1>7
  <2>2. /\ d.axis = e.axis /\ d.axis \in DOMAIN Axes
        /\ d.confidence >= Settings.axisFloor /\ e.confidence >= Settings.axisFloor
    BY <1>3, <2>1, Zenon
  <2>3. \E s \in AxisScore(d.axis, d.value, e.value) : x = <<d.axis, s>>
    BY <1>4, <2>1, Zenon
  <2>. QED  BY <2>2, <2>3, Zenon
<1>8. ASSUME NEW d \in a, NEW e \in b, d.axis = e.axis, d.axis \in DOMAIN Axes,
             d.confidence >= Settings.axisFloor, e.confidence >= Settings.axisFloor,
             \E s \in AxisScore(d.axis, d.value, e.value) : x = <<d.axis, s>>
      PROVE  x \in DimensionMatches(a, b)
  BY <1>3, <1>4, <1>6, <1>8, Zenon
<1>. QED  BY <1>7, <1>8, Zenon

AxisNames == DOMAIN Axes

(* A score is a natural number up to the scale.                              *)
LEMMA ScoreRange ==
  ASSUME NEW v \in Nat, v <= 10000
  PROVE  v \in 0 .. Scale
BY SMTT(30) DEF Scale

LEMMA MatchesFair ==
  ASSUME NEW a, NEW b
  PROVE  /\ DimensionMatches(a, b) = DimensionMatches(b, a)
         /\ DimensionMatches(a, b) \subseteq AxisNames \X {2000, 3000, 5000, 6000, 7000, 8000, 10000}
<1>1. ASSUME NEW c, NEW d, NEW x \in DimensionMatches(c, d)
      PROVE  /\ x \in DimensionMatches(d, c)
             /\ x \in AxisNames \X {2000, 3000, 5000, 6000, 7000, 8000, 10000}
  <2>1. PICK e \in c, f \in d :
          /\ e.axis = f.axis /\ e.axis \in DOMAIN Axes
          /\ e.confidence >= Settings.axisFloor /\ f.confidence >= Settings.axisFloor
          /\ \E s \in AxisScore(e.axis, e.value, f.value) : x = <<e.axis, s>>
    BY MatchOf
  <2>2. PICK s \in AxisScore(e.axis, e.value, f.value) : x = <<e.axis, s>>
    BY <2>1
  <2>3. s \in AxisScore(f.axis, f.value, e.value) /\ s \in {2000, 3000, 5000, 6000, 7000, 8000, 10000}
    BY <2>1, AxisScoreFair
  <2>4. x \in DimensionMatches(d, c)
    BY <2>1, <2>2, <2>3, MatchOf
  <2>5. x \in AxisNames \X {2000, 3000, 5000, 6000, 7000, 8000, 10000}
    <3>1. e.axis \in AxisNames
      BY <2>1 DEF AxisNames
    <3>. QED  BY <2>2, <2>3, <3>1
  <2>. QED  BY <2>4, <2>5
<1>. QED  BY <1>1

LEMMA AxesFinite == IsFiniteSet(DOMAIN Axes) /\ Cardinality(DOMAIN Axes) = 5
<1>1. DOMAIN Axes = ((({"topic_focus"} \cup {"interest_intensity"}) \cup {"social_predictability_need"})
                      \cup {"sensory_sensitivity"}) \cup {"structure_preference"}
  BY DEF Axes
<1>2. IsFiniteSet({"topic_focus"}) /\ Cardinality({"topic_focus"}) = 1
  BY FS_Singleton
<1>. DEFINE A == {"topic_focus"} \cup {"interest_intensity"}
            B == A \cup {"social_predictability_need"}
            C == B \cup {"sensory_sensitivity"}
<1>3. IsFiniteSet(A) /\ Cardinality(A) = 2
  BY <1>2, FS_AddElement
<1>4. IsFiniteSet(B) /\ Cardinality(B) = 3
  <2>1. "social_predictability_need" \notin A
    OBVIOUS
  <2>. HIDE DEF A
  <2>. QED  BY <1>3, <2>1, FS_AddElement
<1>5. IsFiniteSet(C) /\ Cardinality(C) = 4
  <2>1. "sensory_sensitivity" \notin B
    OBVIOUS
  <2>. HIDE DEF B
  <2>. QED  BY <1>4, <2>1, FS_AddElement
<1>6. "structure_preference" \notin C
  OBVIOUS
<1>. HIDE DEF C
<1>7. IsFiniteSet(C \cup {"structure_preference"}) /\ Cardinality(C \cup {"structure_preference"}) = 5
  BY <1>5, <1>6, FS_AddElement
<1>. QED  BY <1>1, <1>7 DEF C

LEMMA MatchesFinite ==
  ASSUME NEW a, NEW b
  PROVE  IsFiniteSet(DimensionMatches(a, b))
<1>. DEFINE V == {2000, 3000, 5000, 6000, 7000, 8000, 10000}
<1>1. IsFiniteSet(V)
  <2>1. V \in SUBSET Nat /\ \A x \in V : x <= 10000
    OBVIOUS
  <2>. HIDE DEF V
  <2>. QED  BY <2>1, FS_BoundedSetOfNaturals
<1>2. IsFiniteSet(AxisNames)
  BY AxesFinite DEF AxisNames
<1>3. DimensionMatches(a, b) \in SUBSET (AxisNames \X V)
  BY MatchesFair
<1>. HIDE DEF V
<1>4. IsFiniteSet(AxisNames \X V)
  BY <1>1, <1>2, FS_Product
<1>. QED  BY <1>3, <1>4, FS_Subset

\* The sum of as many ones.
LEMMA SumOfOnes ==
  ASSUME NEW S, IsFiniteSet(S)
  PROVE  SumOver([x \in S |-> 1], S) = Cardinality(S)
<1>. DEFINE f == [x \in S |-> 1]
<1>1. \A x \in S : f[x] \in Nat
  OBVIOUS
<1>2. PICK it : Adds(it, f, S)
  <2>. HIDE DEF f
  <2>. QED  BY <1>1, SumSteps
<1>. DEFINE T == {s \in SUBSET S : it[s] = Cardinality(s)}
<1>3. {} \in T
  BY <1>2, FS_EmptySet DEF Adds
<1>4. ASSUME NEW s \in SUBSET S, s # {} PROVE \E x \in s : s \ {x} \in T => s \in T
  <2>1. PICK x \in s : x \in S /\ it[s] = f[x] + it[s \ {x}]
    BY <1>2, <1>4 DEF Adds
  <2>2. f[x] = 1 /\ Cardinality(s) \in Nat /\ Cardinality(s \ {x}) = Cardinality(s) - 1
    BY <2>1, FS_Subset, FS_RemoveElement, FS_CardinalityType
  <2>3. ASSUME s \ {x} \in T PROVE s \in T
    <3>1. it[s] = 1 + (Cardinality(s) - 1)
      BY <2>1, <2>2, <2>3
    <3>. QED  BY <2>2, <3>1
  <2>. HIDE DEF T
  <2>. QED  BY <2>3
<1>. HIDE DEF T
<1>5. S \in T
  BY <1>3, <1>4, SubsetInduction
<1>. QED  BY <1>2, <1>5 DEF T, Adds

LEMMA ScaleType == Scale \in Nat /\ Scale <= 10000
BY DEF Scale

\* The mean of the matches is on the scale.
MatchSum(ds) == MapThenSumSet(LAMBDA x : x[2], ds)

LEMMA DimensionScoreWithin ==
  ASSUME NEW ds, IsFiniteSet(ds), ds # {}, \A x \in ds : x[2] \in 0 .. Scale
  PROVE  DimensionScore(ds) \in 0 .. Scale
<1>. DEFINE f == [x \in ds |-> x[2]]
            ones == [x \in ds |-> 1]
<1>. DEFINE top == Scale
<1>0. top \in Nat /\ top <= 10000
  BY ScaleType DEF top
<1>. HIDE DEF top
<1>a. \A x \in ds : f[x] \in 0 .. top /\ ones[x] = 1
  BY Zenon DEF top
<1>1. \A x \in ds : f[x] \in Nat /\ ones[x] \in Nat /\ 0 * ones[x] <= f[x] /\ f[x] <= 10000 * ones[x]
  <2>. SUFFICES ASSUME NEW x \in ds
                PROVE  f[x] \in Nat /\ ones[x] \in Nat /\ 0 * ones[x] <= f[x] /\ f[x] <= 10000 * ones[x]
    OBVIOUS
  <2>. DEFINE v == f[x]
              o == ones[x]
  <2>1. v \in 0 .. top /\ o = 1
    BY <1>a
  <2>. HIDE DEF f, ones, v, o
  <2>2. v \in Nat /\ o \in Nat /\ 0 * o <= v /\ v <= 10000 * o
    BY <1>0, <2>1
  <2>. QED  BY <2>2 DEF v, o
<1>2. PICK it : SumTable(it, f, ds) /\ it[ds] = SumOver(f, ds) /\ \A jt : SumTable(jt, f, ds) => jt = it
  <2>. HIDE DEF f, ones
  <2>1. \A x \in ds : f[x] \in Nat
    BY <1>1
  <2>. QED  BY <2>1, SumTables
<1>3. \A jt : SumTable(jt, f, ds) <=>
        jt = [s \in SUBSET ds |-> IF s = {} THEN 0 ELSE Pick(s)[2] + jt[s \ {Pick(s)}]]
  <2>1. \A s \in SUBSET ds : s # {} => f[Pick(s)] = Pick(s)[2]
    BY PickFacts
  <2>. HIDE DEF f, ones
  <2>. QED  BY <2>1 DEF SumTable
<1>. HIDE DEF f, ones
<1>4. (CHOOSE jt : jt = [s \in SUBSET ds |-> IF s = {} THEN 0 ELSE Pick(s)[2] + jt[s \ {Pick(s)}]]) = it
  BY <1>2, <1>3
<1>5. MatchSum(ds) = SumOver(f, ds)
  <2>1. MatchSum(ds) = it[ds]
    BY <1>4 DEF MatchSum, MapThenSumSet, MapThenFoldSet, Pick
  <2>. QED  BY <1>2, <2>1
<1>. DEFINE n == Cardinality(ds)
            total == MatchSum(ds)
<1>6. n \in Nat /\ n # 0
  BY FS_CardinalityType, FS_EmptySet
<1>7. SumOver(ones, ds) = n
  BY SumOfOnes DEF ones
<1>8. total \in Nat /\ total <= 10000 * n
  <2>1. SumOver(f, ds) \in Nat
    BY <1>1, SumType
  <2>2. SumOver(f, ds) <= 10000 * SumOver(ones, ds)
    BY <1>1, SumBetween
  <2>. QED  BY <1>5, <1>7, <2>1, <2>2
<1>9. DimensionScore(ds) = (2 * total + n) \div (2 * n)
  BY DEF DimensionScore, MatchSum, MapThenSumSet, MapThenFoldSet
<1>. HIDE DEF n, total
<1>. DEFINE x == 2 * total + n
            q == x \div (2 * n)
<1>10. x \in Nat /\ 2 * n \in Nat \ {0} /\ 0 * (2 * n) <= x /\ x < 10000 * (2 * n) + 2 * n
  BY <1>6, <1>8
<1>. HIDE DEF x
<1>11. q \in Nat /\ q <= 10000
  BY <1>10, DivWithin, Division
<1>12. DimensionScore(ds) = q
  BY <1>9, Zenon DEF x
<1>. HIDE DEF q
<1>13. q \in 0 .. Scale
  BY <1>11, ScoreRange
<1>. QED  BY <1>12, <1>13

-------------------------------------------------------------------------------
(* The score and the confidence.                                             *)

LEMMA ComponentsFair ==
  ASSUME NEW a, NEW b, Weighted(a.edges), Weighted(b.edges)
  PROVE  /\ Components(a, b) = Components(b, a)
         /\ IsFiniteSet(Components(a, b)) /\ Components(a, b) # {}
         /\ \A c \in Components(a, b) : c[2] \in 1 .. Scale /\ c[3] \in 0 .. Scale
<1>. DEFINE ds == DimensionMatches(a.dims, b.dims)
            ca == CauseNodes(a.edges)
            cb == CauseNodes(b.edges)
            i == InterestComponent(a.edges, b.edges).score
            v == BinaryJaccard(ca, cb)
            Parts(d, j, x, y) ==
              {<<"interest", Settings.interest, j>>}
                \cup (IF d = {} THEN {} ELSE {<<"dimension", Settings.dimension, DimensionScore(d)>>})
                \cup (IF x \cup y = {} THEN {} ELSE {<<"values", Settings.values, BinaryJaccard(x, y)>>})
<1>1. Components(a, b) = Parts(ds, i, ca, cb)
  BY DEF Components
<1>2. Components(b, a) = Parts(DimensionMatches(b.dims, a.dims), InterestComponent(b.edges, a.edges).score, cb, ca)
  BY DEF Components
<1>3. DimensionMatches(b.dims, a.dims) = ds
  BY MatchesFair
<1>4. InterestComponent(b.edges, a.edges).score = i /\ i \in 0 .. Scale
  BY InterestFair
<1>5. IsFiniteSet(ca) /\ IsFiniteSet(cb)
  BY FiniteNodes DEF Weighted
<1>6. BinaryJaccard(cb, ca) = v /\ v \in 0 .. Scale
  BY <1>5, BinaryFair
<1>7. IsFiniteSet(ds) /\ \A x \in ds : x[2] \in 0 .. Scale
  <2>1. \A w \in {2000, 3000, 5000, 6000, 7000, 8000, 10000} : w \in Nat /\ w <= 10000
    OBVIOUS
  <2>2. ds \subseteq AxisNames \X {2000, 3000, 5000, 6000, 7000, 8000, 10000} /\ IsFiniteSet(ds)
    BY MatchesFinite, MatchesFair
  <2>. HIDE DEF ds
  <2>3. \A x \in ds : x[2] \in {2000, 3000, 5000, 6000, 7000, 8000, 10000}
    BY <2>2
  <2>. QED  BY <2>1, <2>2, <2>3, ScoreRange
<1>8. ds # {} => DimensionScore(ds) \in 0 .. Scale
  BY <1>7, DimensionScoreWithin
<1>. HIDE DEF ds, ca, cb, i, v
<1>9. Parts(ds, i, ca, cb) = Parts(ds, i, cb, ca)
  <2>. ca \cup cb = cb \cup ca
    OBVIOUS
  <2>. QED  BY <1>6 DEF v
<1>10. Components(a, b) = Components(b, a)
  <2>. HIDE DEF Parts
  <2>. QED  BY <1>1, <1>2, <1>3, <1>4, <1>9
<1>11. IsFiniteSet(Parts(ds, i, ca, cb)) /\ Parts(ds, i, ca, cb) # {}
  <2>1. IsFiniteSet({<<"interest", Settings.interest, i>>})
    BY FS_Singleton
  <2>2. IsFiniteSet(IF ds = {} THEN {} ELSE {<<"dimension", Settings.dimension, DimensionScore(ds)>>})
    BY FS_Singleton, FS_EmptySet
  <2>3. IsFiniteSet(IF ca \cup cb = {} THEN {} ELSE {<<"values", Settings.values, BinaryJaccard(ca, cb)>>})
    BY FS_Singleton, FS_EmptySet
  <2>. QED  BY <2>1, <2>2, <2>3, FS_Union
<1>12. \A c \in Parts(ds, i, ca, cb) : c[2] \in 1 .. Scale /\ c[3] \in 0 .. Scale
  <2>1. Settings.interest \in 1 .. Scale /\ Settings.dimension \in 1 .. Scale /\ Settings.values \in 1 .. Scale
    BY DEF Settings, Scale
  <2>2. BinaryJaccard(ca, cb) \in 0 .. Scale
    BY <1>6 DEF v
  <2>. QED  BY <1>4, <1>8, <2>1, <2>2
<1>. HIDE DEF Parts
<1>. QED  BY <1>1, <1>10, <1>11, <1>12

\* Of scores there is a least and a greatest.
LEMMA Extremes ==
  ASSUME NEW S, S \subseteq 0 .. Scale, S # {}
  PROVE  \E x, y \in S : \A z \in S : x <= z /\ z <= y
<1>1. ASSUME NEW T, T \subseteq Nat, T # {} PROVE \E x \in T : \A z \in T : x <= z
  <2>1. PICK x \in T : \A z \in T : ~(<<z, x>> \in OpToRel(<, Nat))
    BY <1>1, NatLessThanWellFounded, WFMin
  <2>2. \A z \in T : <<z, x>> \in OpToRel(<, Nat) <=> z < x
    BY <1>1 DEF OpToRel
  <2>3. \A z \in T : z \in Nat /\ x \in Nat /\ ~(z < x)
    BY <1>1, <2>1, <2>2
  <2>. QED  BY <2>3
<1>. DEFINE n == Scale
            D == {n - z : z \in S}
<1>n. n \in Nat
  BY DEF Scale
<1>s. S \subseteq 0 .. n
  OBVIOUS
<1>. HIDE DEF n
<1>0. \A z \in S : z \in Nat /\ z <= n /\ n - z \in Nat
  BY <1>n, <1>s
<1>2. D \subseteq Nat /\ D # {}
  BY <1>0
<1>3. PICK x \in S : \A z \in S : x <= z
  <2>. S \subseteq Nat
    BY <1>0
  <2>. QED  BY <1>1
<1>. HIDE DEF D
<1>4. PICK d \in D : \A e \in D : d <= e
  BY <1>1, <1>2
<1>5. PICK y \in S : d = n - y
  BY DEF D
<1>6. \A z \in S : z <= y
  <2>. SUFFICES ASSUME NEW z \in S PROVE z <= y
    OBVIOUS
  <2>1. d <= n - z
    BY <1>4 DEF D
  <2>. QED  BY <1>n, <1>0, <1>5, <2>1
<1>. QED  BY <1>3, <1>6

\* The weights and the weighted scores, summed.
WeightTotal(cs) == MapThenSumSet(LAMBDA c : c[2], cs)
ScoreTotal(cs)  == MapThenSumSet(LAMBDA c : c[2] * c[3], cs)

LEMMA Totals ==
  ASSUME NEW cs, IsFiniteSet(cs), \A c \in cs : c[2] \in Nat /\ c[3] \in Nat
  PROVE  /\ WeightTotal(cs) = SumOver([c \in cs |-> c[2]], cs)
         /\ ScoreTotal(cs) = SumOver([c \in cs |-> c[2] * c[3]], cs)
<1>. DEFINE f == [c \in cs |-> c[2]]
            g == [c \in cs |-> c[2] * c[3]]
<1>1. (\A c \in cs : f[c] \in Nat) /\ (\A c \in cs : g[c] \in Nat)
  OBVIOUS
<1>2. PICK it : SumTable(it, f, cs) /\ it[cs] = SumOver(f, cs) /\ \A jt : SumTable(jt, f, cs) => jt = it
  <2>. HIDE DEF f, g
  <2>. QED  BY <1>1, SumTables
<1>3. PICK kt : SumTable(kt, g, cs) /\ kt[cs] = SumOver(g, cs) /\ \A jt : SumTable(jt, g, cs) => jt = kt
  <2>. HIDE DEF f, g
  <2>. QED  BY <1>1, SumTables
<1>4. \A jt : SumTable(jt, f, cs) <=>
        jt = [s \in SUBSET cs |-> IF s = {} THEN 0 ELSE Pick(s)[2] + jt[s \ {Pick(s)}]]
  <2>1. \A s \in SUBSET cs : s # {} => f[Pick(s)] = Pick(s)[2]
    BY PickFacts
  <2>. HIDE DEF f, g
  <2>. QED  BY <2>1 DEF SumTable
<1>5. \A jt : SumTable(jt, g, cs) <=>
        jt = [s \in SUBSET cs |-> IF s = {} THEN 0 ELSE Pick(s)[2] * Pick(s)[3] + jt[s \ {Pick(s)}]]
  <2>1. \A s \in SUBSET cs : s # {} => g[Pick(s)] = Pick(s)[2] * Pick(s)[3]
    BY PickFacts
  <2>. HIDE DEF f, g
  <2>. QED  BY <2>1 DEF SumTable
<1>. HIDE DEF f, g
<1>6. (CHOOSE jt : jt = [s \in SUBSET cs |-> IF s = {} THEN 0 ELSE Pick(s)[2] + jt[s \ {Pick(s)}]]) = it
  BY <1>2, <1>4
<1>7. (CHOOSE jt : jt = [s \in SUBSET cs |-> IF s = {} THEN 0
         ELSE Pick(s)[2] * Pick(s)[3] + jt[s \ {Pick(s)}]]) = kt
  BY <1>3, <1>5
<1>8. WeightTotal(cs) = it[cs]
  BY <1>6 DEF WeightTotal, MapThenSumSet, MapThenFoldSet, Pick
<1>9. ScoreTotal(cs) = kt[cs]
  BY <1>7 DEF ScoreTotal, MapThenSumSet, MapThenFoldSet, Pick
<1>. QED  BY <1>2, <1>3, <1>8, <1>9 DEF f, g

\* What the components of a score are: a weight and a score each.
Scored(cs) == \A c \in cs : c[2] \in 1 .. Scale /\ c[3] \in 0 .. Scale

\* The weighted mean lies between the least and the greatest component.
LEMMA MeanBetween ==
  ASSUME NEW cs, IsFiniteSet(cs), cs # {}, Scored(cs)
  PROVE  /\ MeanOf(cs) \in 0 .. Scale
         /\ \E x, y \in {c[3] : c \in cs} : x <= MeanOf(cs) /\ MeanOf(cs) <= y
<1>1. \A c \in cs : c[2] \in Nat /\ c[2] > 0 /\ c[3] \in Nat /\ c[3] <= 10000
  <2>. SUFFICES ASSUME NEW c \in cs
                PROVE  c[2] \in Nat /\ c[2] > 0 /\ c[3] \in Nat /\ c[3] <= 10000
    OBVIOUS
  <2>. DEFINE p == c[2]
              q == c[3]
  <2>1. p \in 1 .. Scale /\ q \in 0 .. Scale
    BY Zenon DEF Scored
  <2>. HIDE DEF p, q
  <2>2. p \in Nat /\ p > 0 /\ q \in Nat /\ q <= 10000
    BY <2>1 DEF Scale
  <2>. QED  BY <2>2 DEF p, q
<1>. DEFINE parts == {c[3] : c \in cs}
<1>2. PICK x \in parts, y \in parts : \A z \in parts : x <= z /\ z <= y
  <2>1. parts \subseteq 0 .. Scale
    <3>. SUFFICES ASSUME NEW c \in cs PROVE c[3] \in 0 .. Scale
      OBVIOUS
    <3>. DEFINE q == c[3]
    <3>1. q \in Nat /\ q <= 10000
      BY <1>1
    <3>. HIDE DEF q
    <3>2. q \in 0 .. Scale
      BY <3>1, ScoreRange
    <3>. QED  BY <3>2 DEF q
  <2>2. parts # {}
    OBVIOUS
  <2>. HIDE DEF parts
  <2>3. \E x, y \in parts : \A z \in parts : x <= z /\ z <= y
    BY <2>1, <2>2, Extremes
  <2>. QED  BY <2>3
<1>. DEFINE f == [c \in cs |-> c[2]]
            g == [c \in cs |-> c[2] * c[3]]
            w == SumOver(f, cs)
            t == SumOver(g, cs)
<1>3. x \in Nat /\ y \in Nat /\ y <= 10000
  BY <1>1
<1>4. \A c \in cs : f[c] \in Nat /\ g[c] \in Nat /\ x * f[c] <= g[c] /\ g[c] <= y * f[c] /\ f[c] > 0
  <2>. SUFFICES ASSUME NEW c \in cs
                PROVE  f[c] \in Nat /\ g[c] \in Nat /\ x * f[c] <= g[c] /\ g[c] <= y * f[c] /\ f[c] > 0
    OBVIOUS
  <2>1. PICK p \in Nat, q \in Nat : p = c[2] /\ q = c[3] /\ p > 0
    BY <1>1
  <2>2. f[c] = p /\ g[c] = p * q
    BY <2>1
  <2>3. x <= q /\ q <= y
    BY <1>2, <2>1
  <2>4. x * p <= p * q
    <3>1. PICK k \in Nat : q = x + k
      <4>1. q - x \in Nat /\ q = x + (q - x)
        BY <1>3, <2>3
      <4>. QED  BY <4>1
    <3>2. p * (x + k) = p * x + p * k /\ p * k \in Nat /\ p * x \in Nat /\ p * x = x * p
      BY <1>3
    <3>. QED  BY <3>1, <3>2
  <2>5. p * q <= y * p
    <3>1. PICK k \in Nat : y = q + k
      <4>1. y - q \in Nat /\ y = q + (y - q)
        BY <1>3, <2>3
      <4>. QED  BY <4>1
    <3>2. p * (q + k) = p * q + p * k /\ p * k \in Nat /\ p * q \in Nat /\ p * y = y * p
      BY <1>3
    <3>. QED  BY <3>1, <3>2
  <2>6. p * q \in Nat
    OBVIOUS
  <2>. HIDE DEF f, g
  <2>. QED  BY <2>1, <2>2, <2>4, <2>5, <2>6
<1>5. w \in Nat /\ t \in Nat /\ x * w <= t /\ t <= y * w
  <2>1. (\A c \in cs : f[c] \in Nat) /\ (\A c \in cs : g[c] \in Nat)
    BY <1>4
  <2>2. \A c \in cs : f[c] \in Nat /\ g[c] \in Nat /\ x * f[c] <= g[c] /\ g[c] <= y * f[c]
    BY <1>4
  <2>. HIDE DEF f, g
  <2>3. SumOver(f, cs) \in Nat /\ SumOver(g, cs) \in Nat
    BY <2>1, SumType
  <2>4. x * SumOver(f, cs) <= SumOver(g, cs) /\ SumOver(g, cs) <= y * SumOver(f, cs)
    BY <1>3, <2>2, SumBetween
  <2>. QED  BY <2>3, <2>4
<1>6. w # 0
  <2>1. PICK c \in cs : TRUE
    OBVIOUS
  <2>2. \A d \in cs : f[d] \in Nat
    BY <1>4
  <2>3. f[c] > 0 /\ f[c] \in Nat
    BY <1>4
  <2>. HIDE DEF f
  <2>4. f[c] <= SumOver(f, cs)
    BY <2>2, SumAtLeast
  <2>5. SumOver(f, cs) \in Nat
    BY <1>5
  <2>. QED  BY <2>3, <2>4, <2>5
<1>7. MeanOf(cs) = (t + w \div 2) \div w
  <2>1. MeanOf(cs) = (ScoreTotal(cs) + WeightTotal(cs) \div 2) \div WeightTotal(cs)
    BY DEF MeanOf, ScoreTotal, WeightTotal, MapThenSumSet, MapThenFoldSet
  <2>2. ScoreTotal(cs) = t /\ WeightTotal(cs) = w
    BY <1>1, Totals
  <2>. HIDE DEF w, t
  <2>. QED  BY <2>1, <2>2
<1>. HIDE DEF f, g, w, t
<1>8. x <= MeanOf(cs) /\ MeanOf(cs) <= y /\ MeanOf(cs) \in Nat
  <2>. DEFINE h == w \div 2
              n == t + h
  <2>1. h \in Nat /\ h < w
    BY <1>5, <1>6
  <2>. HIDE DEF h
  <2>2. n \in Nat /\ w \in Nat \ {0} /\ x * w <= n /\ n < y * w + w
    <3>. DEFINE l == x * w
                m == y * w
    <3>1. l \in Nat /\ m \in Nat /\ l <= t /\ t <= m /\ t \in Nat /\ w \in Nat
      BY <1>3, <1>5
    <3>. HIDE DEF l, m
    <3>2. n \in Nat /\ l <= n /\ n < m + w
      BY <2>1, <3>1
    <3>. QED  BY <1>5, <1>6, <3>2 DEF l, m
  <2>. HIDE DEF n
  <2>3. x <= n \div w /\ n \div w <= y /\ n \div w \in Nat
    <3>1. x \in Nat /\ y \in Nat
      BY <1>3
    <3>2. n \div w \in Nat
      BY <2>2, Division
    <3>3. x <= n \div w /\ n \div w <= y
      BY <3>1, <2>2, DivWithin
    <3>. QED  BY <3>2, <3>3
  <2>4. MeanOf(cs) = n \div w
    BY <1>7, Zenon DEF h, n
  <2>. QED  BY <2>3, <2>4
<1>9. MeanOf(cs) \in 0 .. Scale
  <2>1. y \in Nat /\ y <= 10000
    BY <1>3
  <2>. DEFINE m == MeanOf(cs)
  <2>2. m \in Nat /\ m <= y
    BY <1>8
  <2>. HIDE DEF m, parts
  <2>3. m \in 0 .. Scale
    BY <2>1, <2>2 DEF Scale
  <2>. QED  BY <2>3 DEF m
<1>. QED  BY <1>8, <1>9

\* What there is to go on is a share of the scale, whichever of the two is first.
LEMMA ConfidenceFair ==
  ASSUME NEW a, NEW b, IsFiniteSet(a), IsFiniteSet(b), NEW axes \in 0 .. 5, NEW i
  PROVE  /\ Confidence(a, b, axes, i) = Confidence(b, a, axes, i)
         /\ Confidence(a, b, axes, i) \in 0 .. Scale
<1>. DEFINE m == Cardinality(a)
            n == Cardinality(b)
            weaker == Least(Least(m, n), Settings.targetEdges)
            found == IF i.nodes # {} THEN 10000 ELSE IF i.broad # {} THEN 5000 ELSE 2000
            r == Ratio(weaker, Settings.targetEdges)
            s == Ratio(axes, Cardinality(DOMAIN Axes))
<1>1. m \in Nat /\ n \in Nat
  BY FS_CardinalityType
<1>2. Least(m, n) = Least(n, m) /\ Least(m, n) \in Nat
  BY <1>1, LeastMost
<1>3. Settings.targetEdges = 3
  BY DEF Settings
<1>4. weaker \in Nat /\ weaker <= 3
  <2>. HIDE DEF m, n
  <2>. QED  BY <1>2, <1>3, LeastMost
<1>5. r \in 0 .. Scale
  <2>. HIDE DEF weaker
  <2>. QED  BY <1>3, <1>4, RatioWithin
<1>6. s \in 0 .. Scale
  BY AxesFinite, RatioWithin
<1>7. found \in {10000, 5000, 2000}
  <2>1. CASE i.nodes # {}
    BY <2>1
  <2>2. CASE i.nodes = {} /\ i.broad # {}
    BY <2>2
  <2>3. CASE i.nodes = {} /\ i.broad = {}
    BY <2>3
  <2>. QED  BY <2>1, <2>2, <2>3
<1>8. Confidence(a, b, axes, i) = (5 * r + 3 * s + 2 * found + 5) \div 10
  BY DEF Confidence
<1>9. Confidence(b, a, axes, i) = (5 * r + 3 * s + 2 * found + 5) \div 10
  <2>1. Confidence(b, a, axes, i)
          = (5 * Ratio(Least(Least(n, m), Settings.targetEdges), Settings.targetEdges) + 3 * s + 2 * found + 5) \div 10
    BY DEF Confidence
  <2>. HIDE DEF m, n, s, found
  <2>. QED  BY <2>1, <1>2
<1>. HIDE DEF r, s, found
<1>10. (5 * r + 3 * s + 2 * found + 5) \div 10 \in 0 .. Scale
  <2>. DEFINE top == 10000
              x == 5 * r + 3 * s + 2 * found + 5
              q == x \div 10
  <2>0. top \in Nat /\ top = 10000 /\ Scale = top
    BY DEF Scale
  <2>. HIDE DEF top
  <2>1. r \in Nat /\ r <= top /\ s \in Nat /\ s <= top /\ found \in Nat /\ found <= 10000
    BY <1>5, <1>6, <1>7, <2>0
  <2>2. x \in Nat /\ x <= 100005
    BY <2>0, <2>1, SMTT(30)
  <2>. HIDE DEF x
  <2>3. q \in Nat /\ q <= top
    BY <2>0, <2>2
  <2>. HIDE DEF q
  <2>4. q \in 0 .. Scale
    BY <2>0, <2>3, SMTT(30)
  <2>. QED  BY <2>4 DEF q, x
<1>. DEFINE v == (5 * r + 3 * s + 2 * found + 5) \div 10
<1>11. v \in 0 .. Scale /\ Confidence(a, b, axes, i) = v /\ Confidence(b, a, axes, i) = v
  BY <1>8, <1>9, <1>10, Zenon
<1>. HIDE DEF v
<1>. QED  BY <1>11

\* The kernel says the same of two people either way.
LEMMA KernelFair ==
  ASSUME NEW a, NEW b, Weighted(a.edges), Weighted(b.edges),
         Cardinality(DimensionMatches(a.dims, b.dims)) \in 0 .. 5
  PROVE  /\ KernelOf(a, b) = KernelOf(b, a)
         /\ KernelOf(a, b).score = MeanOf(Components(a, b))
         /\ KernelOf(a, b).confidence \in 0 .. Scale
<1>. DEFINE i == InterestComponent(a.edges, b.edges)
            shared == CauseNodes(a.edges) \cap CauseNodes(b.edges)
            axes == Cardinality(DimensionMatches(a.dims, b.dims))
            sure == Confidence(a.edges, b.edges, axes, i)
            K(m, j, c, t) ==
              [ score |-> m, confidence |-> c, human_review_flag |-> c < Settings.review,
                match_type |-> IF j.type # "none" THEN j.type ELSE IF t # {} THEN "values_only" ELSE "none",
                specific |-> j.nodes, causes |-> t ]
<1>1. KernelOf(a, b) = K(MeanOf(Components(a, b)), i, sure, shared)
  BY DEF KernelOf
<1>2. KernelOf(b, a) = K(MeanOf(Components(b, a)), InterestComponent(b.edges, a.edges),
                         Confidence(b.edges, a.edges, Cardinality(DimensionMatches(b.dims, a.dims)),
                                    InterestComponent(b.edges, a.edges)),
                         CauseNodes(b.edges) \cap CauseNodes(a.edges))
  BY DEF KernelOf
<1>3. Components(b, a) = Components(a, b)
  BY ComponentsFair
<1>4. InterestComponent(b.edges, a.edges) = i
  BY InterestFair
<1>5. DimensionMatches(b.dims, a.dims) = DimensionMatches(a.dims, b.dims)
  BY MatchesFair
<1>6. CauseNodes(b.edges) \cap CauseNodes(a.edges) = shared
  OBVIOUS
<1>7. Confidence(b.edges, a.edges, axes, i) = sure /\ sure \in 0 .. Scale
  <2>. HIDE DEF i, axes
  <2>1. axes \in 0 .. 5
    BY DEF axes
  <2>. QED  BY <2>1, ConfidenceFair DEF Weighted
<1>8. KernelOf(b, a) = K(MeanOf(Components(a, b)), i, sure, shared)
  <2>. HIDE DEF i, shared, sure, K
  <2>. QED  BY <1>2, <1>3, <1>4, <1>5, <1>6, <1>7 DEF axes
<1>9. KernelOf(a, b).confidence = sure /\ KernelOf(a, b).score = MeanOf(Components(a, b))
  <2>. HIDE DEF i, shared, sure
  <2>. QED  BY <1>1
<1>. HIDE DEF K, sure
<1>. QED  BY <1>1, <1>7, <1>8, <1>9

-------------------------------------------------------------------------------
(* Interest edges, from what was said.                                       *)

\* Edges of the catalogue, and sets of them with one per node.
Sources  == {"primary_hobby", "secondary_hobby", "tertiary_hobby", "primary_exercise", "music_taste",
             "book_genre", "sports_team", "values_core", "trait", "llm"}
EdgeRow  == [node : Catalog, weight : 1 .. Scale, source : Sources]
EdgeSets == {es \in SUBSET EdgeRow : IsFiniteSet(es) /\ \A e, f \in es : e.node = f.node => e = f}

\* add keeps one edge per node.
LEMMA AddWithin ==
  ASSUME NEW es \in EdgeSets, NEW e \in EdgeRow
  PROVE  Add(es, e) \in EdgeSets
<1>1. CASE \E f \in es : f.node = e.node /\ f.weight >= e.weight
  BY <1>1 DEF Add
<1>2. CASE ~\E f \in es : f.node = e.node /\ f.weight >= e.weight
  <2>. DEFINE old == {f \in es : f.node # e.node}
  <2>1. Add(es, e) = old \cup {e}
    BY <1>2 DEF Add
  <2>2. IsFiniteSet(es) /\ old \in SUBSET es
    BY DEF EdgeSets
  <2>3. IsFiniteSet(old \cup {e})
    <3>. HIDE DEF old
    <3>. QED  BY <2>2, FS_Subset, FS_AddElement
  <2>4. old \cup {e} \in SUBSET EdgeRow
    BY DEF EdgeSets
  <2>5. \A f, g \in old \cup {e} : f.node = g.node => f = g
    BY DEF EdgeSets
  <2>. HIDE DEF old
  <2>. QED  BY <2>1, <2>3, <2>4, <2>5 DEF EdgeSets
<1>. QED  BY <1>1, <1>2

LEMMA NoEdges == {} \in EdgeSets
BY FS_EmptySet DEF EdgeSets

\* extract_interests adds edges one after the other.
LEMMA FoldAdd ==
  ASSUME NEW seq \in Seq(EdgeRow)
  PROVE  FoldLeft(Add, {}, seq) \in EdgeSets
<1>. DEFINE n == Len(seq)
            S == 1 .. n
            P == [s \in SUBSET S |-> Max(s)]
            G == [z \in S \X EdgeSets |-> Add(z[2], seq[z[1]])]
            Body(jt) == jt = [s \in SUBSET S |-> IF s = {} THEN {} ELSE Add(jt[s \ {Max(s)}], seq[Max(s)])]
<1>1. n \in Nat /\ DOMAIN seq = S
  OBVIOUS
<1>2. IsFiniteSet(S) /\ Picks(P, S)
  <2>. HIDE DEF n
  <2>. QED  BY <1>1, LastPicks
<1>3. \A i \in S : seq[i] \in EdgeRow
  OBVIOUS
<1>. HIDE DEF n, S
<1>4. G \in [S \X EdgeSets -> EdgeSets]
  BY <1>3, AddWithin
<1>5. PICK it : FoldTable(it, S, EdgeSets, {}, G, P)
  <2>. HIDE DEF G, P
  <2>. QED  BY <1>2, <1>4, NoEdges, FoldExists
<1>6. ASSUME NEW s \in SUBSET S, s # {} PROVE Max(s) \in S /\ s \ {Max(s)} \in SUBSET S
  BY <1>2, <1>6 DEF Picks
<1>7. Body(it)
  <2>1. ASSUME NEW s \in SUBSET S, s # {} PROVE it[s] = Add(it[s \ {Max(s)}], seq[Max(s)])
    <3>1. it[s] = G[<<Max(s), it[s \ {Max(s)}]>>]
      <4>1. it[s] = G[<<P[s], it[s \ {P[s]}]>>] /\ P[s] = Max(s)
        <5>. HIDE DEF G
        <5>. QED  BY <1>5, <2>1 DEF FoldTable
      <4>. QED  BY <4>1, Zenon
    <3>2. <<Max(s), it[s \ {Max(s)}]>> \in S \X EdgeSets
      BY <1>5, <1>6, <2>1 DEF FoldTable
    <3>. QED  BY <3>1, <3>2
  <2>. HIDE DEF G, P
  <2>2. it[{}] = {} /\ it \in [SUBSET S -> EdgeSets]
    BY <1>5 DEF FoldTable
  <2>. QED  BY <2>1, <2>2
<1>. DEFINE ft == CHOOSE jt : Body(jt)
<1>8. Body(ft)
  <2>. HIDE DEF Body
  <2>. QED  BY <1>7
<1>9. FoldLeft(Add, {}, seq) = ft[S]
  BY <1>1, Zenon DEF FoldLeft, MapThenFoldSet
<1>10. ft[{}] \in EdgeSets
  <2>. HIDE DEF ft
  <2>. QED  BY <1>8, NoEdges
<1>11. \A s \in SUBSET S : s # {} /\ ft[s \ {P[s]}] \in EdgeSets => ft[s] \in EdgeSets
  <2>. SUFFICES ASSUME NEW s \in SUBSET S, s # {}, ft[s \ {P[s]}] \in EdgeSets PROVE ft[s] \in EdgeSets
    BY Zenon
  <2>1. P[s] = Max(s)
    OBVIOUS
  <2>. HIDE DEF ft, P
  <2>2. ft[s] = Add(ft[s \ {Max(s)}], seq[Max(s)])
    BY <1>8
  <2>. HIDE DEF Body
  <2>. QED  BY <1>3, <1>6, <2>1, <2>2, AddWithin
<1>. HIDE DEF ft, P
<1>12. FoldStays(ft, EdgeSets, P, S)
  BY <1>10, <1>11, Zenon DEF FoldStays
<1>. QED  BY <1>2, <1>9, <1>12, FoldWithin

\* Weights as the edges have them.
Weights == 1 .. Scale

LEMMA SomeWeights == \A w \in {10000, 7000, 4000, 5000, 6000} : w \in Weights
BY DEF Weights, Scale

LEMMA SomeSources ==
  /\ \A key \in {"primary_hobby", "secondary_hobby", "tertiary_hobby"} : key \in Sources
  /\ \A key \in {"music_taste", "book_genre", "sports_team"} : key \in Sources
BY DEF Sources

LEMMA OneEdge == \A e \in EdgeRow : <<e>> \in Seq(EdgeRow)
OBVIOUS

\* What a text names is in the catalogue.
LEMMA BestNamed ==
  ASSUME NEW hits, hits \subseteq Keyword, NEW broad
  PROVE  /\ BestKeyword(hits) \subseteq Catalog /\ MapContent(hits) \subseteq Catalog
         /\ MapWithin(hits, broad) \subseteq Catalog /\ MapCause(hits) \subseteq Catalog
<1>1. ASSUME NEW hs, hs \subseteq Keyword PROVE BestKeyword(hs) \subseteq Catalog
  <2>1. \A h \in hs : h.node \in Catalog
    BY <1>1 DEF Keyword
  <2>. QED  BY <2>1 DEF BestKeyword
<1>2. ASSUME NEW b PROVE MapWithin(hits, b) \subseteq Catalog
  <2>1. {h \in hits : h.node[1] = b} \subseteq Keyword
    OBVIOUS
  <2>. QED  BY <1>1, <2>1, Zenon DEF MapWithin
<1>. QED  BY <1>1, <1>2 DEF MapContent, MapCause

\* The edge for a node, if any.
LEMMA EdgeForType ==
  ASSUME NEW nodes, nodes \subseteq Catalog, NEW weight \in Weights, NEW source \in Sources
  PROVE  EdgeFor(nodes, weight, source) \in Seq(EdgeRow)
<1>1. CASE nodes = {}
  BY <1>1 DEF EdgeFor
<1>2. CASE nodes # {}
  <2>. DEFINE n == CHOOSE n \in nodes : TRUE
  <2>1. n \in Catalog
    BY <1>2
  <2>. HIDE DEF n
  <2>2. Edge(n, weight, source) \in EdgeRow
    BY <2>1 DEF Edge, EdgeRow, Weights
  <2>3. EdgeFor(nodes, weight, source) = <<Edge(n, weight, source)>>
    BY <1>2 DEF EdgeFor, n
  <2>. QED  BY <2>2, <2>3, OneEdge, Zenon
<1>. QED  BY <1>1, <1>2

LEMMA FactorType ==
  ASSUME NEW ds
  PROVE  IntensityFactor(ds) \in {10000, 7000, 4000, 5000}
<1>. DEFINE known == {d \in ds : d.axis = "interest_intensity" /\ d.value \in DOMAIN Intensity}
            v == (CHOOSE d \in known : TRUE).value
<1>1. CASE known = {}
  BY <1>1 DEF IntensityFactor
<1>2. CASE known # {}
  <2>1. v \in DOMAIN Intensity
    BY <1>2
  <2>2. IntensityFactor(ds) = Intensity[v]
    BY <1>2 DEF IntensityFactor
  <2>. HIDE DEF v
  <2>. QED  BY <2>1, <2>2 DEF Intensity
<1>. QED  BY <1>1, <1>2

\* The factor of two shares of which neither is less than the least.
LEMMA PartPositive ==
  ASSUME NEW x \in Nat, NEW y \in Nat, x >= 4000, y >= 4000, x <= 10000, y <= 10000
  PROVE  Part(x, y) \in Weights
<1>0. x \in 0 .. Scale /\ y \in 0 .. Scale
  <2>. DEFINE top == 10000
  <2>0. top \in Nat /\ x <= top /\ y <= top /\ Scale = top
    BY DEF Scale
  <2>. HIDE DEF top
  <2>. QED  BY <2>0
<1>. DEFINE p == x * y
            r == Part(x, y)
<1>1. r \in 0 .. Scale
  BY <1>0, PartWithin
<1>2. r = (p + 5000) \div 10000
  BY DEF Part, Scale
<1>3. p >= 16000000 /\ p \in Nat
  <2>1. PICK i \in Nat, j \in Nat : x = 4000 + i /\ y = 4000 + j
    <3>1. x - 4000 \in Nat /\ y - 4000 \in Nat /\ x = 4000 + (x - 4000) /\ y = 4000 + (y - 4000)
      OBVIOUS
    <3>. QED  BY <3>1
  <2>. DEFINE k == i * j
  <2>2. (4000 + i) * (4000 + j) = 16000000 + 4000 * j + 4000 * i + k /\ k \in Nat
    OBVIOUS
  <2>3. p = (4000 + i) * (4000 + j)
    BY <2>1
  <2>. HIDE DEF p, k
  <2>4. p = 16000000 + 4000 * j + 4000 * i + k
    BY <2>2, <2>3
  <2>. QED  BY <2>2, <2>4
<1>. HIDE DEF p, r
<1>4. r >= 1
  BY <1>2, <1>3
<1>5. r \in Weights
  BY <1>1, <1>4 DEF Scale, Weights
<1>. QED  BY <1>5 DEF r

\* The rules for a fact each yield at most one edge.
LEMMA FactEdges ==
  ASSUME NEW p, IsProfile(p)
  PROVE  /\ \A key \in {"primary_hobby", "secondary_hobby", "tertiary_hobby"} : Hobby(p, key) \in Seq(EdgeRow)
         /\ Exercise(p) \in Seq(EdgeRow)
         /\ \A key \in {"music_taste", "book_genre", "sports_team"},
               broad \in {"music_listening", "intellectual", "sports_watching"}, weight \in {5000, 6000} :
              Taste(p, key, broad, weight) \in Seq(EdgeRow)
         /\ Cause(p) \in Seq(EdgeRow)
<1>0. <<>> \in Seq(EdgeRow)
  OBVIOUS
<1>1. \A key \in DOMAIN p.facts : p.facts[key] \subseteq Keyword
  BY DEF IsProfile
<1>. DEFINE factor == IntensityFactor(p.dims)
<1>2. factor \in {10000, 7000, 4000, 5000}
  BY FactorType
<1>. HIDE DEF factor
<1>3. ASSUME NEW key \in {"primary_hobby", "secondary_hobby", "tertiary_hobby"} PROVE Hobby(p, key) \in Seq(EdgeRow)
  <2>1. CASE ~Said(p, key)
    BY <1>0, <2>1 DEF Hobby
  <2>2. CASE Said(p, key)
    <3>1. MapContent(p.facts[key]) \subseteq Catalog
      BY <1>1, <2>2, BestNamed DEF Said
    <3>2. Rank[key] \in {10000, 8000, 6000}
      BY DEF Rank
    <3>. DEFINE r == Rank[key]
    <3>3. r \in {10000, 8000, 6000}
      BY <3>2
    <3>. HIDE DEF r
    <3>4. Part(factor, r) \in Weights
      <4>1. /\ factor \in Nat /\ factor >= 4000 /\ factor <= 10000
            /\ r \in Nat /\ r >= 4000 /\ r <= 10000
        BY <1>2, <3>3
      <4>. HIDE DEF factor
      <4>. QED  BY <4>1, PartPositive
    <3>5. key \in Sources
      BY SomeSources
    <3>6. EdgeFor(MapContent(p.facts[key]), Part(factor, r), key) \in Seq(EdgeRow)
      BY <3>1, <3>4, <3>5, EdgeForType
    <3>7. Hobby(p, key) = EdgeFor(MapContent(p.facts[key]), Part(factor, r), key)
      BY <2>2, Zenon DEF Hobby, factor, r
    <3>. QED  BY <3>6, <3>7
  <2>. QED  BY <2>1, <2>2
<1>4. Exercise(p) \in Seq(EdgeRow)
  <2>1. CASE ~Said(p, "primary_exercise")
    BY <1>0, <2>1 DEF Exercise
  <2>2. CASE Said(p, "primary_exercise")
    <3>. DEFINE nodes == MapContent(p.facts["primary_exercise"])
                some == IF nodes = {} THEN {<<"wellness", General>>} ELSE nodes
    <3>1. nodes \subseteq Catalog
      BY <1>1, <2>2, BestNamed DEF Said
    <3>. HIDE DEF nodes
    <3>2. some \subseteq Catalog
      BY <3>1, CatalogAssumption
    <3>. HIDE DEF some
    <3>3. factor \in Weights /\ "primary_exercise" \in Sources
      BY <1>2, SomeWeights DEF Sources
    <3>4. EdgeFor(some, factor, "primary_exercise") \in Seq(EdgeRow)
      BY <3>2, <3>3, EdgeForType
    <3>5. Exercise(p) = EdgeFor(some, factor, "primary_exercise")
      BY <2>2, Zenon DEF Exercise, factor, some, nodes
    <3>. QED  BY <3>4, <3>5
  <2>. QED  BY <2>1, <2>2
<1>5. ASSUME NEW key \in {"music_taste", "book_genre", "sports_team"},
             NEW broad \in {"music_listening", "intellectual", "sports_watching"}, NEW weight \in {5000, 6000}
      PROVE  Taste(p, key, broad, weight) \in Seq(EdgeRow)
  <2>1. CASE ~Said(p, key)
    BY <1>0, <2>1 DEF Taste
  <2>2. CASE Said(p, key)
    <3>. DEFINE nodes == MapInCategory(p.facts[key], broad)
    <3>1. MapWithin(p.facts[key], broad) \subseteq Catalog
      BY <1>1, <2>2, BestNamed DEF Said
    <3>2. nodes \subseteq Catalog
      BY <3>1, CatalogAssumption DEF MapInCategory
    <3>. HIDE DEF nodes
    <3>3. key \in Sources
      BY SomeSources
    <3>6. weight \in Weights
      BY SomeWeights
    <3>4. EdgeFor(nodes, weight, key) \in Seq(EdgeRow)
      BY <3>2, <3>3, <3>6, EdgeForType
    <3>5. Taste(p, key, broad, weight) = EdgeFor(nodes, weight, key)
      BY <2>2 DEF Taste, nodes
    <3>. QED  BY <3>4, <3>5
  <2>. QED  BY <2>1, <2>2
<1>6. Cause(p) \in Seq(EdgeRow)
  <2>1. CASE ~Said(p, "values_core")
    BY <1>0, <2>1 DEF Cause
  <2>2. CASE Said(p, "values_core")
    <3>. DEFINE nodes == MapCause(p.facts["values_core"])
    <3>1. nodes \subseteq Catalog
      BY <1>1, <2>2, BestNamed DEF Said
    <3>. HIDE DEF nodes
    <3>2. 5000 \in Weights /\ "values_core" \in Sources
      BY SomeWeights DEF Sources
    <3>3. EdgeFor(nodes, 5000, "values_core") \in Seq(EdgeRow)
      BY <3>1, <3>2, EdgeForType
    <3>4. Cause(p) = EdgeFor(nodes, 5000, "values_core")
      BY <2>2 DEF Cause, nodes
    <3>. QED  BY <3>3, <3>4
  <2>. QED  BY <2>1, <2>2
<1>. QED  BY <1>3, <1>4, <1>5, <1>6

\* Confirmed traits: an edge each, at most.
TraitStep(es, t) ==
  IF t.confidence < TraitFloor THEN es
  ELSE es \o EdgeFor(MapContent(t.hits), Part(6000, t.confidence), "trait")

LEMMA TraitStepType ==
  ASSUME NEW es \in Seq(EdgeRow), NEW t \in Trait
  PROVE  TraitStep(es, t) \in Seq(EdgeRow)
<1>1. CASE t.confidence < TraitFloor
  BY <1>1 DEF TraitStep
<1>2. CASE ~(t.confidence < TraitFloor)
  <2>. DEFINE c == t.confidence
              w == Part(6000, c)
              nodes == MapContent(t.hits)
  <2>1. c \in Nat /\ c >= 4000 /\ c <= 10000
    <3>1. c \in 0 .. Scale /\ ~(c < TraitFloor)
      BY <1>2 DEF Trait
    <3>. HIDE DEF c
    <3>2. c \in Nat /\ c <= Scale /\ ~(c < TraitFloor) /\ Scale \in Nat
      BY <3>1, 10000 \in Nat DEF Scale
    <3>. QED  BY <3>2 DEF TraitFloor, Scale
  <2>. HIDE DEF c
  <2>2. w \in Weights
    BY <2>1, PartPositive
  <2>. HIDE DEF w
  <2>3. nodes \subseteq Catalog
    BY BestNamed DEF Trait
  <2>. HIDE DEF nodes
  <2>4. EdgeFor(nodes, w, "trait") \in Seq(EdgeRow)
    <3>. "trait" \in Sources
      BY Zenon DEF Sources
    <3>. QED  BY <2>2, <2>3, EdgeForType
  <2>5. TraitStep(es, t) = es \o EdgeFor(nodes, w, "trait")
    BY <1>2 DEF TraitStep, nodes, w, c
  <2>. QED  BY <2>4, <2>5
<1>. QED  BY <1>1, <1>2

LEMMA FoldTraits ==
  ASSUME NEW p, IsProfile(p)
  PROVE  TraitEdges(p) \in Seq(EdgeRow)
<1>. DEFINE seq == p.traits
            n == Len(seq)
            S == 1 .. n
            V == Seq(EdgeRow)
            P == [s \in SUBSET S |-> Max(s)]
            G == [z \in S \X V |-> TraitStep(z[2], seq[z[1]])]
            Body(jt) == jt = [s \in SUBSET S |-> IF s = {} THEN <<>> ELSE TraitStep(jt[s \ {Max(s)}], seq[Max(s)])]
<1>0. seq \in Seq(Trait)
  BY DEF IsProfile
<1>. HIDE DEF seq
<1>1. n \in Nat /\ DOMAIN seq = S
  BY <1>0
<1>2. IsFiniteSet(S) /\ Picks(P, S)
  <2>. HIDE DEF n
  <2>. QED  BY <1>1, LastPicks
<1>3. \A i \in S : seq[i] \in Trait
  BY <1>0
<1>a. <<>> \in V
  OBVIOUS
<1>b. ASSUME NEW es \in V, NEW i \in S PROVE TraitStep(es, seq[i]) \in V
  BY <1>3, TraitStepType
<1>. HIDE DEF n, S, V
<1>4. G \in [S \X V -> V]
  BY <1>b
<1>5. PICK it : FoldTable(it, S, V, <<>>, G, P)
  <2>. HIDE DEF G, P
  <2>. QED  BY <1>2, <1>4, <1>a, FoldExists
<1>6. ASSUME NEW s \in SUBSET S, s # {} PROVE Max(s) \in S /\ s \ {Max(s)} \in SUBSET S
  BY <1>2, <1>6 DEF Picks
<1>7. Body(it)
  <2>1. ASSUME NEW s \in SUBSET S, s # {} PROVE it[s] = TraitStep(it[s \ {Max(s)}], seq[Max(s)])
    <3>1. it[s] = G[<<Max(s), it[s \ {Max(s)}]>>]
      <4>1. it[s] = G[<<P[s], it[s \ {P[s]}]>>] /\ P[s] = Max(s)
        <5>. HIDE DEF G
        <5>. QED  BY <1>5, <2>1 DEF FoldTable
      <4>. QED  BY <4>1, Zenon
    <3>2. <<Max(s), it[s \ {Max(s)}]>> \in S \X V
      BY <1>5, <1>6, <2>1 DEF FoldTable
    <3>. QED  BY <3>1, <3>2
  <2>. HIDE DEF G, P
  <2>2. it[{}] = <<>> /\ it \in [SUBSET S -> V]
    BY <1>5 DEF FoldTable
  <2>. QED  BY <2>1, <2>2
<1>. DEFINE ft == CHOOSE jt : Body(jt)
<1>8. Body(ft)
  <2>. HIDE DEF Body
  <2>. QED  BY <1>7
<1>9. TraitEdges(p) = ft[S]
  BY <1>1, Zenon DEF TraitEdges, FoldLeft, MapThenFoldSet, TraitStep, seq
<1>10. ft[{}] \in V
  <2>. HIDE DEF ft
  <2>. QED  BY <1>8, <1>a
<1>11. \A s \in SUBSET S : s # {} /\ ft[s \ {P[s]}] \in V => ft[s] \in V
  <2>. SUFFICES ASSUME NEW s \in SUBSET S, s # {}, ft[s \ {P[s]}] \in V PROVE ft[s] \in V
    BY Zenon
  <2>1. P[s] = Max(s)
    OBVIOUS
  <2>. HIDE DEF ft, P
  <2>2. ft[s] = TraitStep(ft[s \ {Max(s)}], seq[Max(s)])
    BY <1>8
  <2>. HIDE DEF Body
  <2>. QED  BY <1>b, <1>6, <2>1, <2>2
<1>. HIDE DEF ft, P
<1>12. FoldStays(ft, V, P, S)
  BY <1>10, <1>11, Zenon DEF FoldStays
<1>13. ft[S] \in V
  BY <1>2, <1>12, FoldWithin
<1>. QED  BY <1>9, <1>13 DEF V

\* What keywords make of a profile.
LEMMA KeywordEdges ==
  ASSUME NEW p, IsProfile(p)
  PROVE  ExtractInterests(p) \in EdgeSets
<1>. DEFINE a == Hobby(p, "primary_hobby")
            b == Hobby(p, "secondary_hobby")
            c == Hobby(p, "tertiary_hobby")
            d == Exercise(p)
            e == Taste(p, "music_taste", "music_listening", 6000)
            f == Taste(p, "book_genre", "intellectual", 6000)
            g == Taste(p, "sports_team", "sports_watching", 5000)
            h == Cause(p)
            i == TraitEdges(p)
<1>1. a \in Seq(EdgeRow) /\ b \in Seq(EdgeRow) /\ c \in Seq(EdgeRow)
  BY FactEdges
<1>2. d \in Seq(EdgeRow) /\ h \in Seq(EdgeRow) /\ i \in Seq(EdgeRow)
  BY FactEdges, FoldTraits
<1>3. e \in Seq(EdgeRow) /\ f \in Seq(EdgeRow) /\ g \in Seq(EdgeRow)
  BY FactEdges
<1>4. ExtractInterests(p) = FoldLeft(Add, {}, a \o b \o c \o d \o e \o f \o g \o h \o i)
  BY DEF ExtractInterests, FoldLeft, MapThenFoldSet
<1>. HIDE DEF a, b, c, d, e, f, g, h, i
<1>5. a \o b \o c \o d \o e \o f \o g \o h \o i \in Seq(EdgeRow)
  BY <1>1, <1>2, <1>3
<1>. DEFINE s == a \o b \o c \o d \o e \o f \o g \o h \o i
<1>6. s \in Seq(EdgeRow)
  BY <1>5
<1>. HIDE DEF s
<1>7. FoldLeft(Add, {}, s) \in EdgeSets
  BY <1>6, FoldAdd
<1>8. ExtractInterests(p) = FoldLeft(Add, {}, s)
  BY <1>4 DEF s, FoldLeft, MapThenFoldSet
<1>. QED  BY <1>7, <1>8 DEF FoldLeft, MapThenFoldSet

\* What the language model tags, as parse_tags keeps it.
TagStep(es, x) ==
  IF x.node \in Catalog THEN Add(es, Edge(x.node, TagWeight(x.intensity), "llm")) ELSE es

LEMMA TagStepWithin ==
  ASSUME NEW es \in EdgeSets, NEW x
  PROVE  TagStep(es, x) \in EdgeSets
<1>1. CASE x.node \notin Catalog
  BY <1>1 DEF TagStep
<1>2. CASE x.node \in Catalog
  <2>. DEFINE w == TagWeight(x.intensity)
              e == Edge(x.node, w, "llm")
  <2>1. w \in {10000, 7000, 4000}
    BY DEF TagWeight, Intensity
  <2>. HIDE DEF w
  <2>2. w \in Weights
    BY <2>1, SomeWeights
  <2>3. "llm" \in Sources
    BY DEF Sources
  <2>4. e \in EdgeRow
    BY <1>2, <2>2, <2>3 DEF Edge, EdgeRow, Weights
  <2>5. TagStep(es, x) = Add(es, e)
    BY <1>2, Zenon DEF TagStep, w
  <2>. HIDE DEF e
  <2>. QED  BY <2>4, <2>5, AddWithin
<1>. QED  BY <1>1, <1>2

LEMMA TagEdges ==
  ASSUME NEW items, Len(items) \in Nat, DOMAIN items = 1 .. Len(items)
  PROVE  ParseTags(items) \in EdgeSets
<1>. DEFINE n == Len(items)
            S == 1 .. n
            P == [s \in SUBSET S |-> Max(s)]
            G == [z \in S \X EdgeSets |-> TagStep(z[2], items[z[1]])]
            Body(jt) == jt = [s \in SUBSET S |-> IF s = {} THEN {} ELSE TagStep(jt[s \ {Max(s)}], items[Max(s)])]
<1>1. n \in Nat /\ DOMAIN items = S
  OBVIOUS
<1>2. IsFiniteSet(S) /\ Picks(P, S)
  <2>. HIDE DEF n
  <2>. QED  BY <1>1, LastPicks
<1>. HIDE DEF n, S
<1>4. G \in [S \X EdgeSets -> EdgeSets]
  BY TagStepWithin
<1>5. PICK it : FoldTable(it, S, EdgeSets, {}, G, P)
  <2>. HIDE DEF G, P
  <2>. QED  BY <1>2, <1>4, NoEdges, FoldExists
<1>6. ASSUME NEW s \in SUBSET S, s # {} PROVE Max(s) \in S /\ s \ {Max(s)} \in SUBSET S
  BY <1>2, <1>6 DEF Picks
<1>7. Body(it)
  <2>1. ASSUME NEW s \in SUBSET S, s # {} PROVE it[s] = TagStep(it[s \ {Max(s)}], items[Max(s)])
    <3>1. it[s] = G[<<Max(s), it[s \ {Max(s)}]>>]
      <4>1. it[s] = G[<<P[s], it[s \ {P[s]}]>>] /\ P[s] = Max(s)
        <5>. HIDE DEF G
        <5>. QED  BY <1>5, <2>1 DEF FoldTable
      <4>. QED  BY <4>1, Zenon
    <3>2. <<Max(s), it[s \ {Max(s)}]>> \in S \X EdgeSets
      BY <1>5, <1>6, <2>1 DEF FoldTable
    <3>. QED  BY <3>1, <3>2
  <2>. HIDE DEF G, P
  <2>2. it[{}] = {} /\ it \in [SUBSET S -> EdgeSets]
    BY <1>5 DEF FoldTable
  <2>. QED  BY <2>1, <2>2
<1>. DEFINE ft == CHOOSE jt : Body(jt)
<1>8. Body(ft)
  <2>. HIDE DEF Body
  <2>. QED  BY <1>7
<1>9. ParseTags(items) = ft[S]
  BY <1>1, Zenon DEF ParseTags, FoldLeft, MapThenFoldSet, TagStep
<1>10. ft[{}] \in EdgeSets
  <2>. HIDE DEF ft
  <2>. QED  BY <1>8, NoEdges
<1>11. \A s \in SUBSET S : s # {} /\ ft[s \ {P[s]}] \in EdgeSets => ft[s] \in EdgeSets
  <2>. SUFFICES ASSUME NEW s \in SUBSET S, s # {}, ft[s \ {P[s]}] \in EdgeSets PROVE ft[s] \in EdgeSets
    BY Zenon
  <2>1. P[s] = Max(s)
    OBVIOUS
  <2>. HIDE DEF ft, P
  <2>2. ft[s] = TagStep(ft[s \ {Max(s)}], items[Max(s)])
    BY <1>8
  <2>. HIDE DEF Body
  <2>. QED  BY <1>6, <2>1, <2>2, TagStepWithin
<1>. HIDE DEF ft, P
<1>12. FoldStays(ft, EdgeSets, P, S)
  BY <1>10, <1>11, Zenon DEF FoldStays
<1>. QED  BY <1>2, <1>9, <1>12, FoldWithin

LEMMA DerivedEdges ==
  ASSUME NEW p, IsProfile(p), NEW a \in Answers
  PROVE  DeriveInterests(p, a) \in EdgeSets
<1>1. ParseTags(a.items) \in EdgeSets
  BY ScreeningAssumption, TagEdges
<1>2. ExtractInterests(p) \in EdgeSets
  BY KeywordEdges
<1>. QED  BY <1>1, <1>2 DEF DeriveInterests

-------------------------------------------------------------------------------
(* The matches of two profiles: one per axis.                                *)

\* A dimension's place on its axis, if it has one, is the only one.
LEMMA OnePlace ==
  ASSUME NEW axis \in DOMAIN Axes, NEW v, NEW w, NEW s \in AxisScore(axis, v, w), NEW t \in AxisScore(axis, v, w)
  PROVE  s = t
<1>. DEFINE Places(x) == {i \in 1 .. 3 : Axes[axis].order[i] = x}
<1>1. \A i, j \in 1 .. 3 : Axes[axis].order[i] = Axes[axis].order[j] => i = j
  <2>1. Axes[axis].order \in { <<"deep_narrow", "balanced", "broad_shallow">>, <<"casual", "engaged", "intense_specific">>,
                               <<"low", "medium", "high">>, <<"flexible", "mixed", "needs_structure">> }
    BY DEF Axes
  <2>2. \A i \in 1 .. 3 : i = 1 \/ i = 2 \/ i = 3
    OBVIOUS
  <2>. DEFINE order == Axes[axis].order
  <2>3. order[1] # order[2] /\ order[1] # order[3] /\ order[2] # order[3]
    <3>. HIDE DEF order
    <3>. QED  BY <2>1 DEF order
  <2>. HIDE DEF order
  <2>4. \A i, j \in 1 .. 3 : order[i] = order[j] => i = j
    BY <2>2, <2>3
  <2>. QED  BY <2>4 DEF order
<1>2. AxisScore(axis, v, w) = {Axes[axis].score[i][j] : i \in Places(v), j \in Places(w)}
  BY DEF AxisScore
<1>3. PICK i \in Places(v), j \in Places(w) : s = Axes[axis].score[i][j]
  BY <1>2
<1>4. PICK k \in Places(v), l \in Places(w) : t = Axes[axis].score[k][l]
  BY <1>2
<1>5. i = k /\ j = l
  BY <1>1
<1>. QED  BY <1>3, <1>4, <1>5

\* One value per axis.
OnePerAxis(ds) == \A d, e \in ds : d.axis = e.axis => d = e

LEMMA FewMatches ==
  ASSUME NEW a, NEW b, OnePerAxis(a), OnePerAxis(b)
  PROVE  Cardinality(DimensionMatches(a, b)) \in 0 .. 5
<1>. DEFINE M == DimensionMatches(a, b)
            name == [x \in M |-> x[1]]
<1>1. ASSUME NEW x \in M, NEW y \in M, x[1] = y[1] PROVE x = y
  <2>1. PICK d \in a, e \in b : /\ d.axis = e.axis /\ d.axis \in DOMAIN Axes
                                /\ \E s \in AxisScore(d.axis, d.value, e.value) : x = <<d.axis, s>>
    BY MatchOf
  <2>2. PICK f \in a, g \in b : /\ f.axis = g.axis /\ f.axis \in DOMAIN Axes
                                /\ \E s \in AxisScore(f.axis, f.value, g.value) : y = <<f.axis, s>>
    BY MatchOf
  <2>3. d.axis = f.axis
    BY <1>1, <2>1, <2>2
  <2>4. d = f /\ e = g
    BY <2>1, <2>2, <2>3 DEF OnePerAxis
  <2>. QED  BY <2>1, <2>2, <2>4, OnePlace
<1>2. M \subseteq AxisNames \X {2000, 3000, 5000, 6000, 7000, 8000, 10000}
  BY MatchesFair
<1>. HIDE DEF M
<1>3. \A x \in M : x[1] \in AxisNames
  BY <1>2
<1>4. name \in [M -> AxisNames] /\ \A x, y \in M : name[x] = name[y] => x = y
  BY <1>1, <1>3
<1>. HIDE DEF name
<1>5. name \in Injection(M, AxisNames)
  BY <1>4 DEF Injection, IsInjective
<1>6. IsFiniteSet(AxisNames) /\ Cardinality(AxisNames) = 5
  BY AxesFinite DEF AxisNames
<1>7. IsFiniteSet(M) /\ Cardinality(M) <= 5
  BY <1>5, <1>6, FS_Injection
<1>8. Cardinality(M) \in Nat
  BY <1>7, FS_CardinalityType
<1>9. Cardinality(M) \in 0 .. 5
  BY <1>7, <1>8
<1>. QED  BY <1>9 DEF M

\* What the kernel says of two people, whatever the store holds of them.
LEMMA KernelSays ==
  ASSUME NEW a, NEW b, a.edges \in EdgeSets, b.edges \in EdgeSets, OnePerAxis(a.dims), OnePerAxis(b.dims)
  PROVE  /\ KernelOf(a, b) = KernelOf(b, a)
         /\ KernelOf(a, b).score \in 0 .. Scale
         /\ \E x, y \in {c[3] : c \in Components(a, b)} : x <= KernelOf(a, b).score /\ KernelOf(a, b).score <= y
         /\ KernelOf(a, b).confidence \in 0 .. Scale
         /\ KernelOf(a, b).human_review_flag = (KernelOf(a, b).confidence < Settings.review)
<1>1. ASSUME NEW es \in EdgeSets PROVE Weighted(es)
  <2>1. IsFiniteSet(es) /\ \A e \in es : e \in EdgeRow
    BY DEF EdgeSets
  <2>2. \A e \in EdgeRow : e.weight \in Nat
    <3>. SUFFICES ASSUME NEW e \in EdgeRow PROVE e.weight \in Nat
      OBVIOUS
    <3>. DEFINE w == e.weight
    <3>1. w \in 1 .. Scale
      BY DEF EdgeRow
    <3>. DEFINE n == Scale
    <3>2. n \in Nat
      BY DEF Scale
    <3>. HIDE DEF w, n
    <3>3. w \in 1 .. n
      BY <3>1 DEF n
    <3>4. w \in Nat
      BY <3>2, <3>3
    <3>. QED  BY <3>4 DEF w
  <2>. QED  BY <2>1, <2>2 DEF Weighted
<1>2. Weighted(a.edges) /\ Weighted(b.edges)
  BY <1>1
<1>3. Cardinality(DimensionMatches(a.dims, b.dims)) \in 0 .. 5
  BY FewMatches
<1>4. /\ KernelOf(a, b) = KernelOf(b, a)
      /\ KernelOf(a, b).score = MeanOf(Components(a, b))
      /\ KernelOf(a, b).confidence \in 0 .. Scale
  BY <1>2, <1>3, KernelFair
<1>. DEFINE cs == Components(a, b)
<1>5. IsFiniteSet(cs) /\ cs # {} /\ Scored(cs)
  BY <1>2, ComponentsFair, Zenon DEF Scored
<1>. HIDE DEF cs
<1>6. MeanOf(cs) \in 0 .. Scale /\ \E x, y \in {c[3] : c \in cs} : x <= MeanOf(cs) /\ MeanOf(cs) <= y
  BY <1>5, MeanBetween
<1>7. KernelOf(a, b).human_review_flag = (KernelOf(a, b).confidence < Settings.review)
  BY DEF KernelOf
<1>. QED  BY <1>4, <1>6, <1>7, Zenon DEF cs

-------------------------------------------------------------------------------
(* The invariant of the screening.                                           *)

\* s is what the ingest makes of a profile the person has had.
Whole(u, s) == \E p \in Versions(u) : s \in Snapshots(p)

Writing(u) == ingest # NoIngest /\ ingest.user = u /\ ingest.next # "row"

\* The maps are of all the users; what a person says is a profile.
Kept ==
  /\ told \in [Users -> Nat \ {0}] /\ \A u \in Users : told[u] <= Len(Story[u])
  /\ runs \in [Users -> 0 .. MaxIngests]
  /\ DOMAIN row = Users /\ DOMAIN dims = Users /\ DOMAIN edges = Users /\ DOMAIN verdict = Pairs
  /\ torn \subseteq Users /\ shown \subseteq Pairs

\* The snapshot in hand is whole, and what of it is written is written.
InHand ==
  ingest # NoIngest =>
    /\ ingest.user \in Users /\ DOMAIN ingest = {"user", "next", "snap"}
    /\ ingest.next \in {"row", "dims", "edges"}
    /\ Whole(ingest.user, ingest.snap)
    /\ ingest.next # "row" => row[ingest.user] = ingest.snap.row
    /\ ingest.next = "edges" => dims[ingest.user] = ingest.snap.dims

\* Whoever is in the store is there as one snapshot, but for who is being written.
Stored(u) == [row |-> row[u], dims |-> dims[u], edges |-> edges[u]]
InStore == \A u \in Users \ torn : row[u] # NotIn /\ ~Writing(u) => Whole(u, Stored(u))

\* Whole or torn, everybody has one edge per node and one value per axis.
Comparable == \A u \in Users : edges[u] \in EdgeSets /\ OnePerAxis(dims[u])

\* What was scored is on the scale, and unflagged only on enough evidence.
RankedWell ==
  \A p \in Pairs : /\ ranked[p].score \in 0 .. Scale /\ ranked[p].confidence \in 0 .. Scale
                   /\ ~ranked[p].human_review_flag => ~(ranked[p].confidence < Settings.review)

\* A verdict rests on such a score.
JudgedWell ==
  \A p \in Pairs : /\ verdict[p].final \in 0 .. Scale
                   /\ verdict[p] # Unjudged => verdict[p].final >= (6 * Settings.review) \div 10

ScreeningInv == Kept /\ InHand /\ InStore /\ Comparable /\ RankedWell /\ JudgedWell

\* A version is a profile, and what is made of it can be compared.
LEMMA VersionOf ==
  ASSUME Kept, NEW u \in Users
  PROVE  /\ \A p \in Versions(u) : IsProfile(p)
         /\ Says(u) \in Versions(u)
<1>1. told[u] \in Nat \ {0} /\ told[u] <= Len(Story[u]) /\ Len(Story[u]) \in Nat
  BY ScreeningAssumption DEF Kept
<1>2. \A i \in 1 .. told[u] : i \in 1 .. Len(Story[u])
  BY <1>1
<1>3. told[u] \in 1 .. told[u]
  BY <1>1
<1>. QED  BY <1>2, <1>3, ScreeningAssumption DEF Versions, Says

LEMMA WholeFacts ==
  ASSUME Kept, NEW u \in Users, NEW s, Whole(u, s)
  PROVE  s.edges \in EdgeSets /\ OnePerAxis(s.dims)
<1>1. PICK p \in Versions(u) : s \in Snapshots(p)
  BY DEF Whole
<1>2. IsProfile(p)
  BY <1>1, VersionOf
<1>3. PICK a \in Answers : s = SnapshotOf(p, DeriveInterests(p, a))
  BY <1>1 DEF Snapshots
<1>4. DeriveInterests(p, a) \in EdgeSets
  BY <1>2, DerivedEdges
<1>5. s.edges = DeriveInterests(p, a) /\ s.dims = p.dims
  BY <1>3 DEF SnapshotOf
<1>6. OnePerAxis(p.dims)
  BY <1>2 DEF IsProfile, OnePerAxis
<1>. QED  BY <1>4, <1>5, <1>6

LEMMA ScreeningStarts == ScreeningInit => ScreeningInv
<1>. SUFFICES ASSUME ScreeningInit PROVE ScreeningInv
  OBVIOUS
<1>1. Kept
  <2>1. \A u \in Users : Len(Story[u]) \in Nat \ {0}
    BY ScreeningAssumption
  <2>2. MaxIngests \in Nat
    BY ScreeningAssumption
  <2>. QED  BY <2>1, <2>2 DEF Kept, ScreeningInit
<1>2. InHand
  BY DEF InHand, ScreeningInit
<1>3. InStore
  BY DEF InStore, ScreeningInit
<1>4. Comparable
  BY NoEdges DEF Comparable, ScreeningInit, OnePerAxis
<1>. DEFINE n == Scale
<1>5. 0 \in 0 .. n
  <2>1. n \in Nat
    BY DEF Scale
  <2>. HIDE DEF n
  <2>. QED  BY <2>1
<1>. HIDE DEF n
<1>6. RankedWell
  <2>. SUFFICES ASSUME NEW p \in Pairs
                PROVE  /\ ranked[p].score \in 0 .. n /\ ranked[p].confidence \in 0 .. n
                       /\ ~ranked[p].human_review_flag => ~(ranked[p].confidence < Settings.review)
    BY Zenon DEF RankedWell, n
  <2>1. ranked[p] = Unranked
    BY DEF ScreeningInit
  <2>. QED  BY <1>5, <2>1 DEF Unranked
<1>7. JudgedWell
  <2>. SUFFICES ASSUME NEW p \in Pairs
                PROVE  /\ verdict[p].final \in 0 .. n
                       /\ verdict[p] # Unjudged => verdict[p].final >= (6 * Settings.review) \div 10
    BY Zenon DEF JudgedWell, n
  <2>1. verdict[p] = Unjudged
    BY DEF ScreeningInit
  <2>2. Unjudged.final = 0
    BY DEF Unjudged
  <2>. QED  BY <1>5, <2>1, <2>2
<1>. QED  BY <1>1, <1>2, <1>3, <1>4, <1>6, <1>7 DEF ScreeningInv

-------------------------------------------------------------------------------
(* Its steps.                                                                *)

scoreVars == <<ranked, verdict, shown>>
storeVars == <<told, runs, row, dims, edges, ingest, torn>>

\* A step that leaves the ingest and the store alone.
LEMMA StoreStays ==
  ASSUME Kept, InHand, InStore, Comparable, UNCHANGED storeVars
  PROVE  InHand' /\ InStore' /\ Comparable'
<1>1. \A u \in Users : Versions(u)' = Versions(u)
  BY DEF Versions, storeVars
<1>2. InHand'
  BY <1>1 DEF InHand, Whole, storeVars
<1>3. InStore'
  BY <1>1 DEF InStore, Whole, Stored, Writing, storeVars
<1>. QED  BY <1>2, <1>3 DEF Comparable, storeVars

\* A step that leaves the scores alone.
LEMMA ScoresStay ==
  ASSUME RankedWell, JudgedWell, UNCHANGED scoreVars
  PROVE  RankedWell' /\ JudgedWell'
BY DEF RankedWell, JudgedWell, scoreVars

\* What was whole remains so as the story goes on.
LEMMA WholeStays ==
  ASSUME Kept, NEW v \in Users, NEW s, Whole(v, s), told'[v] \in Nat, told'[v] >= told[v]
  PROVE  Whole(v, s)'
<1>1. \A i \in 1 .. told[v] : i \in 1 .. told'[v]
  BY DEF Kept
<1>2. Versions(v) \subseteq Versions(v)'
  BY <1>1 DEF Versions
<1>. QED  BY <1>2 DEF Whole

LEMMA LearnKeeps ==
  ASSUME ScreeningInv, NEW u \in Users, Learn(u)
  PROVE  ScreeningInv'
<1>. USE DEF ScreeningInv, Learn
<1>1. Kept'
  <2>1. told[u] \in Nat \ {0} /\ told[u] < Len(Story[u]) /\ Len(Story[u]) \in Nat
    BY ScreeningAssumption DEF Kept
  <2>. QED  BY <2>1 DEF Kept
<1>2. \A v \in Users : told'[v] \in Nat /\ told'[v] >= told[v]
  BY DEF Kept
<1>3. \A v \in Users : \A s : Whole(v, s) => Whole(v, s)'
  BY <1>2, WholeStays
<1>4. InHand'
  BY <1>3 DEF InHand
<1>5. InStore'
  BY <1>3 DEF InStore, Stored, Writing
<1>6. Comparable'
  BY DEF Comparable
<1>7. RankedWell' /\ JudgedWell'
  BY ScoresStay DEF scoreVars
<1>. QED  BY <1>1, <1>4, <1>5, <1>6, <1>7

LEMMA FetchKeeps ==
  ASSUME ScreeningInv, NEW u \in Users, Fetch(u)
  PROVE  ScreeningInv'
<1>. USE DEF ScreeningInv
<1>1. PICK s \in Snapshots(Says(u)) :
        /\ ingest = NoIngest /\ runs[u] < MaxIngests
        /\ ingest' = [user |-> u, next |-> "row", snap |-> s]
        /\ runs' = [runs EXCEPT ![u] = @ + 1]
  BY DEF Fetch, BeginIngest
<1>2. UNCHANGED <<told, row, dims, edges, torn, ranked, verdict, shown>>
  BY DEF Fetch
<1>3. Kept'
  <2>1. runs[u] + 1 \in 0 .. MaxIngests
    BY <1>1, ScreeningAssumption DEF Kept
  <2>. QED  BY <1>1, <1>2, <2>1 DEF Kept
<1>4. InHand'
  <2>1. Whole(u, s)
    BY VersionOf DEF Whole
  <2>2. Whole(u, s)'
    BY <1>2, <2>1 DEF Whole, Versions
  <2>3. /\ ingest'.user = u /\ ingest'.next = "row" /\ ingest'.snap = s
        /\ DOMAIN ingest' = {"user", "next", "snap"}
    BY <1>1
  <2>. QED  BY <2>2, <2>3 DEF InHand
<1>5. InStore'
  <2>1. \A v \in Users : Whole(v, Stored(v)) => Whole(v, Stored(v))'
    BY <1>2 DEF Whole, Stored, Versions
  <2>2. \A v \in Users : ~Writing(v)
    BY <1>1 DEF Writing
  <2>. QED  BY <1>2, <2>1, <2>2 DEF InStore
<1>6. Comparable'
  BY <1>2 DEF Comparable
<1>7. RankedWell' /\ JudgedWell'
  BY <1>2, ScoresStay DEF scoreVars
<1>. QED  BY <1>3, <1>4, <1>5, <1>6, <1>7

\* The three writes: the user in hand is being written until the last.
LEMMA WriteRowKeeps ==
  ASSUME ScreeningInv, WriteRow
  PROVE  ScreeningInv'
<1>. USE DEF ScreeningInv, WriteRow
<1>1. ingest # NoIngest
  BY DEF NoIngest
<1>. DEFINE u == ingest.user
<1>2. u \in Users /\ DOMAIN ingest = {"user", "next", "snap"} /\ Whole(u, ingest.snap)
  BY <1>1 DEF InHand
<1>3. /\ ingest'.user = u /\ ingest'.snap = ingest.snap /\ ingest'.next = "dims"
      /\ DOMAIN ingest' = {"user", "next", "snap"}
  BY <1>2
<1>4. ingest' # NoIngest
  BY <1>3 DEF NoIngest
<1>5. Kept'
  BY DEF Kept
<1>6. row'[u] = ingest.snap.row /\ \A v \in Users : v # u => row'[v] = row[v]
  BY <1>2 DEF Kept
<1>7. \A v \in Users : \A s : Whole(v, s)' <=> Whole(v, s)
  BY DEF Whole, Versions
<1>8. InHand'
  BY <1>2, <1>3, <1>6, <1>7 DEF InHand
<1>9. InStore'
  <2>1. \A v \in Users : v # u => ~Writing(v) /\ Stored(v)' = Stored(v)
    BY <1>6 DEF Writing, Stored
  <2>2. Writing(u)'
    BY <1>3, <1>4 DEF Writing
  <2>. QED  BY <1>6, <1>7, <2>1, <2>2 DEF InStore
<1>10. Comparable'
  BY DEF Comparable
<1>11. RankedWell' /\ JudgedWell'
  BY ScoresStay DEF scoreVars
<1>. QED  BY <1>5, <1>8, <1>9, <1>10, <1>11

LEMMA WriteDimsKeeps ==
  ASSUME ScreeningInv, WriteDims
  PROVE  ScreeningInv'
<1>. USE DEF ScreeningInv, WriteDims
<1>1. ingest # NoIngest
  BY DEF NoIngest
<1>. DEFINE u == ingest.user
<1>2. /\ u \in Users /\ DOMAIN ingest = {"user", "next", "snap"} /\ Whole(u, ingest.snap)
      /\ row[u] = ingest.snap.row
  BY <1>1 DEF InHand
<1>3. /\ ingest'.user = u /\ ingest'.snap = ingest.snap /\ ingest'.next = "edges"
      /\ DOMAIN ingest' = {"user", "next", "snap"}
  BY <1>2
<1>4. ingest' # NoIngest
  BY <1>3 DEF NoIngest
<1>5. Kept'
  BY DEF Kept
<1>6. dims'[u] = ingest.snap.dims /\ \A v \in Users : v # u => dims'[v] = dims[v]
  BY <1>2 DEF Kept
<1>7. \A v \in Users : \A s : Whole(v, s)' <=> Whole(v, s)
  BY DEF Whole, Versions
<1>8. InHand'
  BY <1>2, <1>3, <1>6, <1>7 DEF InHand
<1>9. InStore'
  <2>1. \A v \in Users : v # u => ~Writing(v) /\ Stored(v)' = Stored(v)
    BY <1>6 DEF Writing, Stored
  <2>2. Writing(u)'
    BY <1>3, <1>4 DEF Writing
  <2>. QED  BY <1>7, <2>1, <2>2 DEF InStore
<1>10. Comparable'
  <2>1. OnePerAxis(ingest.snap.dims)
    BY <1>2, WholeFacts
  <2>. QED  BY <1>6, <2>1 DEF Comparable
<1>11. RankedWell' /\ JudgedWell'
  BY ScoresStay DEF scoreVars
<1>. QED  BY <1>5, <1>8, <1>9, <1>10, <1>11

LEMMA WriteEdgesKeeps ==
  ASSUME ScreeningInv, WriteEdges
  PROVE  ScreeningInv'
<1>. USE DEF ScreeningInv, WriteEdges
<1>1. ingest # NoIngest
  BY DEF NoIngest
<1>0. PICK u, s : u = ingest.user /\ s = ingest.snap
  OBVIOUS
<1>2. /\ u \in Users /\ DOMAIN ingest = {"user", "next", "snap"} /\ Whole(u, s)
      /\ row[u] = s.row /\ dims[u] = s.dims
  BY <1>0, <1>1 DEF InHand
<1>5. Kept'
  BY DEF Kept
<1>6. edges'[u] = s.edges /\ \A v \in Users : v # u => edges'[v] = edges[v]
  BY <1>0, <1>2 DEF Kept
<1>7. \A v \in Users : \A t : Whole(v, t)' <=> Whole(v, t)
  BY DEF Whole, Versions
<1>8. InHand'
  BY DEF InHand
<1>9. InStore'
  <2>1. \A v \in Users : v # u => ~Writing(v) /\ Stored(v)' = Stored(v)
    BY <1>0, <1>6 DEF Writing, Stored
  <2>2. Stored(u)' = [row |-> s.row, dims |-> s.dims, edges |-> s.edges]
    BY <1>2, <1>6 DEF Stored
  <2>3. [row |-> s.row, dims |-> s.dims, edges |-> s.edges] = s
    BY <1>2 DEF Whole, Snapshots, SnapshotOf
  <2>4. Whole(u, Stored(u))'
    BY <1>2, <1>7, <2>2, <2>3
  <2>5. torn' = torn \ {u}
    BY <1>0
  <2>6. UNCHANGED row
    OBVIOUS
  <2>7. \A v \in Users \ torn' : row'[v] # NotIn => Whole(v, Stored(v))'
    <3>. SUFFICES ASSUME NEW v \in Users \ torn', row'[v] # NotIn PROVE Whole(v, Stored(v))'
      OBVIOUS
    <3>1. CASE v = u
      BY <2>4, <3>1
    <3>2. CASE v # u
      <4>1. v \in Users \ torn /\ ~Writing(v) /\ row[v] # NotIn
        BY <2>1, <2>5, <2>6, <3>2
      <4>2. Whole(v, Stored(v))
        BY <4>1 DEF InStore
      <4>. QED  BY <1>7, <2>1, <3>2, <4>2
    <3>. QED  BY <3>1, <3>2
  <2>. QED  BY <2>7 DEF InStore
<1>10. Comparable'
  <2>1. s.edges \in EdgeSets
    BY <1>2, WholeFacts
  <2>. QED  BY <1>6, <2>1 DEF Comparable
<1>11. RankedWell' /\ JudgedWell'
  BY ScoresStay DEF scoreVars
<1>. QED  BY <1>5, <1>8, <1>9, <1>10, <1>11

LEMMA CutIngestKeeps ==
  ASSUME ScreeningInv, CutIngest
  PROVE  ScreeningInv'
<1>. USE DEF ScreeningInv, CutIngest
<1>. DEFINE u == ingest.user
<1>1. u \in Users /\ ingest # NoIngest
  BY DEF InHand
<1>2. Kept'
  BY <1>1 DEF Kept
<1>3. InHand'
  BY DEF InHand
<1>4. InStore'
  <2>1. \A v \in Users : Whole(v, Stored(v))' <=> Whole(v, Stored(v))
    BY DEF Whole, Stored, Versions
  <2>2. torn \subseteq torn' /\ \A v \in Users \ torn' : ~Writing(v)
    BY DEF Writing
  <2>. QED  BY <2>1, <2>2 DEF InStore
<1>5. Comparable'
  BY DEF Comparable
<1>6. RankedWell' /\ JudgedWell'
  BY ScoresStay DEF scoreVars
<1>. QED  BY <1>2, <1>3, <1>4, <1>5, <1>6

\* The scoring: what the kernel says of two in the store.
LEMMA ScoreUserKeeps ==
  ASSUME ScreeningInv, NEW u \in Users, ScoreUser(u)
  PROVE  ScreeningInv'
<1>. USE DEF ScreeningInv
<1>. DEFINE open == {p \in PairsFrom(u) : p[2] \in InPool /\ p \notin shown}
            now  == [p \in open |-> KernelOf(Snap(u), Snap(p[2]))]
<1>1. PICK best \in Tops(open, TopN, LAMBDA p : now[p].score) :
        ranked' = [p \in Pairs |-> IF p \in best THEN now[p] ELSE ranked[p]]
  BY DEF ScoreUser
<1>2. UNCHANGED storeVars /\ UNCHANGED <<verdict, shown>>
  BY DEF ScoreUser, storeVars
<1>3. best \subseteq open
  BY <1>1 DEF Tops
<1>4. \A p \in best : p \in Pairs /\ p[2] \in Users /\ now[p] = KernelOf(Snap(u), Snap(p[2]))
  BY <1>3 DEF PairsFrom, Pairs
<1>5. \A v \in Users : Snap(v).edges \in EdgeSets /\ OnePerAxis(Snap(v).dims)
  BY DEF Comparable, Snap
<1>. DEFINE n == Scale
<1>6. ASSUME NEW p \in best
      PROVE  /\ now[p].score \in 0 .. n /\ now[p].confidence \in 0 .. n
             /\ ~now[p].human_review_flag => ~(now[p].confidence < Settings.review)
  <2>. DEFINE k == KernelOf(Snap(u), Snap(p[2]))
  <2>1. /\ k.score \in 0 .. n /\ k.confidence \in 0 .. n
        /\ k.human_review_flag = (k.confidence < Settings.review)
    BY <1>4, <1>5, KernelSays, Zenon
  <2>2. now[p] = k
    BY <1>4
  <2>. HIDE DEF k, now, n
  <2>. QED  BY <2>1, <2>2
<1>. HIDE DEF now, n
<1>7. RankedWell'
  <2>. SUFFICES ASSUME NEW p \in Pairs
                PROVE  /\ ranked'[p].score \in 0 .. n /\ ranked'[p].confidence \in 0 .. n
                       /\ ~ranked'[p].human_review_flag => ~(ranked'[p].confidence < Settings.review)
    BY Zenon DEF RankedWell, n
  <2>1. CASE p \in best
    <3>1. ranked'[p] = now[p]
      BY <1>1, <2>1
    <3>. QED  BY <1>6, <2>1, <3>1
  <2>2. CASE p \notin best
    <3>1. ranked'[p] = ranked[p]
      BY <1>1, <2>2
    <3>2. /\ ranked[p].score \in 0 .. n /\ ranked[p].confidence \in 0 .. n
          /\ ~ranked[p].human_review_flag => ~(ranked[p].confidence < Settings.review)
      BY Zenon DEF RankedWell, n
    <3>. QED  BY <3>1, <3>2
  <2>. QED  BY <2>1, <2>2
<1>8. JudgedWell'
  BY <1>2 DEF JudgedWell
<1>9. Kept'
  BY <1>2 DEF Kept, storeVars
<1>10. InHand' /\ InStore' /\ Comparable'
  BY <1>2, StoreStays
<1>. QED  BY <1>7, <1>8, <1>9, <1>10

\* compute_final_confidence: six parts of the kernel's, four of the model's.
LEMMA FinalWithin ==
  ASSUME NEW k \in 0 .. Scale, NEW l \in 0 .. Scale
  PROVE  /\ FinalConfidence(k, l) \in 0 .. Scale
         /\ k >= Settings.review => FinalConfidence(k, l) >= (6 * Settings.review) \div 10
<1>. DEFINE n == 10000
            x == 6 * k + 4 * l + 5
            f == x \div 10
            r == Settings.review
<1>1. k \in Nat /\ l \in Nat /\ k <= n /\ l <= n
  BY DEF Scale
<1>2. x \in Nat /\ x <= 100005 /\ (k >= 5000 => x >= 30000)
  BY <1>1
<1>3. FinalConfidence(k, l) = f
  BY DEF FinalConfidence
<1>4. r = 5000 /\ n = Scale /\ n \in Nat /\ n = 10000
  BY DEF Settings, Scale
<1>. HIDE DEF n, x, r
<1>5. f \in Nat /\ f <= 10000 /\ (k >= 5000 => f >= 3000)
  BY <1>2
<1>. HIDE DEF f
<1>6. f \in 0 .. n
  BY <1>4, <1>5
<1>7. k >= r => f >= (6 * r) \div 10
  BY <1>1, <1>4, <1>5
<1>a. n = Scale
  BY <1>4
<1>8. FinalConfidence(k, l) \in 0 .. Scale
  BY <1>3, <1>6, <1>a, Zenon
<1>9. k >= r => FinalConfidence(k, l) >= (6 * r) \div 10
  BY <1>3, <1>7
<1>. QED  BY <1>8, <1>9, Zenon DEF r

\* The evaluation: of a pair whose score asked for no review.
LEMMA EvalPairKeeps ==
  ASSUME ScreeningInv, NEW p \in Pairs, NEW o \in Opinions, EvalPair(p, o)
  PROVE  ScreeningInv'
<1>. USE DEF ScreeningInv
<1>1. PICK list \in Shortlists(p[1]) : p \in list
  BY DEF EvalPair
<1>2. ~ranked[p].human_review_flag
  BY <1>1 DEF Shortlists, Tops
<1>. DEFINE n == Scale
            k == ranked[p].confidence
            l == o.confidence
            f == FinalConfidence(k, l)
<1>3. k \in 0 .. n /\ ~(k < Settings.review) /\ l \in 0 .. n
  BY <1>2, ScreeningAssumption, Zenon DEF RankedWell, n
<1>. HIDE DEF k, l
<1>4. k >= Settings.review
  <2>1. k \in Nat /\ Settings.review = 5000
    <3>1. n \in Nat
      BY DEF Scale
    <3>. HIDE DEF n
    <3>. QED  BY <1>3, <3>1 DEF Settings
  <2>2. ~(k < Settings.review)
    BY <1>3
  <2>. HIDE DEF n
  <2>. QED  BY <2>1, <2>2
<1>5. f \in 0 .. n /\ f >= (6 * Settings.review) \div 10
  BY <1>3, <1>4, FinalWithin
<1>. HIDE DEF f, n
<1>6. /\ verdict' = [verdict EXCEPT ![p] = [would_click |-> o.would_click, flag_for_review |-> o.flag_for_review,
                                            final |-> f]]
      /\ UNCHANGED storeVars /\ UNCHANGED <<ranked, shown>>
  BY DEF EvalPair, storeVars, f, k, l
<1>7. verdict'[p].final = f /\ \A q \in Pairs : q # p => verdict'[q] = verdict[q]
  BY <1>6 DEF Kept
<1>8. JudgedWell'
  <2>. SUFFICES ASSUME NEW q \in Pairs
                PROVE  /\ verdict'[q].final \in 0 .. n
                       /\ verdict'[q] # Unjudged => verdict'[q].final >= (6 * Settings.review) \div 10
    BY Zenon DEF JudgedWell, n
  <2>1. CASE q = p
    BY <1>5, <1>7, <2>1
  <2>2. CASE q # p
    <3>1. /\ verdict[q].final \in 0 .. n
          /\ verdict[q] # Unjudged => verdict[q].final >= (6 * Settings.review) \div 10
      BY Zenon DEF JudgedWell, n
    <3>. QED  BY <1>7, <2>2, <3>1
  <2>. QED  BY <2>1, <2>2
<1>9. RankedWell'
  BY <1>6 DEF RankedWell
<1>10. Kept'
  BY <1>6 DEF Kept, storeVars
<1>11. InHand' /\ InStore' /\ Comparable'
  BY <1>6, StoreStays
<1>. QED  BY <1>8, <1>9, <1>10, <1>11

LEMMA SurfaceUserKeeps ==
  ASSUME ScreeningInv, NEW u \in Users, SurfaceUser(u)
  PROVE  ScreeningInv'
<1>. USE DEF ScreeningInv
<1>. DEFINE fit == {p \in PairsFrom(u) \ shown : /\ ranked[p] # Unranked /\ verdict[p].would_click
                                                 /\ verdict[p].final >= SurfaceThreshold}
<1>1. PICK top \in Tops(fit, 1, LAMBDA p : verdict[p].final) : shown' = shown \cup top
  BY DEF SurfaceUser
<1>2. top \subseteq Pairs
  BY DEF Tops, PairsFrom
<1>3. UNCHANGED storeVars /\ UNCHANGED <<ranked, verdict>>
  BY DEF SurfaceUser, storeVars
<1>4. Kept'
  BY <1>1, <1>2, <1>3 DEF Kept, storeVars
<1>5. RankedWell' /\ JudgedWell'
  BY <1>3 DEF RankedWell, JudgedWell
<1>6. InHand' /\ InStore' /\ Comparable'
  BY <1>3, StoreStays
<1>. QED  BY <1>4, <1>5, <1>6

LEMMA ScreeningStays ==
  ASSUME ScreeningInv, UNCHANGED screeningVars
  PROVE  ScreeningInv'
<1>1. UNCHANGED storeVars /\ UNCHANGED scoreVars
  BY DEF screeningVars, storeVars, scoreVars
<1>2. InHand' /\ InStore' /\ Comparable'
  BY <1>1, StoreStays DEF ScreeningInv
<1>3. RankedWell' /\ JudgedWell'
  BY <1>1, ScoresStay DEF ScreeningInv
<1>4. Kept'
  BY <1>1 DEF ScreeningInv, Kept, storeVars, scoreVars
<1>. QED  BY <1>2, <1>3, <1>4 DEF ScreeningInv

LEMMA ScreeningSteps == ScreeningInv /\ [ScreeningNext]_screeningVars => ScreeningInv'
<1>. SUFFICES ASSUME ScreeningInv, [ScreeningNext]_screeningVars PROVE ScreeningInv'
  OBVIOUS
<1>1. ASSUME NEW u \in Users, Learn(u) \/ Fetch(u) \/ ScoreUser(u) \/ SurfaceUser(u) PROVE ScreeningInv'
  BY <1>1, LearnKeeps, FetchKeeps, ScoreUserKeeps, SurfaceUserKeeps
<1>2. ASSUME NEW p \in Pairs, NEW o \in Opinions, EvalPair(p, o) PROVE ScreeningInv'
  BY <1>2, EvalPairKeeps
<1>3. CASE WriteRow \/ WriteDims \/ WriteEdges \/ CutIngest
  BY <1>3, WriteRowKeeps, WriteDimsKeeps, WriteEdgesKeeps, CutIngestKeeps
<1>4. CASE UNCHANGED screeningVars
  BY <1>4, ScreeningStays
<1>. QED  BY <1>1, <1>2, <1>3, <1>4 DEF ScreeningNext

-------------------------------------------------------------------------------
(* What holds of the screening.                                              *)

\* The invariant of the passes' data, for any stories, answers and opinions, any
\* number of users and however the writes of the ingest fall.
THEOREM ScreeningHolds == ScreeningSpec => []ScreeningInv
BY ScreeningStarts, ScreeningSteps, PTL DEF ScreeningSpec

\* Its parts, as the state of the store is typed.
LEMMA ScreeningTyped == ScreeningInv => ScreeningTypeOK
<1>. SUFFICES ASSUME ScreeningInv PROVE ScreeningTypeOK
  OBVIOUS
<1>. DEFINE n == Scale
<1>1. told \in [Users -> Nat \ {0}] /\ runs \in [Users -> 0 .. MaxIngests] /\ torn \subseteq Users /\ shown \subseteq Pairs
  BY DEF ScreeningInv, Kept
<1>2. ASSUME NEW u \in Users, NEW e \in edges[u], NEW f \in edges[u]
      PROVE  e.node \in Catalog /\ e.weight \in 1 .. n /\ (e.node = f.node => e = f)
  <2>1. edges[u] \in EdgeSets
    BY DEF ScreeningInv, Comparable
  <2>2. e \in EdgeRow
    BY <2>1 DEF EdgeSets
  <2>. HIDE DEF n
  <2>3. e.node \in Catalog /\ e.weight \in 1 .. n
    BY <2>2, Zenon DEF EdgeRow, n
  <2>4. e.node = f.node => e = f
    BY <2>1 DEF EdgeSets
  <2>. QED  BY <2>3, <2>4
<1>3. ingest # NoIngest => ingest.user \in Users /\ ingest.next \in {"row", "dims", "edges"}
  BY DEF ScreeningInv, InHand
<1>4. \A p \in Pairs : ranked[p].score \in 0 .. n /\ verdict[p].final \in 0 .. n
  BY Zenon DEF ScreeningInv, RankedWell, JudgedWell, n
<1>. HIDE DEF n
<1>. QED  BY <1>1, <1>2, <1>3, <1>4, Zenon DEF ScreeningTypeOK, n

\* One edge per node and one row per pair, of the catalogue and on the scale.
THEOREM ScreeningTypeCorrect == ScreeningSpec => []ScreeningTypeOK
BY ScreeningHolds, ScreeningTyped, PTL

\* "A transient outage must never wipe/destale derived state": whoever is in the
\* store, not torn and not in the ingest's hand, is there as what one profile they
\* really had gives, all three tables of it.
THEOREM SnapshotIsWholeHolds == ScreeningSpec => []SnapshotIsWhole
<1>1. ScreeningInv => SnapshotIsWhole
  <2>. SUFFICES ASSUME ScreeningInv, NEW u \in Users \ torn, row[u] # NotIn, ingest.user # u
                PROVE  \E p \in Versions(u) :
      /\ edges[u] \in {ExtractInterests(p)} \cup {ParseTags(a.items) : a \in {x \in Answers : x.kind = "tags"}}
      /\ dims[u] = p.dims
      /\ row[u] = [state |-> p.state, ready |-> ReadyFor(p, edges[u])]
    BY DEF SnapshotIsWhole
  <2>1. Whole(u, Stored(u))
    BY DEF ScreeningInv, InStore, Writing
  <2>2. PICK p \in Versions(u), a \in Answers : Stored(u) = SnapshotOf(p, DeriveInterests(p, a))
    BY <2>1 DEF Whole, Snapshots
  <2>3. /\ edges[u] = DeriveInterests(p, a) /\ dims[u] = p.dims
        /\ row[u] = [state |-> p.state, ready |-> ReadyFor(p, edges[u])]
    BY <2>2 DEF Stored, SnapshotOf
  <2>4. edges[u] \in {ExtractInterests(p)} \cup {ParseTags(x.items) : x \in {y \in Answers : y.kind = "tags"}}
    BY <2>3 DEF DeriveInterests
  <2>. QED  BY <2>3, <2>4
<1>. QED  BY <1>1, ScreeningHolds, PTL

\* Two people are judged alike from either side, between the least and the greatest
\* of what is known of both, and a verdict rests on enough evidence: for any
\* catalogue, any edges and dimensions the store may come to hold.
THEOREM VerdictsAreFairHolds == ScreeningSpec => []VerdictsAreFair
<1>1. ScreeningInv => KernelIsFair
  <2>. SUFFICES ASSUME ScreeningInv, NEW p \in Pairs
                PROVE  LET a == Snap(p[1])
                           b == Snap(p[2])
                           says == KernelOf(a, b)
                           parts == {c[3] : c \in Components(a, b)}
                       IN  /\ says = KernelOf(b, a)
                           /\ \E x, y \in parts : x <= says.score /\ says.score <= y
    BY DEF KernelIsFair
  <2>1. p[1] \in Users /\ p[2] \in Users
    BY DEF Pairs
  <2>2. \A u \in Users : Snap(u).edges \in EdgeSets /\ OnePerAxis(Snap(u).dims)
    BY DEF ScreeningInv, Comparable, Snap
  <2>. QED  BY <2>1, <2>2, KernelSays, Zenon
<1>2. ScreeningInv => JudgedWhenSure
  <2>. SUFFICES ASSUME ScreeningInv, NEW p \in Pairs, verdict[p] # Unjudged
                PROVE  verdict[p].final >= (6 * Settings.review) \div 10
    BY DEF JudgedWhenSure
  <2>. QED  BY Zenon DEF ScreeningInv, JudgedWell
<1>. QED  BY <1>1, <1>2, ScreeningHolds, PTL DEF VerdictsAreFair
================================================================================
