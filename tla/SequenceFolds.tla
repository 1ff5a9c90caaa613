---------------------------- MODULE SequenceFolds ----------------------------
(***************************************************************************)
(* What FoldLeft of the community modules computes, for any operator and   *)
(* base: the equations of a loop over a sequence, and what every round of  *)
(* the loop keeps.  The code's loops over journal records, entries of a    *)
(* fact and the like are folds, so the proofs about them rest on these.    *)
(*                                                                         *)
(* A proof instantiates op with the operator of its own fold.  The         *)
(* induction is on the least counterexample, a set, because the induction  *)
(* theorems of the library take a predicate as a parameter.  The second    *)
(* part does the same for sums over a finite set.                          *)
(***************************************************************************)
EXTENDS Integers, Sequences, SequencesExt, WellFoundedInduction,
        FiniteSetTheorems, TLAPS

CONSTANT op(_, _)

Fold(base, s) == FoldLeft(op, base, s)

\* FoldLeft goes through a function on the sets of indices, from the greatest
\* index down; its value on the set t, and the equation it solves up to n.
Value(base, s, iter, t) ==
    IF t = {} THEN base ELSE op(iter[t \ {Max(t)}], s[Max(t)])

Solves(base, s, iter, n) == iter = [t \in SUBSET (1..n) |-> Value(base, s, iter, t)]

Iter(base, s) == CHOOSE iter : iter = [t \in SUBSET (DOMAIN s) |-> Value(base, s, iter, t)]

LEMMA FoldIter == ASSUME NEW base, NEW s PROVE Fold(base, s) = Iter(base, s)[DOMAIN s]
  BY DEF Fold, FoldLeft, MapThenFoldSet, Iter, Value

\* A set of natural numbers with an element has a least one.
LEMMA LeastNatural ==
    ASSUME NEW T \in SUBSET Nat, T # {}
    PROVE  \E n \in T : \A m \in T : n <= m
<1> DEFINE R == {p \in Nat \X Nat : p[1] < p[2]}
<1>1. IsWellFoundedOn(R, Nat)
  BY NatLessThanWellFounded DEF OpToRel
<1>2. PICK n \in T : \A m \in T : ~(<<m, n>> \in R)
  BY <1>1, WFMin
<1>3. ASSUME NEW m \in T PROVE n <= m
  <2>1. ~(<<m, n>> \in R)
    BY <1>2
  <2>2. ~(m < n)
    BY <2>1
  <2> QED
    BY <2>2
<1> QED BY <1>3

\* The equation has a solution: one up to n + 1 extends one up to n.
LEMMA SolutionExists ==
    ASSUME NEW base, NEW S, NEW s \in Seq(S), NEW n \in 0..Len(s)
    PROVE  \E iter : Solves(base, s, iter, n)
<1> DEFINE P(k) == \E iter : Solves(base, s, iter, k)
           T == {k \in 0..Len(s) : ~P(k)}
<1>1. P(0)
  <2> DEFINE iter == [t \in SUBSET (1..0) |-> base]
  <2>1. iter = [t \in SUBSET (1..0) |-> Value(base, s, iter, t)]
    BY DEF Value
  <2> QED BY <2>1 DEF Solves
<1>2. ASSUME NEW k \in 0..(Len(s) - 1), P(k) PROVE P(k + 1)
  <2>1. PICK g : Solves(base, s, g, k)
    BY <1>2
  <2> DEFINE h == [t \in SUBSET (1..(k + 1)) |->
                     IF k + 1 \in t THEN op(g[t \ {k + 1}], s[k + 1]) ELSE g[t]]
  <2>2. ASSUME NEW t \in SUBSET (1..(k + 1)) PROVE h[t] = Value(base, s, h, t)
    <3>1. CASE k + 1 \in t
      <4>1. Max(t) = k + 1
        <5>1. \A y \in t : y \in Int /\ k + 1 >= y
          OBVIOUS
        <5>2. Max(t) \in t /\ \A y \in t : Max(t) >= y
          BY <3>1, <5>1 DEF Max
        <5>3. PICK m : m = Max(t)
          OBVIOUS
        <5>4. m \in Int /\ k + 1 >= m /\ m >= k + 1
          BY <3>1, <5>1, <5>2, <5>3
        <5> QED BY <5>3, <5>4
      <4>2. t \ {k + 1} \in SUBSET (1..(k+1)) /\ k + 1 \notin t \ {k + 1}
        OBVIOUS
      <4>3. h[t \ {k + 1}] = g[t \ {k + 1}]
        BY <4>2
      <4> QED BY <3>1, <4>1, <4>3 DEF Value
    <3>2. CASE k + 1 \notin t
      <4>1. t \in SUBSET (1..k) /\ h[t] = g[t]
        BY <3>2
      <4>2. h[t \ {Max(t)}] = g[t \ {Max(t)}]
        BY <3>2
      <4>3. g[t] = Value(base, s, g, t)
        BY <2>1, <4>1 DEF Solves
      <4> QED BY <4>1, <4>2, <4>3 DEF Value
    <3> QED BY <3>1, <3>2
  <2>3. h = [t \in SUBSET (1..(k + 1)) |-> Value(base, s, h, t)]
    BY <2>2
  <2> QED BY <2>3 DEF Solves
<1> HIDE DEF P
<1>3. SUFFICES ASSUME ~P(n) PROVE FALSE
  BY DEF P
<1>4. PICK k \in T : \A m \in T : k <= m
  <2>1. n \in T
    BY <1>3
  <2>2. T \in SUBSET Nat
    OBVIOUS
  <2> QED BY <2>1, <2>2, LeastNatural
<1>5. k # 0 /\ k - 1 \in 0..(Len(s) - 1) /\ P(k - 1)
  BY <1>1, <1>4
<1> QED BY <1>2, <1>4, <1>5

\* So Iter(base, s) is one.
LEMMA IterSolves ==
    ASSUME NEW base, NEW S, NEW s \in Seq(S)
    PROVE  Solves(base, s, Iter(base, s), Len(s))
<1>1. \E iter : Solves(base, s, iter, Len(s))
  <2>1. Len(s) \in 0..Len(s)
    OBVIOUS
  <2> QED
    BY <2>1, SolutionExists
<1>2. DOMAIN s = 1..Len(s)
  OBVIOUS
<1> QED
  BY <1>1, <1>2 DEF Solves, Iter

\* The value on the indices up to n, in terms of the value up to n - 1.
LEMMA IterStep ==
    ASSUME NEW base, NEW S, NEW s \in Seq(S)
    PROVE  /\ Iter(base, s)[{}] = base
           /\ \A n \in 1..Len(s) : Iter(base, s)[1..n] = op(Iter(base, s)[1..(n - 1)], s[n])
<1>1. \A t \in SUBSET (1..Len(s)) : Iter(base, s)[t] = Value(base, s, Iter(base, s), t)
  <2> DEFINE it == Iter(base, s)
  <2>1. it = [t \in SUBSET (1..Len(s)) |-> Value(base, s, it, t)]
    BY IterSolves DEF Solves
  <2> HIDE DEF it
  <2>2. \A t \in SUBSET (1..Len(s)) : it[t] = Value(base, s, it, t)
    BY <2>1
  <2> QED BY <2>2 DEF it
<1>2. Iter(base, s)[{}] = base
  BY <1>1 DEF Value
<1>3. ASSUME NEW n \in 1..Len(s)
      PROVE  Iter(base, s)[1..n] = op(Iter(base, s)[1..(n - 1)], s[n])
  <2>0. Len(s) \in Nat /\ n \in 1..n
    BY <1>3
  <2>1. 1..n \in SUBSET (1..Len(s)) /\ 1..n # {}
    BY <1>3, <2>0
  <2>2. Max(1..n) = n
    <3>1. Max(1..n) \in 1..n /\ \A y \in 1..n : Max(1..n) >= y
      <4>1. \E x \in 1..n : \A y \in 1..n : x >= y
        OBVIOUS
      <4> QED BY <4>1 DEF Max
    <3>2. PICK m : m = Max(1..n)
      OBVIOUS
    <3>3. m \in 1..n /\ m >= n
      BY <3>1, <3>2
    <3> QED BY <3>2, <3>3
  <2>3. (1..n) \ {n} = 1..(n - 1)
    OBVIOUS
  <2> QED BY <1>1, <2>1, <2>2, <2>3 DEF Value
<1> QED BY <1>2, <1>3

-----------------------------------------------------------------------------
\* The fold of an empty sequence is the base.
LEMMA FoldEmpty == \A base : Fold(base, <<>>) = base
<1>1. <<>> \in Seq({}) /\ DOMAIN <<>> = {}
  OBVIOUS
<1> QED BY <1>1, FoldIter, IterStep

\* The fold of a sequence with one element more.
LEMMA FoldAppend ==
    ASSUME NEW base, NEW S, NEW s \in Seq(S), NEW x
    PROVE  Fold(base, Append(s, x)) = op(Fold(base, s), x)
<1> DEFINE r == Append(s, x)
           T == {k \in 0..Len(s) : Iter(base, r)[1..k] # Iter(base, s)[1..k]}
<1>1. /\ r \in Seq(S \cup {x}) /\ Len(r) = Len(s) + 1 /\ Len(s) \in Nat
      /\ \A i \in 1..Len(s) : r[i] = s[i]
      /\ r[Len(s) + 1] = x
      /\ DOMAIN r = 1..(Len(s) + 1) /\ DOMAIN s = 1..Len(s)
  OBVIOUS
<1> HIDE DEF r
<1>2. Iter(base, r)[1..Len(s)] = Iter(base, s)[1..Len(s)]
  <2> SUFFICES ASSUME Iter(base, r)[1..Len(s)] # Iter(base, s)[1..Len(s)]
               PROVE  FALSE
    OBVIOUS
  <2>1. Len(s) \in T /\ T \in SUBSET Nat
    BY <1>1
  <2>2. PICK k \in T : \A m \in T : k <= m
    BY <2>1, LeastNatural
  <2>3. CASE k = 0
    <3>1. 1..0 = {}
      OBVIOUS
    <3>2. Iter(base, r)[{}] = base /\ Iter(base, s)[{}] = base
      BY <1>1, IterStep
    <3> QED BY <2>2, <2>3, <3>1, <3>2
  <2>4. CASE k # 0
    <3>1. k \in 1..Len(s) /\ k \in 1..Len(r) /\ k - 1 \in 0..Len(s) /\ ~(k <= k - 1)
      BY <1>1, <2>2, <2>4
    <3>2. Iter(base, r)[1..(k - 1)] = Iter(base, s)[1..(k - 1)]
      BY <2>2, <3>1
    <3>3. Iter(base, r)[1..k] = op(Iter(base, r)[1..(k - 1)], r[k])
      BY <1>1, <3>1, IterStep
    <3>4. Iter(base, s)[1..k] = op(Iter(base, s)[1..(k - 1)], s[k])
      BY <1>1, <3>1, IterStep
    <3> QED BY <1>1, <2>2, <3>1, <3>2, <3>3, <3>4
  <2> QED BY <2>3, <2>4
<1>3. Iter(base, r)[1..(Len(s) + 1)] = op(Iter(base, r)[1..Len(s)], x)
  <2>1. Len(s) + 1 \in 1..Len(r) /\ (Len(s) + 1) - 1 = Len(s)
    BY <1>1
  <2> QED BY <1>1, <2>1, IterStep
<1> QED BY <1>1, <1>2, <1>3, FoldIter DEF r

\* What holds of the base and is kept by every round of the loop holds of the
\* result: T is the set of the values it holds of.
THEOREM FoldKeeps ==
    ASSUME NEW base, NEW S, NEW s \in Seq(S), NEW T, base \in T,
           \A t \in T, x \in S : op(t, x) \in T
    PROVE  Fold(base, s) \in T
<1> DEFINE U == {k \in 0..Len(s) : Iter(base, s)[1..k] \notin T}
<1> SUFFICES ASSUME Fold(base, s) \notin T
             PROVE  FALSE
  OBVIOUS
<1>1. Len(s) \in Nat /\ DOMAIN s = 1..Len(s)
  OBVIOUS
<1>2. Len(s) \in U /\ U \in SUBSET Nat
  BY <1>1, FoldIter
<1>3. PICK k \in U : \A m \in U : k <= m
  BY <1>2, LeastNatural
<1>4. CASE k = 0
  <2>1. 1..0 = {}
    OBVIOUS
  <2> QED
    BY <1>3, <1>4, <2>1, IterStep
<1>5. CASE k # 0
  <2>1. k \in 1..Len(s) /\ k - 1 \in 0..Len(s) /\ ~(k <= k - 1) /\ s[k] \in S
    BY <1>1, <1>3, <1>5
  <2>2. Iter(base, s)[1..(k - 1)] \in T
    BY <1>3, <2>1
  <2>3. Iter(base, s)[1..k] = op(Iter(base, s)[1..(k - 1)], s[k])
    BY <2>1, IterStep
  <2> QED
    BY <1>3, <2>1, <2>2, <2>3
<1> QED
  BY <1>4, <1>5

\* Induction over sequences: a set that has the empty sequence and, with a
\* sequence, those of one element more has every sequence.
LEMMA SequenceInduction ==
    ASSUME NEW S, NEW Q, <<>> \in Q,
           \A t \in Seq(S), x \in S : t \in Q => Append(t, x) \in Q
    PROVE  Seq(S) \subseteq Q
<1> SUFFICES ASSUME NEW s \in Seq(S), s \notin Q
             PROVE  FALSE
  OBVIOUS
<1>1. PICK U : U = {k \in 0..Len(s) : SubSeq(s, 1, k) \notin Q}
  OBVIOUS
<1>2. Len(s) \in Nat /\ SubSeq(s, 1, Len(s)) = s /\ SubSeq(s, 1, 0) = <<>>
  OBVIOUS
<1>3. Len(s) \in U /\ U \in SUBSET Nat
  <2>1. Len(s) \in 0..Len(s) /\ 0..Len(s) \subseteq Nat
    BY <1>2
  <2> QED
    BY <1>1, <1>2, <2>1
<1>4. PICK k \in U : \A m \in U : k <= m
  BY <1>3, LeastNatural
<1>5. k \in 1..Len(s) /\ SubSeq(s, 1, k) \notin Q
  <2>1. k \in 0..Len(s) /\ SubSeq(s, 1, k) \notin Q
    BY <1>1
  <2>2. k # 0
    BY <1>2, <2>1
  <2> QED
    BY <1>2, <2>1, <2>2
<1>6. SubSeq(s, 1, k - 1) \in Q
  BY <1>1, <1>4, <1>5
<1>7. SubSeq(s, 1, k) = Append(SubSeq(s, 1, k - 1), s[k])
  BY <1>5
<1>8. SubSeq(s, 1, k - 1) \in Seq(S) /\ s[k] \in S
  BY <1>5
<1> QED
  BY <1>5, <1>6, <1>7, <1>8

\* f goes from a up to n, by H from the index and the value before.
Recurses(f, a, n, H) == f[0] = a /\ \A k \in 1..n : f[k] = H[<<k, f[k - 1]>>]

\* There is such a function, whatever it is to go by.
LEMMA RecursionSolves ==
    ASSUME NEW S, NEW a \in S, NEW n \in Nat, NEW H \in [(1..n) \X S -> S]
    PROVE  \E f \in [0..n -> S] : Recurses(f, a, n, H)
<1> DEFINE P(m) == \E f \in [0..m -> S] : f[0] = a /\ \A k \in 1..m : f[k] = H[<<k, f[k - 1]>>]
           U == {m \in 0..n : ~P(m)}
<1>1. P(0)
  <2> DEFINE f == [k \in 0..0 |-> a]
  <2>1. f \in [0..0 -> S] /\ f[0] = a /\ 1..0 = {}
    OBVIOUS
  <2> HIDE DEF f
  <2> QED BY <2>1
<1>2. ASSUME NEW m \in 0..(n - 1), P(m) PROVE P(m + 1)
  <2>1. PICK f \in [0..m -> S] : f[0] = a /\ \A k \in 1..m : f[k] = H[<<k, f[k - 1]>>]
    BY <1>2
  <2> DEFINE g == [k \in 0..(m + 1) |-> IF k = m + 1 THEN H[<<m + 1, f[m]>>] ELSE f[k]]
  <2>2. H[<<m + 1, f[m]>>] \in S
    BY m + 1 \in 1..n, f[m] \in S
  <2>3. g \in [0..(m + 1) -> S]
    BY <2>2
  <2>4. g[0] = a
    BY <2>1
  <2>5. ASSUME NEW k \in 1..(m + 1) PROVE g[k] = H[<<k, g[k - 1]>>]
    <3>1. k - 1 \in 0..m /\ g[k - 1] = f[k - 1]
      OBVIOUS
    <3>2. CASE k = m + 1
      <4>1. g[k] = H[<<m + 1, f[m]>>] /\ k - 1 = m
        BY <3>2
      <4> QED BY <3>1, <3>2, <4>1
    <3>3. CASE k # m + 1
      BY <2>1, <3>1, <3>3, k \in 1..m
    <3> QED BY <3>2, <3>3
  <2> HIDE DEF g
  <2> QED BY <2>3, <2>4, <2>5
<1> HIDE DEF P
<1>3. SUFFICES ASSUME ~P(n) PROVE FALSE
  BY DEF P, Recurses
<1>4. PICK m \in U : \A k \in U : m <= k
  <2>1. n \in U /\ U \in SUBSET Nat
    BY <1>3
  <2> QED BY <2>1, LeastNatural
<1>5. m # 0 /\ m - 1 \in 0..(n - 1) /\ P(m - 1)
  BY <1>1, <1>4
<1> QED BY <1>2, <1>4, <1>5
-----------------------------------------------------------------------------
(***************************************************************************)
(* Sums over a finite set, which SumFunctionOnSet takes in an order of its *)
(* own choosing: the order does not matter.                                *)
(***************************************************************************)
Sum(f, S) == SumFunctionOnSet(f, S)

Pick(t) == CHOOSE x \in t : TRUE

SumValue(f, g, t) == IF t = {} THEN 0 ELSE f[Pick(t)] + g[t \ {Pick(t)}]

SumSolves(f, g, S) == g = [t \in SUBSET S |-> SumValue(f, g, t)]

SumIter(f, S) == CHOOSE g : g = [t \in SUBSET S |-> SumValue(f, g, t)]

LEMMA SumIs == ASSUME NEW f, NEW S PROVE Sum(f, S) = SumIter(f, S)[S]
  BY DEF Sum, SumFunctionOnSet, FoldFunctionOnSet, MapThenFoldSet, SumIter, SumValue, Pick

\* Among the subsets of a finite set that have a property some are minimal.
LEMMA MinimalSet ==
    ASSUME NEW S, IsFiniteSet(S), NEW B \in SUBSET SUBSET S, B # {}
    PROVE  \E t \in B : IsFiniteSet(t) /\ \A u \in SUBSET t : u # t => u \notin B
<1> DEFINE T == {n \in Nat : \E t \in B : Cardinality(t) = n}
<1>1. \A t \in B : IsFiniteSet(t) /\ Cardinality(t) \in T
  BY FS_Subset, FS_CardinalityType
<1>2. PICK n \in T : \A m \in T : n <= m
  <2>1. T \in SUBSET Nat /\ T # {}
    BY <1>1
  <2> QED
    BY <2>1, LeastNatural
<1>3. PICK t \in B : Cardinality(t) = n
  BY <1>1, <1>2
<1>4. ASSUME NEW u \in SUBSET t, u # t PROVE u \notin B
  <2>1. Cardinality(u) < n \/ Cardinality(u) \notin Nat
    BY <1>1, <1>3, <1>4, FS_Subset, FS_CardinalityType
  <2> QED
    BY <1>1, <1>2, <2>1
<1> QED
  BY <1>1, <1>3, <1>4

\* Two solutions agree wherever both are defined.
LEMMA SumsAgree ==
    ASSUME NEW f, NEW S, NEW R, IsFiniteSet(S), S \subseteq R,
           NEW g, NEW h, SumSolves(f, g, S), SumSolves(f, h, R)
    PROVE  g[S] = h[S]
<1> SUFFICES ASSUME g[S] # h[S] PROVE FALSE
  OBVIOUS
<1>1. PICK B : B = {t \in SUBSET S : g[t] # h[t]}
  OBVIOUS
<1>2. PICK t \in B : IsFiniteSet(t) /\ \A u \in SUBSET t : u # t => u \notin B
  <2>1. B \in SUBSET SUBSET S /\ B # {}
    BY <1>1
  <2> QED
    BY <2>1, MinimalSet
<1>3. \A u \in SUBSET S : g[u] = SumValue(f, g, u)
  BY DEF SumSolves
<1>4. \A u \in SUBSET R : h[u] = SumValue(f, h, u)
  BY DEF SumSolves
<1>5. g[t] = SumValue(f, g, t) /\ h[t] = SumValue(f, h, t)
  BY <1>1, <1>2, <1>3, <1>4
<1>6. t # {}
  BY <1>1, <1>2, <1>5 DEF SumValue
<1>7. Pick(t) \in t
  BY <1>6 DEF Pick
<1>8. g[t \ {Pick(t)}] = h[t \ {Pick(t)}]
  BY <1>1, <1>2, <1>7
<1> QED
  BY <1>1, <1>2, <1>5, <1>6, <1>8 DEF SumValue

LEMMA SumExists ==
    ASSUME NEW f, NEW S, IsFiniteSet(S)
    PROVE  \E g : SumSolves(f, g, S)
<1> DEFINE P(t) == \E g : SumSolves(f, g, t)
           G(t) == CHOOSE g : SumSolves(f, g, t)
<1> SUFFICES ASSUME ~P(S) PROVE FALSE
  OBVIOUS
<1>1. PICK B : B = {t \in SUBSET S : ~P(t)}
  OBVIOUS
<1>2. PICK t \in B : IsFiniteSet(t) /\ \A u \in SUBSET t : u # t => u \notin B
  <2>1. B \in SUBSET SUBSET S /\ B # {}
    BY <1>1
  <2> QED
    BY <2>1, MinimalSet
<1>3. \A u \in SUBSET t : u # t => SumSolves(f, G(u), u) /\ IsFiniteSet(u)
  BY <1>1, <1>2, FS_Subset
<1> DEFINE h == [u \in SUBSET t |->
                   IF u # t THEN G(u)[u]
                   ELSE IF u = {} THEN 0 ELSE f[Pick(u)] + G(u \ {Pick(u)})[u \ {Pick(u)}]]
<1>4. ASSUME NEW u \in SUBSET t PROVE h[u] = SumValue(f, h, u)
  <2>1. CASE u = {}
    <3>1. CASE u # t
      <4>1. PICK g : g = G(u) /\ SumSolves(f, g, u)
        BY <1>3, <3>1
      <4>2. g[u] = SumValue(f, g, u)
        BY <4>1 DEF SumSolves
      <4> QED
        BY <2>1, <3>1, <4>1, <4>2 DEF SumValue
    <3> QED
      BY <2>1, <3>1 DEF SumValue
  <2>2. CASE u # {}
    <3>1. PICK x : x = Pick(u) /\ x \in u
      BY <2>2 DEF Pick
    <3>2. PICK v : v = u \ {x}
      OBVIOUS
    <3>3. v \in SUBSET t /\ v # t /\ v \subseteq u /\ v # u
      BY <3>1, <3>2
    <3>4. h[v] = G(v)[v]
      BY <3>3
    <3>5. h[u] = f[x] + G(v)[v]
      <4>1. CASE u # t
        <5>1. PICK g : g = G(u) /\ SumSolves(f, g, u)
          BY <1>3, <4>1
        <5>2. g[u] = SumValue(f, g, u)
          BY <5>1 DEF SumSolves
        <5>3. g[u] = f[x] + g[v]
          BY <2>2, <3>1, <3>2, <5>2 DEF SumValue
        <5>4. IsFiniteSet(v) /\ \E k : k = G(v) /\ SumSolves(f, k, v)
          BY <1>3, <3>3
        <5>5. PICK k : k = G(v) /\ SumSolves(f, k, v)
          BY <5>4
        <5>6. k[v] = g[v]
          BY <3>3, <5>1, <5>4, <5>5, SumsAgree
        <5> QED
          BY <4>1, <5>1, <5>3, <5>6, <5>5
      <4> QED
        BY <2>2, <3>1, <3>2, <4>1
    <3> QED
      BY <2>2, <3>1, <3>2, <3>4, <3>5 DEF SumValue
  <2> QED
    BY <2>1, <2>2
<1>5. h = [u \in SUBSET t |-> SumValue(f, h, u)]
  BY <1>4
<1> HIDE DEF h
<1> QED
  BY <1>1, <1>2, <1>5 DEF SumSolves

\* The equations of a sum.
LEMMA SumRounds ==
    ASSUME NEW f, NEW S, IsFiniteSet(S)
    PROVE  /\ Sum(f, {}) = 0
           /\ \A t \in SUBSET S : t # {} => Sum(f, t) = f[Pick(t)] + Sum(f, t \ {Pick(t)})
<1>1. ASSUME NEW t, IsFiniteSet(t) PROVE SumSolves(f, SumIter(f, t), t)
  BY <1>1, SumExists DEF SumSolves, SumIter
<1>2. ASSUME NEW t, NEW u, IsFiniteSet(t), u \subseteq t
      PROVE  Sum(f, u) = SumIter(f, t)[u]
  <2>1. IsFiniteSet(u)
    BY <1>1, <1>2, FS_Subset
  <2> QED
    BY <1>1, <1>2, <2>1, SumIs, SumsAgree
<1>3. ASSUME NEW t, IsFiniteSet(t) PROVE SumIter(f, t)[t] = SumValue(f, SumIter(f, t), t)
  <2>1. PICK g : g = SumIter(f, t)
    OBVIOUS
  <2>2. g = [u \in SUBSET t |-> SumValue(f, g, u)]
    BY <1>1, <1>3, <2>1 DEF SumSolves
  <2> QED
    BY <2>1, <2>2
<1>4. Sum(f, {}) = 0
  BY <1>3, SumIs, FS_EmptySet DEF SumValue
<1>5. ASSUME NEW t \in SUBSET S, t # {}
      PROVE  Sum(f, t) = f[Pick(t)] + Sum(f, t \ {Pick(t)})
  <2>1. IsFiniteSet(t)
    BY FS_Subset
  <2>2. Sum(f, t \ {Pick(t)}) = SumIter(f, t)[t \ {Pick(t)}]
    BY <1>1, <1>2, <2>1
  <2> QED
    BY <1>3, <1>5, <2>1, <2>2, SumIs DEF SumValue
<1> QED
  BY <1>4, <1>5

\* The sum of integers is one, and any element may be taken first.
LEMMA SumAny ==
    ASSUME NEW S, IsFiniteSet(S), NEW f, \A x \in S : f[x] \in Int
    PROVE  /\ Sum(f, S) \in Int
           /\ \A x \in S : Sum(f, S) = f[x] + Sum(f, S \ {x})
<1> DEFINE Good(t) == Sum(f, t) \in Int /\ \A x \in t : Sum(f, t) = f[x] + Sum(f, t \ {x})
<1> SUFFICES ASSUME ~Good(S) PROVE FALSE
  OBVIOUS
<1>1. PICK B : B = {t \in SUBSET S : ~Good(t)}
  OBVIOUS
<1>2. PICK t \in B : IsFiniteSet(t) /\ \A u \in SUBSET t : u # t => u \notin B
  <2>1. B \in SUBSET SUBSET S /\ B # {}
    BY <1>1
  <2> QED
    BY <2>1, MinimalSet
<1>3. \A u \in SUBSET t : u # t => Good(u)
  BY <1>1, <1>2
<1>4. t # {}
  <2>1. Sum(f, {}) = 0
    BY SumRounds
  <2>2. Good({})
    BY <2>1
  <2> QED
    BY <1>1, <1>2, <2>2
<1>5. PICK y \in t : y = Pick(t)
  BY <1>4 DEF Pick
<1>6. Sum(f, t) = f[y] + Sum(f, t \ {y}) /\ Sum(f, t \ {y}) \in Int /\ f[y] \in Int
  BY <1>1, <1>2, <1>3, <1>4, <1>5, SumRounds
<1>7. ASSUME NEW x \in t, x # y PROVE Sum(f, t) = f[x] + Sum(f, t \ {x})
  <2>1. PICK u : u = (t \ {x}) \ {y}
    OBVIOUS
  <2>2. u = (t \ {y}) \ {x} /\ u # t /\ u \in SUBSET t /\ x \in t \ {y} /\ y \in t \ {x}
    BY <1>7, <2>1
  <2>3. Sum(f, t \ {y}) = f[x] + Sum(f, u)
    BY <1>3, <2>2
  <2>4. Sum(f, t \ {x}) = f[y] + Sum(f, u)
    BY <1>3, <2>1, <2>2
  <2>5. Sum(f, u) \in Int /\ f[x] \in Int
    BY <1>1, <1>2, <1>3, <2>2
  <2> QED
    BY <1>6, <2>3, <2>4, <2>5
<1>8. Sum(f, t) \in Int
  BY <1>6
<1>9. Good(t)
  BY <1>5, <1>6, <1>7, <1>8
<1> QED
  BY <1>1, <1>2, <1>9

\* A sum over the same elements.
LEMMA SumSame ==
    ASSUME NEW S, IsFiniteSet(S), NEW f, NEW g, \A x \in S : f[x] = g[x]
    PROVE  Sum(f, S) = Sum(g, S)
<1> SUFFICES ASSUME Sum(f, S) # Sum(g, S) PROVE FALSE
  OBVIOUS
<1>1. PICK B : B = {t \in SUBSET S : Sum(f, t) # Sum(g, t)}
  OBVIOUS
<1>2. PICK t \in B : IsFiniteSet(t) /\ \A u \in SUBSET t : u # t => u \notin B
  <2>1. B \in SUBSET SUBSET S /\ B # {}
    BY <1>1
  <2> QED
    BY <2>1, MinimalSet
<1>3. t # {}
  BY <1>1, <1>2, SumRounds, FS_EmptySet
<1>4. PICK y \in t : y = Pick(t)
  BY <1>3 DEF Pick
<1>5. Sum(f, t) = f[y] + Sum(f, t \ {y}) /\ Sum(g, t) = g[y] + Sum(g, t \ {y})
  BY <1>1, <1>2, <1>3, <1>4, SumRounds
<1>6. Sum(f, t \ {y}) = Sum(g, t \ {y}) /\ f[y] = g[y]
  BY <1>1, <1>2, <1>4
<1> QED
  BY <1>1, <1>2, <1>5, <1>6

\* What one element more, or another value of one element, does to a sum.
LEMMA SumChange ==
    ASSUME NEW S, IsFiniteSet(S), NEW x \in S, NEW f, NEW g,
           \A y \in S : f[y] \in Int /\ g[y] \in Int,
           \A y \in S \ {x} : f[y] = g[y]
    PROVE  Sum(g, S) = Sum(f, S) + (g[x] - f[x])
<1>1. IsFiniteSet(S \ {x})
  BY FS_Subset
<1>2. Sum(f, S \ {x}) = Sum(g, S \ {x})
  BY <1>1, SumSame
<1>3. Sum(f, S) = f[x] + Sum(f, S \ {x}) /\ Sum(g, S) = g[x] + Sum(g, S \ {x})
  BY SumAny
<1>4. Sum(f, S \ {x}) \in Int
  BY <1>1, SumAny
<1> QED
  BY <1>1, <1>2, <1>3, <1>4

\* The sum of natural numbers is one, and zero only if all are.
LEMMA SumOfNaturals ==
    ASSUME NEW S, IsFiniteSet(S), NEW f, \A x \in S : f[x] \in Nat
    PROVE  Sum(f, S) \in Nat /\ ((\A x \in S : f[x] = 0) => Sum(f, S) = 0)
<1> DEFINE Good(t) == Sum(f, t) \in Nat /\ ((\A x \in t : f[x] = 0) => Sum(f, t) = 0)
<1> SUFFICES ASSUME ~Good(S) PROVE FALSE
  OBVIOUS
<1>1. PICK B : B = {t \in SUBSET S : ~Good(t)}
  OBVIOUS
<1>2. PICK t \in B : IsFiniteSet(t) /\ \A u \in SUBSET t : u # t => u \notin B
  <2>1. B \in SUBSET SUBSET S /\ B # {}
    BY <1>1
  <2> QED
    BY <2>1, MinimalSet
<1>3. \A u \in SUBSET t : u # t => Good(u)
  BY <1>1, <1>2
<1>4. t # {}
  <2>1. Sum(f, {}) = 0
    BY SumRounds
  <2>2. Good({})
    BY <2>1
  <2> QED
    BY <1>1, <1>2, <2>2
<1>5. PICK y \in t : y = Pick(t)
  BY <1>4 DEF Pick
<1>6. Sum(f, t) = f[y] + Sum(f, t \ {y}) /\ f[y] \in Nat
  BY <1>1, <1>2, <1>4, <1>5, SumRounds
<1>7. Good(t \ {y})
  BY <1>3, <1>5
<1>8. Sum(f, t) \in Nat
  BY <1>6, <1>7
<1>9. (\A x \in t : f[x] = 0) => Sum(f, t) = 0
  BY <1>5, <1>6, <1>7
<1> QED
  BY <1>1, <1>2, <1>8, <1>9

LEMMA SumBounds ==
    ASSUME NEW S, IsFiniteSet(S), NEW f, \A x \in S : f[x] \in Nat
    PROVE  \A x \in S : f[x] <= Sum(f, S)
<1> SUFFICES ASSUME NEW x \in S PROVE f[x] <= Sum(f, S)
  OBVIOUS
<1>1. Sum(f, S) = f[x] + Sum(f, S \ {x}) /\ f[x] \in Nat
  <2>1. \A y \in S : f[y] \in Int
    OBVIOUS
  <2> QED
    BY <2>1, SumAny
<1>2. IsFiniteSet(S \ {x}) /\ \A y \in S \ {x} : f[y] \in Nat
  BY FS_Subset
<1>3. Sum(f, S \ {x}) \in Nat
  BY <1>1, <1>2, SumOfNaturals
<1> QED
  BY <1>1, <1>3
=============================================================================
