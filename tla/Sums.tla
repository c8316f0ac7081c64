-------------------------------- MODULE Sums --------------------------------
(***************************************************************************)
(* What the sum over a function is, for every finite domain: the lemmas on *)
(* SumFunction (module Functions) that the proofs about numbers kept per   *)
(* connection need.                                                        *)
(*                                                                         *)
(* SumFunction takes the elements of its domain in an order that CHOOSE    *)
(* fixes.  The lemmas are proved by induction along that order, in the     *)
(* form that needs no operator as a parameter: the set of the subsets for  *)
(* which a claim is false has no smallest member.                          *)
(***************************************************************************)
EXTENDS Integers, FiniteSets, Functions, FiniteSetTheorems,
        WellFoundedInduction, TLAPS

\* The element that the sum takes first, and the function that SumFunction
\* builds on the subsets of the domain of f.
First(t) == CHOOSE x \in t : TRUE
Solves(g, f, T) ==
    g = [t \in T |-> IF t = {} THEN 0 ELSE f[First(t)] + g[t \ {First(t)}]]
PartialSums(f) == CHOOSE g : Solves(g, f, SUBSET DOMAIN f)

LEMMA SumUnfolded == \A f : SumFunction(f) = PartialSums(f)[DOMAIN f]
BY DEF SumFunction, SumFunctionOnSet, FoldFunctionOnSet, MapThenFoldSet,
       PartialSums, Solves, First

\* A set of numbers has a smallest member.
LEMMA Smallest ==
    ASSUME NEW T \in SUBSET Nat, T # {}
    PROVE  \E m \in T : \A n \in T : m <= n
<1> DEFINE R == OpToRel(<, Nat)
<1>1. IsWellFoundedOn(R, Nat)
  BY NatLessThanWellFounded, Zenon
<1>2. \A x, y \in Nat : <<x, y>> \in R <=> x < y
  BY DEF OpToRel
<1> HIDE DEF R
<1>3. PICK m \in T : \A n \in T : ~ (<<n, m>> \in R)
  BY <1>1, WFMin
<1>4. ASSUME NEW n \in T PROVE m <= n
  <2>1. m \in Nat /\ n \in Nat
    OBVIOUS
  <2>2. ~ (n < m)
    BY <1>2, <1>3, <2>1
  <2> QED
    BY <2>1, <2>2
<1> QED
  BY <1>4

\* Induction on the subsets of a finite set, along the order of the sum.
LEMMA SubsetInduction ==
    ASSUME NEW S, IsFiniteSet(S), NEW B, {} \in B,
           \A t \in SUBSET S : t # {} /\ t \ {First(t)} \in B => t \in B
    PROVE  \A t \in SUBSET S : t \in B
<1> DEFINE Bad == {n \in Nat : \E t \in SUBSET S : t \notin B /\ Cardinality(t) = n}
<1>1. ASSUME Bad # {} PROVE FALSE
  <2>1. PICK n \in Bad : \A k \in Bad : n <= k
    <3>1. Bad \in SUBSET Nat
      OBVIOUS
    <3> HIDE DEF Bad
    <3> QED
      BY <1>1, <3>1, Smallest
  <2>2. PICK t \in SUBSET S : t \notin B /\ Cardinality(t) = n
    BY <2>1
  <2>3. t # {}
    BY <2>2
  <2>4. First(t) \in t
    BY <2>3 DEF First
  <2> DEFINE u == t \ {First(t)}
  <2>5. u \in SUBSET S /\ u \notin B
    BY <2>2, <2>3
  <2>6. IsFiniteSet(t) /\ Cardinality(u) = Cardinality(t) - 1
    BY <2>4, FS_Subset, FS_RemoveElement
  <2>7. IsFiniteSet(u) /\ Cardinality(u) \in Nat
    BY <2>5, FS_Subset, FS_CardinalityType
  <2>8. Cardinality(u) \in Bad
    BY <2>5, <2>7
  <2>9. n \in Nat /\ n <= Cardinality(u)
    BY <2>1, <2>8
  <2> HIDE DEF u
  <2> QED
    BY <2>2, <2>6, <2>7, <2>9
<1>2. ASSUME NEW t \in SUBSET S, t \notin B PROVE FALSE
  <2>1. Cardinality(t) \in Nat
    BY FS_Subset, FS_CardinalityType
  <2>2. Cardinality(t) \in Bad
    BY <1>2, <2>1
  <2> HIDE DEF Bad
  <2> QED
    BY <1>1, <2>2
<1> QED
  BY <1>2

\* The equation of the sum has a solution on the subsets of any size.
LEMMA SumsExist ==
    ASSUME NEW S, IsFiniteSet(S), NEW f
    PROVE  \E g : Solves(g, f, SUBSET S)
<1> DEFINE Below(n) == {t \in SUBSET S : Cardinality(t) <= n}
           Unsolved == {n \in Nat : ~ \E g : Solves(g, f, Below(n))}
<1>0. ASSUME NEW t \in SUBSET S
      PROVE  /\ IsFiniteSet(t) /\ Cardinality(t) \in Nat
             /\ Cardinality(t) <= 0 => t = {}
             /\ t # {} => /\ t \ {First(t)} \in SUBSET S
                          /\ Cardinality(t \ {First(t)}) = Cardinality(t) - 1
  <2>1. IsFiniteSet(t) /\ Cardinality(t) \in Nat
    BY FS_Subset, FS_CardinalityType
  <2>2. Cardinality(t) <= 0 => t = {}
    BY <2>1, FS_EmptySet
  <2>3. ASSUME t # {}
        PROVE  Cardinality(t \ {First(t)}) = Cardinality(t) - 1
    <3>1. First(t) \in t
      BY <2>3 DEF First
    <3> QED
      BY <2>1, <3>1, FS_RemoveElement
  <2> QED
    BY <2>1, <2>2, <2>3
<1>1. \E g : Solves(g, f, Below(0))
  <2> DEFINE g == [t \in Below(0) |-> 0]
  <2>1. \A t \in Below(0) : t = {}
    BY <1>0
  <2>2. Solves(g, f, Below(0))
    BY <2>1 DEF Solves
  <2> QED
    BY <2>2
<1>2. ASSUME NEW n \in Nat, NEW g, Solves(g, f, Below(n))
      PROVE  \E h : Solves(h, f, Below(n + 1))
  <2> DEFINE h == [t \in Below(n + 1) |-> IF t = {} THEN 0
                                          ELSE f[First(t)] + g[t \ {First(t)}]]
  <2>1. ASSUME NEW t \in Below(n) PROVE g[t] = h[t]
    <3>1. t \in SUBSET S /\ Cardinality(t) <= n
      OBVIOUS
    <3>2. Cardinality(t) <= n + 1
      <4> DEFINE k == Cardinality(t)
      <4>1. k \in Nat /\ k <= n
        BY <1>0, <3>1
      <4> HIDE DEF k
      <4>2. k <= n + 1
        BY <4>1
      <4> QED
        BY <4>2 DEF k
    <3> QED
      BY <1>2, <3>1, <3>2 DEF Solves
  <2>2. ASSUME NEW t \in Below(n + 1), t # {}
        PROVE  t \ {First(t)} \in Below(n)
    BY <1>0, <2>2
  <2>3. \A t \in Below(n + 1) : t # {} => g[t \ {First(t)}] = h[t \ {First(t)}]
    BY <2>1, <2>2
  <2>4. h = [t \in Below(n + 1) |-> IF t = {} THEN 0
                                    ELSE f[First(t)] + h[t \ {First(t)}]]
    BY <2>3
  <2>5. Solves(h, f, Below(n + 1))
    BY <2>4 DEF Solves
  <2> QED
    BY <2>5
<1>3. Unsolved = {}
  <2>1. ASSUME Unsolved # {} PROVE FALSE
    <3>1. PICK n \in Unsolved : \A k \in Unsolved : n <= k
      <4>1. Unsolved \in SUBSET Nat
        OBVIOUS
      <4> HIDE DEF Unsolved
      <4> QED
        BY <2>1, <4>1, Smallest
    <3>2. n \in Nat /\ ~ \E g : Solves(g, f, Below(n))
      BY <3>1
    <3>3. n # 0
      BY <1>1, <3>2
    <3>4. n - 1 \in Nat /\ n - 1 \notin Unsolved /\ n = n - 1 + 1
      <4>1. n - 1 \in Nat /\ n = n - 1 + 1 /\ ~(n <= n - 1)
        BY <3>2, <3>3
      <4> HIDE DEF Unsolved
      <4> QED
        BY <3>1, <4>1
    <3>5. \E g : Solves(g, f, Below(n - 1))
      BY <3>4
    <3> HIDE DEF Below
    <3> DEFINE k == n - 1
    <3>6. k \in Nat /\ n = k + 1 /\ \E g : Solves(g, f, Below(k))
      BY <3>4, <3>5
    <3> HIDE DEF k
    <3> QED
      BY <1>2, <3>2, <3>6
  <2> QED
    BY <2>1
<1>4. Cardinality(S) \in Nat /\ Below(Cardinality(S)) = SUBSET S
  <2>1. Cardinality(S) \in Nat
    BY FS_CardinalityType
  <2>2. \A t \in SUBSET S : Cardinality(t) <= Cardinality(S)
    BY FS_Subset
  <2> QED
    BY <2>1, <2>2
<1>5. \E g : Solves(g, f, Below(Cardinality(S)))
  <2> HIDE DEF Below
  <2> QED
    BY <1>3, <1>4
<1> HIDE DEF Below
<1> QED
  BY <1>4, <1>5

\* The partial sums of a function with a finite domain add up its values.
LEMMA PartialSum ==
    ASSUME NEW S, IsFiniteSet(S), NEW f, DOMAIN f = S
    PROVE  /\ PartialSums(f)[{}] = 0
           /\ \A t \in SUBSET S : t # {} =>
                 PartialSums(f)[t] = f[First(t)] + PartialSums(f)[t \ {First(t)}]
<1> DEFINE g == PartialSums(f)
<1>1. Solves(g, f, SUBSET S)
  BY SumsExist, Zenon DEF PartialSums
<1> HIDE DEF g
<1>2. g[{}] = 0
  BY <1>1 DEF Solves
<1>3. ASSUME NEW t \in SUBSET S, t # {}
      PROVE  g[t] = f[First(t)] + g[t \ {First(t)}]
  BY <1>1, <1>3 DEF Solves
<1> QED
  BY <1>2, <1>3 DEF g

\* The sum of numbers is a number.
LEMMA SumIsInt ==
    ASSUME NEW S, IsFiniteSet(S), NEW f \in [S -> Int]
    PROVE  SumFunction(f) \in Int
<1> DEFINE g == PartialSums(f)
           B == {t \in SUBSET S : g[t] \in Int}
<1>1. DOMAIN f = S
  OBVIOUS
<1>2. /\ g[{}] = 0
      /\ \A t \in SUBSET S : t # {} => g[t] = f[First(t)] + g[t \ {First(t)}]
  BY <1>1, PartialSum
<1> HIDE DEF g
<1>3. ASSUME NEW t \in SUBSET S, t # {}, t \ {First(t)} \in B
      PROVE  t \in B
  <2>1. First(t) \in S
    BY <1>3 DEF First
  <2> DEFINE p == f[First(t)]
             q == g[t \ {First(t)}]
  <2>2. p \in Int /\ q \in Int
    BY <1>3, <2>1
  <2>3. g[t] = p + q
    BY <1>2, <1>3
  <2> HIDE DEF p, q
  <2>4. g[t] \in Int
    BY <2>2, <2>3
  <2> QED
    BY <2>4
<1>4. {} \in B
  BY <1>2
<1>5. S \in B
  <2> HIDE DEF B
  <2> QED
    BY <1>3, <1>4, SubsetInduction
<1> QED
  BY <1>1, <1>5, SumUnfolded DEF g

\* The sum of natural numbers is one.
LEMMA SumIsNat ==
    ASSUME NEW S, IsFiniteSet(S), NEW f \in [S -> Nat]
    PROVE  SumFunction(f) \in Nat
<1> DEFINE g == PartialSums(f)
           B == {t \in SUBSET S : g[t] \in Nat}
<1>1. DOMAIN f = S
  OBVIOUS
<1>2. /\ g[{}] = 0
      /\ \A t \in SUBSET S : t # {} => g[t] = f[First(t)] + g[t \ {First(t)}]
  BY <1>1, PartialSum
<1> HIDE DEF g
<1>3. ASSUME NEW t \in SUBSET S, t # {}, t \ {First(t)} \in B
      PROVE  t \in B
  <2>1. First(t) \in S
    BY <1>3 DEF First
  <2> DEFINE p == f[First(t)]
             q == g[t \ {First(t)}]
  <2>2. p \in Nat /\ q \in Nat
    BY <1>3, <2>1
  <2>3. g[t] = p + q
    BY <1>2, <1>3
  <2> HIDE DEF p, q
  <2>4. g[t] \in Nat
    BY <2>2, <2>3
  <2> QED
    BY <2>4
<1>4. {} \in B
  BY <1>2
<1>5. S \in B
  <2> HIDE DEF B
  <2> QED
    BY <1>3, <1>4, SubsetInduction
<1> QED
  BY <1>1, <1>5, SumUnfolded DEF g

\* The sum of zeros.
LEMMA SumOfZeros ==
    ASSUME NEW S, IsFiniteSet(S)
    PROVE  SumFunction([x \in S |-> 0]) = 0
<1> DEFINE f == [x \in S |-> 0]
           g == PartialSums(f)
           B == {t \in SUBSET S : g[t] = 0}
<1>1. DOMAIN f = S
  OBVIOUS
<1>2. /\ g[{}] = 0
      /\ \A t \in SUBSET S : t # {} => g[t] = f[First(t)] + g[t \ {First(t)}]
  <2> HIDE DEF f
  <2> QED
    BY <1>1, PartialSum
<1> HIDE DEF g
<1>3. ASSUME NEW t \in SUBSET S, t # {}, t \ {First(t)} \in B
      PROVE  t \in B
  <2>1. First(t) \in S
    BY <1>3 DEF First
  <2> QED
    BY <1>2, <1>3, <2>1
<1>4. {} \in B
  BY <1>2
<1>5. S \in B
  <2> HIDE DEF B, f
  <2> QED
    BY <1>3, <1>4, SubsetInduction
<1>6. SumFunction(f) = g[S]
  <2> HIDE DEF f
  <2> QED
    BY <1>1, SumUnfolded DEF g
<1> QED
  BY <1>5, <1>6

\* Functions that differ in one place have sums that differ by as much.
LEMMA SumChanges ==
    ASSUME NEW S, IsFiniteSet(S), NEW f \in [S -> Int], NEW h \in [S -> Int],
           NEW a \in S, \A x \in S \ {a} : h[x] = f[x]
    PROVE  SumFunction(h) = SumFunction(f) + (h[a] - f[a])
<1> DEFINE g == PartialSums(f)
           k == PartialSums(h)
           d == h[a] - f[a]
           B == {t \in SUBSET S : /\ g[t] \in Int
                                  /\ k[t] = g[t] + (IF a \in t THEN d ELSE 0)}
<1>0. ASSUME NEW e \in [S -> Int]
      PROVE  /\ PartialSums(e)[{}] = 0
             /\ \A t \in SUBSET S : t # {} =>
                   PartialSums(e)[t]
                      = e[First(t)] + PartialSums(e)[t \ {First(t)}]
  <2>1. DOMAIN e = S
    OBVIOUS
  <2>2. PartialSums(e)[{}] = 0
    BY <2>1, PartialSum
  <2>3. ASSUME NEW t \in SUBSET S, t # {}
        PROVE  PartialSums(e)[t]
                  = e[First(t)] + PartialSums(e)[t \ {First(t)}]
    BY <2>1, <2>3, PartialSum
  <2> QED
    BY <2>2, <2>3
<1>1. DOMAIN f = S /\ DOMAIN h = S
  OBVIOUS
<1>2. /\ g[{}] = 0
      /\ \A t \in SUBSET S : t # {} => g[t] = f[First(t)] + g[t \ {First(t)}]
  BY <1>0, <1>1
<1>3. /\ k[{}] = 0
      /\ \A t \in SUBSET S : t # {} => k[t] = h[First(t)] + k[t \ {First(t)}]
  BY <1>0, <1>1
<1> HIDE DEF g, k
<1>4. d \in Int
  OBVIOUS
<1>5. ASSUME NEW t \in SUBSET S, t # {}, t \ {First(t)} \in B
      PROVE  t \in B
  <2> DEFINE x == First(t)
             u == t \ {x}
  <2>1. x \in t /\ x \in S
    BY <1>5 DEF First
  <2>2. /\ g[u] \in Int /\ k[u] = g[u] + (IF a \in u THEN d ELSE 0)
        /\ g[t] = f[x] + g[u] /\ k[t] = h[x] + k[u]
    BY <1>2, <1>3, <1>5
  <2>3. f[x] \in Int /\ h[x] \in Int
    BY <2>1
  <2>4. CASE x = a
    <3>1. a \in t /\ a \notin u /\ h[x] = f[x] + d
      BY <2>1, <2>3, <2>4
    <3>2. k[u] = g[u]
      BY <2>2, <3>1
    <3> HIDE DEF x, u, d
    <3> QED
      BY <1>4, <2>2, <2>3, <3>1, <3>2
  <2>5. CASE x # a
    <3>1. (a \in t <=> a \in u) /\ h[x] = f[x]
      BY <2>1, <2>5
    <3> HIDE DEF x, u, d
    <3> QED
      BY <1>4, <2>2, <2>3, <3>1
  <2> QED
    BY <2>4, <2>5
<1>6. {} \in B
  BY <1>2, <1>3
<1>7. S \in B
  <2> HIDE DEF B, d
  <2> QED
    BY <1>5, <1>6, SubsetInduction
<1>8. k[S] = g[S] + d
  BY <1>7
<1> QED
  BY <1>1, <1>8, SumUnfolded DEF g, k


=============================================================================
