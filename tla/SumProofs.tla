------------------------------ MODULE SumProofs ------------------------------
(***************************************************************************)
(* What a sum over a finite set is.  SumFunctionOnSet and MapThenSumSet     *)
(* fold over the set in the order in which CHOOSE takes its elements;       *)
(* these lemmas say that the fold exists, and that it does not depend on    *)
(* that order.                                                             *)
(*                                                                         *)
(* Induction is over a set G of the subsets for which a claim holds, and    *)
(* rests on the least element of a set of naturals.                        *)
(***************************************************************************)
EXTENDS Integers, FiniteSets, FiniteSetsExt, Functions, FiniteSetTheorems, WellFoundedInduction, TLAPS

\* A set of naturals has a least element.
LEMMA LeastNatural ==
  ASSUME NEW T \in SUBSET Nat, T # {}
  PROVE  \E n \in T : \A m \in T : n <= m
<1> DEFINE R == OpToRel(<, Nat)
<1>1. IsWellFoundedOn(R, Nat)
  BY NatLessThanWellFounded
<1>2. \A x, y \in Nat : <<x, y>> \in R <=> x < y
  BY DEF OpToRel
<1> HIDE DEF R
<1>3. PICK n \in T : \A y \in T : ~(<<y, n>> \in R)
  BY <1>1, WFMin
<1>4. \A m \in T : m \in Nat /\ n \in Nat /\ ~(m < n)
  BY <1>2, <1>3
<1>5. QED
  BY <1>4

\* A bounded set of naturals has a greatest element.
LEMMA GreatestNatural ==
  ASSUME NEW T \in SUBSET Nat, T # {}, NEW b \in Nat, \A m \in T : m <= b
  PROVE  Max(T) \in T /\ \A m \in T : m <= Max(T)
<1> DEFINE U == {b - m : m \in T}
<1>0. \A m \in T : m \in Nat
  OBVIOUS
<1>1. \A u \in U : u \in Nat
  BY <1>0
<1>2. PICK u \in U : \A v \in U : u <= v
  <2>1. U # {}
    OBVIOUS
  <2> HIDE DEF U
  <2>2. QED
    BY <1>1, <2>1, LeastNatural
<1>3. PICK n \in T : u = b - n
  OBVIOUS
<1>4. ASSUME NEW m \in T PROVE n >= m
  <2>1. u <= b - m
    BY <1>2
  <2>2. QED
    BY <1>0, <1>3, <2>1
<1>5. Max(T) \in T /\ \A m \in T : Max(T) >= m
  BY <1>4 DEF Max
<1>6. QED
  BY <1>0, <1>5

\* Induction over the natural numbers, for a set.
LEMMA NaturalsAll ==
  ASSUME NEW G, 0 \in G, \A n \in Nat : n \in G => n + 1 \in G
  PROVE  \A n \in Nat : n \in G
<1> DEFINE T == Nat \ G
<1>1. SUFFICES ASSUME T # {} PROVE FALSE
  OBVIOUS
<1>2. PICK n \in T : \A m \in T : n <= m
  BY <1>1, LeastNatural
<1>3. n # 0 /\ n - 1 \in Nat /\ n - 1 \notin T
  BY <1>2
<1>4. QED
  BY <1>2, <1>3

\* Induction over the subsets of a finite set.
LEMMA SubsetsAll ==
  ASSUME NEW S, IsFiniteSet(S), NEW G,
         \A s \in SUBSET S : (\A t \in SUBSET s : t # s => t \in G) => s \in G
  PROVE  \A s \in SUBSET S : s \in G
<1> DEFINE Bad == (SUBSET S) \ G
           T == {Cardinality(s) : s \in Bad}
<1>1. SUFFICES ASSUME Bad # {} PROVE FALSE
  OBVIOUS
<1>2. \A s \in SUBSET S : IsFiniteSet(s) /\ Cardinality(s) \in Nat
  BY FS_Subset, FS_CardinalityType
<1>3. PICK n \in T : \A m \in T : n <= m
  <2>1. T \in SUBSET Nat
    BY <1>2
  <2>2. T # {}
    BY <1>1
  <2> HIDE DEF T
  <2>3. QED
    BY <2>1, <2>2, LeastNatural
<1>4. PICK s \in Bad : n = Cardinality(s)
  BY <1>3
<1>5. ASSUME NEW t \in SUBSET s, t # s PROVE t \in G
  <2>1. Cardinality(t) <= Cardinality(s) /\ Cardinality(t) # Cardinality(s)
    BY <1>2, <1>4, <1>5, FS_Subset
  <2>2. SUFFICES ASSUME t \in Bad PROVE FALSE
    BY <1>4
  <2>3. Cardinality(s) <= Cardinality(t)
    BY <1>3, <1>4, <2>2
  <2>4. QED
    BY <1>2, <1>4, <2>1, <2>3
<1>6. QED
  <2>1. s \in SUBSET S /\ s \notin G
    BY <1>4
  <2>2. s \in G
    BY <2>1, <1>5
  <2>3. QED
    BY <2>1, <2>2
-----------------------------------------------------------------------------
(* The fold, and what it is for a function of integers.                    *)
Pick(s) == CHOOSE x \in s : TRUE

Folded(w, s, g) == IF s = {} THEN 0 ELSE w[Pick(s)] + g[s \ {Pick(s)}]

\* g sums w over every subset of S.
Sums(w, S, g) == g = [s \in SUBSET S |-> Folded(w, s, g)]

LEMMA PickIn == \A s : s # {} => Pick(s) \in s
  BY DEF Pick

LEMMA SumsAt ==
  ASSUME NEW w, NEW S, NEW g, Sums(w, S, g), NEW s \in SUBSET S
  PROVE  g[s] = Folded(w, s, g)
  BY DEF Sums

\* Two folds agree where both are defined and sum the same numbers.
LEMMA SumsAgree ==
  ASSUME NEW S, NEW v, NEW g, Sums(v, S, g),
         NEW T, NEW w, NEW h, Sums(w, T, h),
         NEW r, IsFiniteSet(r), r \subseteq S, r \subseteq T, \A x \in r : v[x] = w[x]
  PROVE  g[r] = h[r]
<1> DEFINE G == {s \in SUBSET r : g[s] = h[s]}
<1>1. ASSUME NEW s \in SUBSET r, \A t \in SUBSET s : t # s => t \in G
      PROVE  s \in G
  <2>1. g[s] = Folded(v, s, g) /\ h[s] = Folded(w, s, h)
    BY SumsAt
  <2>2. CASE s = {}
    BY <2>1, <2>2 DEF Folded
  <2>3. CASE s # {}
    <3>1. Pick(s) \in s
      BY <2>3, PickIn
    <3>2. g[s \ {Pick(s)}] = h[s \ {Pick(s)}]
      BY <1>1, <3>1
    <3>3. v[Pick(s)] = w[Pick(s)]
      BY <3>1
    <3>4. QED
      BY <2>1, <2>3, <3>2, <3>3 DEF Folded
  <2>4. QED
    BY <2>2, <2>3
<1> HIDE DEF G
<1>2. \A s \in SUBSET r : s \in G
  BY <1>1, SubsetsAll
<1>3. QED
  BY <1>2 DEF G

\* The fold over a finite set exists.
LEMMA SumsExist ==
  ASSUME NEW S, IsFiniteSet(S), NEW w
  PROVE  \E g : Sums(w, S, g)
<1> DEFINE G == {s \in SUBSET S : \E g : Sums(w, s, g)}
<1>1. ASSUME NEW s \in SUBSET S, \A t \in SUBSET s : t # s => t \in G
      PROVE  s \in G
  <2> DEFINE Sub(t) == CHOOSE g : Sums(w, t, g)
             Part(u) == Sub(u \ {Pick(u)})
             F == [u \in SUBSET s |-> IF u = {} THEN 0 ELSE w[Pick(u)] + Part(u)[u \ {Pick(u)}]]
  <2>1. \A t \in SUBSET s : t # s => Sums(w, t, Sub(t))
    BY <1>1
  <2>2. ASSUME NEW u \in SUBSET s PROVE F[u] = Folded(w, u, F)
    <3>1. CASE u = {}
      BY <3>1 DEF Folded
    <3>2. CASE u # {}
      <4> DEFINE t == u \ {Pick(u)}
      <4>1. Pick(u) \in u
        BY <3>2, PickIn
      <4>2. t \in SUBSET s /\ t # s
        BY <4>1
      <4>3. Sums(w, t, Sub(t))
        BY <2>1, <4>2
      <4>4. Sub(t)[t] = Folded(w, t, Sub(t))
        BY <4>3, SumsAt
      <4>5. Folded(w, t, Sub(t)) = F[t]
        <5>1. CASE t = {}
          BY <5>1, <4>2 DEF Folded
        <5>2. CASE t # {}
          <6> DEFINE r == t \ {Pick(t)}
          <6>1. Pick(t) \in t
            BY <5>2, PickIn
          <6>2. r \in SUBSET s /\ r # s /\ r \subseteq t
            BY <6>1, <4>2
          <6>3. Sums(w, r, Sub(r))
            BY <2>1, <6>2
          <6>4. IsFiniteSet(r)
            BY <6>2, FS_Subset
          <6>5. Sub(t)[r] = Sub(r)[r]
            <7> HIDE DEF t, r, Sub
            <7>1. QED
              BY <4>3, <6>3, <6>2, <6>4, SumsAgree
          <6>6. QED
            BY <5>2, <6>5, <4>2 DEF Folded
        <5>3. QED
          BY <5>1, <5>2
      <4>6. F[u] = w[Pick(u)] + Sub(t)[t]
        BY <3>2
      <4>7. QED
        BY <3>2, <4>4, <4>5, <4>6 DEF Folded
    <3>3. QED
      BY <3>1, <3>2
  <2>3. Sums(w, s, F)
    <3>1. F = [u \in SUBSET s |-> F[u]]
      OBVIOUS
    <3> HIDE DEF F
    <3>2. QED
      BY <2>2, <3>1 DEF Sums
  <2>4. QED
    BY <2>3
<1> HIDE DEF G
<1>2. \A s \in SUBSET S : s \in G
  BY <1>1, SubsetsAll
<1>3. QED
  BY <1>2 DEF G

LEMMA SumIs ==
  ASSUME NEW S, IsFiniteSet(S), NEW w
  PROVE  \E g : Sums(w, S, g) /\ SumFunctionOnSet(w, S) = g[S]
<1> DEFINE g == CHOOSE h : Sums(w, S, h)
<1>1. Sums(w, S, g)
  BY SumsExist
<1>2. SumFunctionOnSet(w, S) = g[S]
  BY DEF Sums, Folded, Pick, SumFunctionOnSet, FoldFunctionOnSet, MapThenFoldSet
<1>3. QED
  BY <1>1, <1>2

\* Sums of the same numbers are the same.
LEMMA SumEqual ==
  ASSUME NEW S, IsFiniteSet(S), NEW v, NEW w, \A x \in S : v[x] = w[x]
  PROVE  SumFunctionOnSet(v, S) = SumFunctionOnSet(w, S)
<1>1. PICK g : Sums(v, S, g) /\ SumFunctionOnSet(v, S) = g[S]
  BY SumIs
<1>2. PICK h : Sums(w, S, h) /\ SumFunctionOnSet(w, S) = h[S]
  BY SumIs
<1>3. g[S] = h[S]
  BY <1>1, <1>2, SumsAgree
<1>4. QED
  BY <1>1, <1>2, <1>3

LEMMA SumEmpty ==
  ASSUME NEW w
  PROVE  SumFunctionOnSet(w, {}) = 0
<1>1. PICK g : Sums(w, {}, g) /\ SumFunctionOnSet(w, {}) = g[{}]
  BY SumIs, FS_EmptySet
<1>2. g[{}] = Folded(w, {}, g)
  BY <1>1, SumsAt
<1>3. QED
  BY <1>1, <1>2 DEF Folded

LEMMA SumPicked ==
  ASSUME NEW S, IsFiniteSet(S), S # {}, NEW w
  PROVE  SumFunctionOnSet(w, S) = w[Pick(S)] + SumFunctionOnSet(w, S \ {Pick(S)})
<1> DEFINE r == S \ {Pick(S)}
<1>1. PICK g : Sums(w, S, g) /\ SumFunctionOnSet(w, S) = g[S]
  BY SumIs
<1>2. IsFiniteSet(r)
  BY FS_Subset
<1>3. PICK h : Sums(w, r, h) /\ SumFunctionOnSet(w, r) = h[r]
  BY <1>2, SumIs
<1>4. g[r] = h[r]
  BY <1>1, <1>2, <1>3, SumsAgree
<1>5. g[S] = Folded(w, S, g)
  BY <1>1, SumsAt
<1>6. QED
  BY <1>1, <1>3, <1>4, <1>5 DEF Folded
-----------------------------------------------------------------------------
(* Facts about sums.                                                       *)

LEMMA SumInt ==
  ASSUME NEW S, IsFiniteSet(S), NEW w, \A x \in S : w[x] \in Int
  PROVE  SumFunctionOnSet(w, S) \in Int
<1> DEFINE G == {s \in SUBSET S : SumFunctionOnSet(w, s) \in Int}
<1>1. ASSUME NEW s \in SUBSET S, \A t \in SUBSET s : t # s => t \in G
      PROVE  s \in G
  <2>1. CASE s = {}
    BY <2>1, SumEmpty
  <2>2. CASE s # {}
    <3>1. Pick(s) \in s /\ IsFiniteSet(s)
      BY <2>2, PickIn, FS_Subset
    <3>2. SumFunctionOnSet(w, s \ {Pick(s)}) \in Int /\ w[Pick(s)] \in Int
      BY <1>1, <3>1
    <3>3. SumFunctionOnSet(w, s) = w[Pick(s)] + SumFunctionOnSet(w, s \ {Pick(s)})
      BY <2>2, <3>1, SumPicked
    <3>4. QED
      BY <3>2, <3>3
  <2>3. QED
    BY <2>1, <2>2
<1> HIDE DEF G
<1>2. \A s \in SUBSET S : s \in G
  BY <1>1, SubsetsAll
<1>3. QED
  BY <1>2 DEF G

LEMMA SumNat ==
  ASSUME NEW S, IsFiniteSet(S), NEW w, \A x \in S : w[x] \in Nat
  PROVE  SumFunctionOnSet(w, S) \in Nat
<1> DEFINE G == {s \in SUBSET S : SumFunctionOnSet(w, s) \in Nat}
<1>1. ASSUME NEW s \in SUBSET S, \A t \in SUBSET s : t # s => t \in G
      PROVE  s \in G
  <2>1. CASE s = {}
    BY <2>1, SumEmpty
  <2>2. CASE s # {}
    <3>1. Pick(s) \in s /\ IsFiniteSet(s)
      BY <2>2, PickIn, FS_Subset
    <3>2. SumFunctionOnSet(w, s \ {Pick(s)}) \in Nat /\ w[Pick(s)] \in Nat
      BY <1>1, <3>1
    <3>3. SumFunctionOnSet(w, s) = w[Pick(s)] + SumFunctionOnSet(w, s \ {Pick(s)})
      BY <2>2, <3>1, SumPicked
    <3>4. QED
      BY <3>2, <3>3
  <2>3. QED
    BY <2>1, <2>2
<1> HIDE DEF G
<1>2. \A s \in SUBSET S : s \in G
  BY <1>1, SubsetsAll
<1>3. QED
  BY <1>2 DEF G

\* Any element may be taken out first.
LEMMA SumRemove ==
  ASSUME NEW S, IsFiniteSet(S), NEW w, \A x \in S : w[x] \in Int, NEW x \in S
  PROVE  SumFunctionOnSet(w, S) = w[x] + SumFunctionOnSet(w, S \ {x})
<1> DEFINE Sum(s) == SumFunctionOnSet(w, s)
           G == {s \in SUBSET S : \A y \in s : Sum(s) = w[y] + Sum(s \ {y})}
<1>0. ASSUME NEW s \in SUBSET S PROVE IsFiniteSet(s) /\ Sum(s) \in Int
  BY FS_Subset, SumInt
<1>1. ASSUME NEW s \in SUBSET S, \A t \in SUBSET s : t # s => t \in G
      PROVE  s \in G
  <2>1. SUFFICES ASSUME NEW y \in s PROVE Sum(s) = w[y] + Sum(s \ {y})
    OBVIOUS
  <2> DEFINE p == Pick(s)
  <2>2. p \in s
    BY PickIn
  <2>3. Sum(s) = w[p] + Sum(s \ {p})
    BY <1>0, SumPicked
  <2>4. CASE y = p
    BY <2>3, <2>4
  <2>5. CASE y # p
    <3> DEFINE r == s \ {p, y}
    <3>1. (s \ {p}) \ {y} = r /\ (s \ {y}) \ {p} = r
      OBVIOUS
    <3>2. s \ {p} \in G /\ s \ {y} \in G
      BY <1>1, <2>2
    <3>3. Sum(s \ {p}) = w[y] + Sum(r)
      BY <2>5, <3>1, <3>2
    <3>4. Sum(s \ {y}) = w[p] + Sum(r)
      BY <2>2, <2>5, <3>1, <3>2
    <3>5. w[p] \in Int /\ w[y] \in Int
      BY <2>2
    <3>6. Sum(s) \in Int /\ Sum(s \ {p}) \in Int /\ Sum(s \ {y}) \in Int /\ Sum(r) \in Int
      BY <1>0
    <3> HIDE DEF Sum, p, r, G
    <3>7. QED
      BY <2>3, <3>3, <3>4, <3>5, <3>6
  <2>6. QED
    BY <2>4, <2>5
<1> HIDE DEF G
<1>2. \A s \in SUBSET S : s \in G
  BY <1>1, SubsetsAll
<1>3. S \in G
  BY <1>2
<1>4. QED
  BY <1>3 DEF G

\* Changing one number changes the sum by as much.
LEMMA SumExcept ==
  ASSUME NEW S, IsFiniteSet(S), NEW w \in [S -> Int], NEW x \in S, NEW n \in Int
  PROVE  SumFunction([w EXCEPT ![x] = n]) = SumFunction(w) - w[x] + n
<1> DEFINE v == [w EXCEPT ![x] = n]
           r == S \ {x}
<1>1. DOMAIN v = S /\ DOMAIN w = S
  OBVIOUS
<1>2. SumFunction(v) = SumFunctionOnSet(v, S) /\ SumFunction(w) = SumFunctionOnSet(w, S)
  BY <1>1 DEF SumFunction
<1>3. v[x] = n /\ \A y \in r : v[y] = w[y]
  OBVIOUS
<1>4. \A y \in S : v[y] \in Int /\ w[y] \in Int
  OBVIOUS
<1>5. IsFiniteSet(r) /\ r \subseteq S
  BY FS_Subset
<1> HIDE DEF v
<1>6. SumFunctionOnSet(v, S) = n + SumFunctionOnSet(v, r)
  BY <1>3, <1>4, SumRemove
<1>7. SumFunctionOnSet(w, S) = w[x] + SumFunctionOnSet(w, r)
  BY <1>4, SumRemove
<1>8. SumFunctionOnSet(v, r) = SumFunctionOnSet(w, r)
  BY <1>3, <1>5, SumEqual
<1>9. SumFunctionOnSet(w, r) \in Int /\ w[x] \in Int
  BY <1>4, <1>5, SumInt
<1>10. QED
  BY <1>2, <1>6, <1>7, <1>8, <1>9 DEF v

LEMMA SumSingleton ==
  ASSUME NEW x, NEW w, w[x] \in Int
  PROVE  SumFunctionOnSet(w, {x}) = w[x]
<1>1. SumFunctionOnSet(w, {x}) = w[x] + SumFunctionOnSet(w, {x} \ {x})
  BY SumRemove, FS_Singleton
<1>2. {x} \ {x} = {}
  OBVIOUS
<1>3. QED
  BY <1>1, <1>2, SumEmpty

\* Nothing but zeros sums to zero.
LEMMA SumZero ==
  ASSUME NEW S, IsFiniteSet(S), NEW w, \A x \in S : w[x] = 0
  PROVE  SumFunctionOnSet(w, S) = 0
<1> DEFINE G == {s \in SUBSET S : SumFunctionOnSet(w, s) = 0}
<1>1. ASSUME NEW s \in SUBSET S, \A t \in SUBSET s : t # s => t \in G
      PROVE  s \in G
  <2>1. CASE s = {}
    BY <2>1, SumEmpty
  <2>2. CASE s # {}
    <3>1. Pick(s) \in s /\ IsFiniteSet(s)
      BY <2>2, PickIn, FS_Subset
    <3>2. SumFunctionOnSet(w, s \ {Pick(s)}) = 0 /\ w[Pick(s)] = 0
      BY <1>1, <3>1
    <3>3. QED
      BY <2>2, <3>1, <3>2, SumPicked
  <2>3. QED
    BY <2>1, <2>2
<1> HIDE DEF G
<1>2. \A s \in SUBSET S : s \in G
  BY <1>1, SubsetsAll
<1>3. QED
  BY <1>2 DEF G

\* A sum of naturals is at least each of them.
LEMMA SumAtLeast ==
  ASSUME NEW S, IsFiniteSet(S), NEW w, \A x \in S : w[x] \in Nat, NEW x \in S
  PROVE  w[x] <= SumFunctionOnSet(w, S)
<1>1. \A y \in S : w[y] \in Int
  OBVIOUS
<1>2. SumFunctionOnSet(w, S) = w[x] + SumFunctionOnSet(w, S \ {x})
  BY <1>1, SumRemove
<1>3. SumFunctionOnSet(w, S \ {x}) \in Nat
  <2>1. IsFiniteSet(S \ {x}) /\ \A y \in S \ {x} : w[y] \in Nat
    BY FS_Subset
  <2>2. QED
    BY <2>1, SumNat
<1>4. QED
  BY <1>2, <1>3

\* What is zero may be left out.
LEMMA SumOutside ==
  ASSUME NEW S, IsFiniteSet(S), NEW w, \A x \in S : w[x] \in Int,
         NEW T \in SUBSET S, \A x \in S \ T : w[x] = 0
  PROVE  SumFunctionOnSet(w, S) = SumFunctionOnSet(w, T)
<1> DEFINE R == S \ T
           G == {s \in SUBSET R : SumFunctionOnSet(w, T \cup s) = SumFunctionOnSet(w, T)}
<1>1. ASSUME NEW s \in SUBSET R, \A t \in SUBSET s : t # s => t \in G
      PROVE  s \in G
  <2>1. CASE s = {}
    BY <2>1
  <2>2. CASE s # {}
    <3> DEFINE x == Pick(s)
    <3>1. x \in s
      BY <2>2, PickIn
    <3> HIDE DEF x
    <3>2. /\ IsFiniteSet(T \cup s) /\ x \in T \cup s /\ w[x] = 0
          /\ \A y \in T \cup s : w[y] \in Int
      <4>1. T \cup s \subseteq S
        OBVIOUS
      <4>2. QED
        BY <3>1, <4>1, FS_Subset
    <3>3. (T \cup s) \ {x} = T \cup (s \ {x})
      BY <3>1
    <3>4. SumFunctionOnSet(w, T \cup (s \ {x})) = SumFunctionOnSet(w, T)
      BY <1>1, <3>1
    <3>5. SumFunctionOnSet(w, T) \in Int
      BY FS_Subset, SumInt
    <3>6. SumFunctionOnSet(w, T \cup s) = w[x] + SumFunctionOnSet(w, (T \cup s) \ {x})
      BY <3>2, SumRemove
    <3>7. SumFunctionOnSet(w, T \cup s) = w[x] + SumFunctionOnSet(w, T \cup (s \ {x}))
      BY <3>3, <3>6
    <3>8. SumFunctionOnSet(w, T \cup s) = SumFunctionOnSet(w, T)
      BY <3>2, <3>4, <3>5, <3>7
    <3>9. QED
      BY <3>8
  <2>3. QED
    BY <2>1, <2>2
<1>2. IsFiniteSet(R) /\ T \cup R = S
  BY FS_Subset
<1> HIDE DEF G, R
<1>3. \A s \in SUBSET R : s \in G
  BY <1>1, <1>2, SubsetsAll
<1>4. R \in G
  BY <1>3
<1>5. QED
  BY <1>2, <1>4 DEF G
=============================================================================
