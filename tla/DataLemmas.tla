----------------------------- MODULE DataLemmas -----------------------------
(***************************************************************************)
(* What the proofs need of data, for every input.  The provers' library states *)
(* induction with an operator for the property, which cannot be instantiated   *)
(* here: here the property is a set, and that the naturals are well-founded     *)
(* does the rest.  With it: a recursive function on a prefix of the naturals     *)
(* exists and there is one, and a sum does not depend on the order of adding.    *)
(***************************************************************************)
EXTENDS Integers, Sequences, FiniteSets, Functions, FiniteSetTheorems, SequenceTheorems, WellFoundedInduction, TLAPS

Below == OpToRel(<, Nat)

LEMMA LessIsWellFounded == IsWellFoundedOn(Below, Nat)
  BY NatLessThanWellFounded, Zenon DEF Below

LEMMA LessIs == \A m, n \in Nat : <<m, n>> \in Below <=> m < n
  BY DEF Below, OpToRel

(* A set of naturals with 0 in it, and with every number the next one, has them all. *)
LEMMA SetInduction ==
  ASSUME NEW S, 0 \in S, \A n \in Nat : n \in S => n + 1 \in S
  PROVE  \A n \in Nat : n \in S
<1> SUFFICES ASSUME Nat \ S # {} PROVE FALSE
  OBVIOUS
<1>1. PICK n \in Nat \ S : \A m \in Nat \ S : <<m, n>> \notin Below
  BY WFMin, LessIsWellFounded
<1>2. n # 0 /\ n - 1 \in Nat /\ n - 1 < n
  OBVIOUS
<1>3. n - 1 \in S
  BY <1>1, <1>2, LessIs
<1> QED
  BY <1>2, <1>3

-----------------------------------------------------------------------------
(* Functions that are defined on 0..n by what they are just before.            *)

Follows(g, n, b, step) == g = [k \in 0..n |-> IF k = 0 THEN b ELSE step[<<g[k - 1], k>>]]

LEMMA PrefixExists ==
  ASSUME NEW S, NEW b \in S, NEW n \in Nat, NEW step \in [S \X (1..n) -> S]
  PROVE  \E g \in [0..n -> S] : Follows(g, n, b, step)
<1> DEFINE Done == {m \in Nat : m <= n => \E g \in [0..m -> S] : Follows(g, m, b, step)}
<1>1. 0 \in Done
  <2>1. [k \in 0..0 |-> b] \in [0..0 -> S]
    OBVIOUS
  <2>2. Follows([k \in 0..0 |-> b], 0, b, step)
    BY DEF Follows
  <2> QED
    BY <2>1, <2>2
<1>2. ASSUME NEW m \in Nat, m \in Done PROVE m + 1 \in Done
  <2> SUFFICES ASSUME m + 1 <= n PROVE \E g \in [0..(m + 1) -> S] : Follows(g, m + 1, b, step)
    OBVIOUS
  <2>1. PICK g \in [0..m -> S] : Follows(g, m, b, step)
    BY <1>2
  <2>2. m + 1 \in 1..n /\ g[m] \in S
    OBVIOUS
  <2>3. step[<<g[m], m + 1>>] \in S
    BY <2>2
  <2> DEFINE h == [k \in 0..(m + 1) |-> IF k = m + 1 THEN step[<<g[m], m + 1>>] ELSE g[k]]
  <2>4. h \in [0..(m + 1) -> S]
    BY <2>3
  <2>5. ASSUME NEW k \in 0..(m + 1) PROVE h[k] = IF k = 0 THEN b ELSE step[<<h[k - 1], k>>]
    <3>1. CASE k = m + 1
      <4>1. h[k - 1] = g[m] /\ h[k] = step[<<g[m], m + 1>>]
        BY <3>1
      <4>2. k # 0
        BY <3>1, SMTT(30)
      <4> HIDE DEF h
      <4> QED
        BY <3>1, <4>1, <4>2
    <3>2. CASE k # m + 1
      <4>1. k \in 0..m /\ h[k] = g[k] /\ (k # 0 => h[k - 1] = g[k - 1])
        BY <3>2
      <4> QED
        BY <4>1, <2>1 DEF Follows
    <3> QED
      BY <3>1, <3>2
  <2>6. Follows(h, m + 1, b, step)
    BY <2>4, <2>5 DEF Follows
  <2> QED
    BY <2>4, <2>6
<1>3. n \in Done
  <2> HIDE DEF Done
  <2> QED
    BY <1>1, <1>2, SetInduction
<1> QED
  BY <1>3

-----------------------------------------------------------------------------
(* Sums.  A fold adds the values of a function in the order in which CHOOSE     *)
(* takes the elements out of its domain.                                       *)

Total(f) == FoldFunction(LAMBDA x, y : x + y, 0, f)

Pick(s) == CHOOSE x \in s : TRUE
Adds(g, D, f) == g = [s \in SUBSET D |-> IF s = {} THEN 0 ELSE f[Pick(s)] + g[s \ {Pick(s)}]]

LEMMA PickIsIn == \A s : s # {} => Pick(s) \in s
  BY DEF Pick

LEMMA TotalIs == \A f : Total(f) = (CHOOSE g : Adds(g, DOMAIN f, f))[DOMAIN f]
  BY DEF Total, FoldFunction, FoldFunctionOnSet, MapThenFoldSet, Adds, Pick

LEMMA Smaller ==
  ASSUME NEW D, IsFiniteSet(D), NEW s \in SUBSET D, NEW x \in s
  PROVE  /\ s \ {x} \in SUBSET D /\ IsFiniteSet(s) /\ Cardinality(s) \in Nat \ {0}
         /\ Cardinality(s \ {x}) = Cardinality(s) - 1
<1>1. IsFiniteSet(s) /\ Cardinality(s) \in Nat
  BY FS_Subset, FS_CardinalityType
<1>2. Cardinality(s) # 0
  BY <1>1, FS_EmptySet
<1>3. Cardinality(s \ {x}) = Cardinality(s) - 1
  BY <1>1, FS_RemoveElement
<1> QED
  BY <1>1, <1>2, <1>3

\* What a sum is of the sets that have so many elements at most.
AddsTo(g, D, f, n) ==
    \A s \in SUBSET D : Cardinality(s) <= n =>
        g[s] = IF s = {} THEN 0 ELSE f[Pick(s)] + g[s \ {Pick(s)}]

LEMMA TotalsExist ==
  ASSUME NEW D, IsFiniteSet(D), NEW f \in [D -> Int]
  PROVE  \E g \in [SUBSET D -> Int] : Adds(g, D, f)
<1> DEFINE Done == {n \in Nat : \E g \in [SUBSET D -> Int] : AddsTo(g, D, f, n)}
<1>0. \A s \in SUBSET D : IsFiniteSet(s) /\ Cardinality(s) \in Nat /\ Cardinality(s) <= Cardinality(D)
  BY FS_Subset, FS_CardinalityType
<1>1. 0 \in Done
  <2>1. [s \in SUBSET D |-> 0] \in [SUBSET D -> Int]
    OBVIOUS
  <2>2. \A s \in SUBSET D : Cardinality(s) <= 0 => s = {}
    BY <1>0, FS_EmptySet
  <2>3. AddsTo([s \in SUBSET D |-> 0], D, f, 0)
    BY <2>2 DEF AddsTo
  <2> QED
    BY <2>1, <2>3
<1>2. ASSUME NEW n \in Nat, n \in Done PROVE n + 1 \in Done
  <2>1. PICK g \in [SUBSET D -> Int] : AddsTo(g, D, f, n)
    BY <1>2
  <2> DEFINE Now(s) == IF s = {} THEN 0 ELSE f[Pick(s)] + g[s \ {Pick(s)}]
             h == [s \in SUBSET D |-> Now(s)]
  <2>2. ASSUME NEW s \in SUBSET D PROVE Now(s) \in Int
    BY PickIsIn
  <2>3. h \in [SUBSET D -> Int]
    BY <2>2
  <2>4. \A s \in SUBSET D : Cardinality(s) <= n => h[s] = g[s]
    BY <2>1 DEF AddsTo
  <2>5. ASSUME NEW s \in SUBSET D, Cardinality(s) <= n + 1, s # {}
        PROVE  h[s \ {Pick(s)}] = g[s \ {Pick(s)}]
    <3>1. s \ {Pick(s)} \in SUBSET D /\ Cardinality(s \ {Pick(s)}) = Cardinality(s) - 1
      BY <2>5, PickIsIn, Smaller
    <3>2. Cardinality(s \ {Pick(s)}) <= n
      BY <3>1, <2>5, <1>0
    <3> QED
      BY <3>1, <3>2, <2>4
  <2>6. AddsTo(h, D, f, n + 1)
    <3>1. ASSUME NEW s \in SUBSET D, Cardinality(s) <= n + 1
          PROVE  h[s] = IF s = {} THEN 0 ELSE f[Pick(s)] + h[s \ {Pick(s)}]
      <4>1. CASE s = {}
        BY <4>1
      <4>2. CASE s # {}
        <5>1. h[s] = f[Pick(s)] + g[s \ {Pick(s)}]
          BY <4>2
        <5> HIDE DEF h
        <5> QED
          BY <5>1, <4>2, <3>1, <2>5
      <4> QED
        BY <4>1, <4>2
    <3> HIDE DEF h
    <3> QED
      BY <3>1 DEF AddsTo
  <2> HIDE DEF h
  <2> QED
    BY <2>3, <2>6
<1>3. Cardinality(D) \in Done
  <2>1. Cardinality(D) \in Nat
    BY FS_CardinalityType
  <2> HIDE DEF Done
  <2> QED
    BY <2>1, <1>1, <1>2, SetInduction
<1>4. PICK g \in [SUBSET D -> Int] : AddsTo(g, D, f, Cardinality(D))
  BY <1>3
<1>5. Adds(g, D, f)
  BY <1>0, <1>4 DEF Adds, AddsTo
<1> QED
  BY <1>5

\* The elements can be taken in any order.
TakesAny(g, D, f) == \A s \in SUBSET D : \A x \in s : g[s] = f[x] + g[s \ {x}]

LEMMA TakeAny ==
  ASSUME NEW D, IsFiniteSet(D), NEW f \in [D -> Int], NEW g \in [SUBSET D -> Int], Adds(g, D, f)
  PROVE  TakesAny(g, D, f)
<1> SUFFICES \A s \in SUBSET D : \A x \in s : g[s] = f[x] + g[s \ {x}]
  BY DEF TakesAny
<1> DEFINE Done == {n \in Nat : \A s \in SUBSET D : Cardinality(s) <= n =>
                                  \A x \in s : g[s] = f[x] + g[s \ {x}]}
<1>0. \A s \in SUBSET D : IsFiniteSet(s) /\ Cardinality(s) \in Nat /\ Cardinality(s) <= Cardinality(D)
  BY FS_Subset, FS_CardinalityType
<1>1. 0 \in Done
  BY <1>0, FS_EmptySet
<1>2. ASSUME NEW n \in Nat, n \in Done PROVE n + 1 \in Done
  <2> SUFFICES ASSUME NEW s \in SUBSET D, Cardinality(s) <= n + 1, NEW x \in s
               PROVE  g[s] = f[x] + g[s \ {x}]
    OBVIOUS
  <2> DEFINE y == Pick(s)
  <2>1. y \in s /\ g[s] = f[y] + g[s \ {y}]
    BY PickIsIn DEF Adds
  <2>2. CASE x = y
    BY <2>1, <2>2
  <2>3. CASE x # y
    <3> HIDE DEF y
    <3>1. /\ s \ {y} \in SUBSET D /\ Cardinality(s \ {y}) <= n
          /\ s \ {x} \in SUBSET D /\ Cardinality(s \ {x}) <= n
      BY <2>1, <1>0, Smaller
    <3>2. x \in s \ {y} /\ y \in s \ {x} /\ (s \ {y}) \ {x} = (s \ {x}) \ {y}
      BY <2>1, <2>3
    <3>3. g[s \ {y}] = f[x] + g[(s \ {x}) \ {y}]
      <4>1. g[s \ {y}] = f[x] + g[(s \ {y}) \ {x}]
        BY <1>2, <3>1, <3>2
      <4> QED
        BY <4>1, <3>2, Zenon
    <3>4. g[s \ {x}] = f[y] + g[(s \ {x}) \ {y}]
      BY <1>2, <3>1, <3>2
    <3>5. f[x] \in Int /\ f[y] \in Int /\ g[(s \ {x}) \ {y}] \in Int
      BY <2>1
    <3> QED
      BY <2>1, <3>3, <3>4, <3>5
  <2> QED
    BY <2>2, <2>3
<1>3. Cardinality(D) \in Done
  <2>1. Cardinality(D) \in Nat
    BY FS_CardinalityType
  <2> HIDE DEF Done
  <2> QED
    BY <2>1, <1>1, <1>2, SetInduction
<1> QED
  BY <1>0, <1>3

\* Two functions that are the same on a set have the same sum of it.
LEMMA SameTotal ==
  ASSUME NEW D, IsFiniteSet(D), NEW f, NEW g, Adds(g, D, f),
         NEW E, IsFiniteSet(E), NEW e, NEW h, Adds(h, E, e)
  PROVE  \A s \in SUBSET (D \cap E) : (\A x \in s : f[x] = e[x]) => g[s] = h[s]
<1> DEFINE Done == {n \in Nat : \A s \in SUBSET (D \cap E) : Cardinality(s) <= n =>
                                  ((\A x \in s : f[x] = e[x]) => g[s] = h[s])}
<1>0. \A s \in SUBSET (D \cap E) : /\ IsFiniteSet(s) /\ Cardinality(s) \in Nat
                                   /\ Cardinality(s) <= Cardinality(D)
  BY FS_Subset, FS_CardinalityType
<1>1. 0 \in Done
  BY <1>0, FS_EmptySet DEF Adds
<1>2. ASSUME NEW n \in Nat, n \in Done PROVE n + 1 \in Done
  <2> SUFFICES ASSUME NEW s \in SUBSET (D \cap E), Cardinality(s) <= n + 1, \A x \in s : f[x] = e[x]
               PROVE  g[s] = h[s]
    OBVIOUS
  <2>1. CASE s = {}
    BY <2>1 DEF Adds
  <2>2. CASE s # {}
    <3> DEFINE y == Pick(s)
    <3>1. y \in s /\ g[s] = f[y] + g[s \ {y}] /\ h[s] = e[y] + h[s \ {y}]
      BY <2>2, PickIsIn DEF Adds
    <3> HIDE DEF y
    <3>2. s \ {y} \in SUBSET (D \cap E) /\ Cardinality(s \ {y}) <= n
      BY <3>1, <1>0, Smaller
    <3> QED
      BY <1>2, <3>1, <3>2
  <2> QED
    BY <2>1, <2>2
<1>3. Cardinality(D) \in Done
  <2>1. Cardinality(D) \in Nat
    BY FS_CardinalityType
  <2> HIDE DEF Done
  <2> QED
    BY <2>1, <1>1, <1>2, SetInduction
<1> QED
  BY <1>0, <1>3

LEMMA TheTotal ==
  ASSUME NEW D, IsFiniteSet(D), NEW f \in [D -> Int]
  PROVE  \E g \in [SUBSET D -> Int] : Adds(g, D, f) /\ Total(f) = g[D]
<1>1. PICK g0 \in [SUBSET D -> Int] : Adds(g0, D, f)
  BY TotalsExist
<1> DEFINE h == CHOOSE h : Adds(h, D, f)
<1>2. Adds(h, D, f)
  BY <1>1
<1>3. Total(f) = h[D]
  BY TotalIs
<1>4. h[D] = g0[D]
  <2> HIDE DEF h
  <2> QED
    BY <1>1, <1>2, SameTotal
<1> QED
  BY <1>1, <1>3, <1>4

LEMMA TotalOfNone == ASSUME NEW f \in [{} -> Int] PROVE Total(f) = 0
<1>1. IsFiniteSet({})
  BY FS_EmptySet
<1>2. PICK g \in [SUBSET {} -> Int] : Adds(g, {}, f) /\ Total(f) = g[{}]
  BY <1>1, TheTotal
<1> QED
  BY <1>2 DEF Adds

LEMMA TotalIsInt == ASSUME NEW D, IsFiniteSet(D), NEW f \in [D -> Int] PROVE Total(f) \in Int
<1>1. PICK g \in [SUBSET D -> Int] : Adds(g, D, f) /\ Total(f) = g[D]
  BY TheTotal
<1> QED
  BY <1>1

\* A sum is one value and the sum of the others.
LEMMA TotalTakes ==
  ASSUME NEW D, IsFiniteSet(D), NEW f \in [D -> Int], NEW x \in D,
         NEW e \in [D \ {x} -> Int], \A d \in D \ {x} : e[d] = f[d]
  PROVE  Total(f) = f[x] + Total(e)
<1> DEFINE E == D \ {x}
<1>1. IsFiniteSet(E) /\ e \in [E -> Int]
  BY FS_RemoveElement
<1>2. PICK g \in [SUBSET D -> Int] : Adds(g, D, f) /\ Total(f) = g[D]
  BY TheTotal
<1>3. PICK h \in [SUBSET E -> Int] : Adds(h, E, e) /\ Total(e) = h[E]
  <2> HIDE DEF E
  <2> QED
    BY <1>1, TheTotal
<1>4. g[D] = f[x] + g[E]
  <2>1. TakesAny(g, D, f)
    BY <1>2, TakeAny
  <2> QED
    BY <2>1 DEF TakesAny
<1>5. g[E] = h[E]
  <2>1. E \in SUBSET (D \cap E) /\ (\A d \in E : f[d] = e[d])
    OBVIOUS
  <2> HIDE DEF E
  <2> QED
    BY <2>1, <1>1, <1>2, <1>3, SameTotal
<1> QED
  BY <1>2, <1>3, <1>4, <1>5

\* Functions that differ at one place: so do their sums.
LEMMA TotalChanges ==
  ASSUME NEW D, IsFiniteSet(D), NEW f \in [D -> Int], NEW e \in [D -> Int], NEW x \in D,
         \A d \in D \ {x} : e[d] = f[d]
  PROVE  Total(e) = Total(f) + e[x] - f[x]
<1> DEFINE rest == [d \in D \ {x} |-> f[d]]
<1>1. /\ rest \in [D \ {x} -> Int] /\ IsFiniteSet(D \ {x})
      /\ \A d \in D \ {x} : rest[d] = f[d] /\ rest[d] = e[d]
  BY FS_RemoveElement
<1>4. Total(rest) \in Int
  BY <1>1, TotalIsInt
<1> HIDE DEF rest
<1>2. Total(f) = f[x] + Total(rest)
  BY <1>1, TotalTakes
<1>3. Total(e) = e[x] + Total(rest)
  BY <1>1, TotalTakes
<1> QED
  BY <1>2, <1>3, <1>4

LEMMA TotalOfNothings ==
  ASSUME NEW D, IsFiniteSet(D) PROVE Total([d \in D |-> 0]) = 0
<1> DEFINE Done == {n \in Nat : \A s \in SUBSET D : Cardinality(s) <= n =>
                                  \A f \in [s -> {0}] : Total(f) = 0}
<1>0. \A s \in SUBSET D : IsFiniteSet(s) /\ Cardinality(s) \in Nat
  BY FS_Subset, FS_CardinalityType
<1>1. ASSUME NEW f \in [{} -> {0}] PROVE Total(f) = 0
  BY TotalOfNone
<1>2. 0 \in Done
  BY <1>0, <1>1, FS_EmptySet
<1>3. ASSUME NEW n \in Nat, n \in Done PROVE n + 1 \in Done
  <2> SUFFICES ASSUME NEW s \in SUBSET D, Cardinality(s) <= n + 1, NEW x \in s, NEW f \in [s -> {0}]
               PROVE  Total(f) = 0
    <3>1. ASSUME NEW s \in SUBSET D, s = {}, NEW f \in [s -> {0}] PROVE Total(f) = 0
      BY <3>1, <1>1
    <3> QED
      BY <3>1
  <2>1. s \ {x} \in SUBSET D /\ Cardinality(s \ {x}) <= n
    BY <1>0, Smaller
  <2> DEFINE e == [d \in s \ {x} |-> 0]
  <2>2. e \in [s \ {x} -> {0}] /\ e \in [s \ {x} -> Int] /\ f \in [s -> Int] /\ f[x] = 0
        /\ \A d \in s \ {x} : e[d] = f[d]
    OBVIOUS
  <2> HIDE DEF e
  <2>3. Total(f) = f[x] + Total(e)
    BY <1>0, <2>2, TotalTakes
  <2>4. Total(e) = 0
    BY <1>3, <2>1, <2>2
  <2> QED
    BY <2>2, <2>3, <2>4
<1>4. Cardinality(D) \in Nat
  BY <1>0
<1>5. Cardinality(D) \in Done
  <2> HIDE DEF Done
  <2> QED
    BY <1>2, <1>3, <1>4, SetInduction
<1> QED
  BY <1>4, <1>5

LEMMA TotalIsNat ==
  ASSUME NEW D, IsFiniteSet(D), NEW f \in [D -> Int], \A d \in D : f[d] \in Nat PROVE Total(f) \in Nat
<1>1. PICK g \in [SUBSET D -> Int] : Adds(g, D, f) /\ Total(f) = g[D]
  BY TheTotal
<1> DEFINE Done == {n \in Nat : \A s \in SUBSET D : Cardinality(s) <= n => g[s] \in Nat}
<1>0. \A s \in SUBSET D : IsFiniteSet(s) /\ Cardinality(s) \in Nat
  BY FS_Subset, FS_CardinalityType
<1>2. 0 \in Done
  <2>1. \A s \in SUBSET D : Cardinality(s) <= 0 => s = {}
    BY <1>0, FS_EmptySet
  <2>2. g[{}] = 0 /\ 0 \in Nat
    BY <1>1 DEF Adds
  <2>3. \A s \in SUBSET D : Cardinality(s) <= 0 => g[s] \in Nat
    BY <2>1, <2>2
  <2> QED
    BY <2>2, <2>3
<1>3. ASSUME NEW n \in Nat, n \in Done PROVE n + 1 \in Done
  <2> SUFFICES ASSUME NEW s \in SUBSET D, Cardinality(s) <= n + 1 PROVE g[s] \in Nat
    OBVIOUS
  <2>1. CASE s = {}
    BY <1>1, <2>1 DEF Adds
  <2>2. CASE s # {}
    <3> DEFINE x == Pick(s)
    <3>1. x \in s /\ g[s] = f[x] + g[s \ {x}]
      BY <1>1, <2>2, PickIsIn DEF Adds
    <3> HIDE DEF x
    <3>2. s \ {x} \in SUBSET D /\ Cardinality(s \ {x}) <= n
      BY <3>1, <1>0, Smaller
    <3> QED
      BY <1>3, <3>1, <3>2
  <2> QED
    BY <2>1, <2>2
<1>4. Cardinality(D) \in Done
  <2>1. Cardinality(D) \in Nat
    BY <1>0
  <2> HIDE DEF Done
  <2> QED
    BY <1>2, <1>3, <2>1, SetInduction
<1> QED
  BY <1>0, <1>1, <1>4

LEMMA TotalOfLonger ==
  ASSUME NEW n, NEW s, NEW t, n \in Nat, s \in [1..n -> Int], t \in [1..(n + 1) -> Int],
         \A i \in 1..n : s[i] = t[i]
  PROVE  Total(t) = Total(s) + t[n + 1]
<1>1. PICK D, E, x : D = 1..n /\ E = 1..(n + 1) /\ x = n + 1
  OBVIOUS
<1>2. IsFiniteSet(D) /\ IsFiniteSet(E)
  <2>1. n + 1 \in Int /\ n \in Int /\ 1 \in Int
    OBVIOUS
  <2> QED
    BY <1>1, <2>1, FS_Interval
<1>3. x \in E /\ E \ {x} = D
  BY <1>1
<1>4. t \in [E -> Int] /\ s \in [E \ {x} -> Int] /\ \A d \in E \ {x} : s[d] = t[d]
  BY <1>1, <1>3
<1>5. Total(t) = t[x] + Total(s)
  <2> QED
    BY <1>2, <1>3, <1>4, TotalTakes, Z3
<1>6. Total(s) \in Int /\ t[x] \in Int
  <2>1. s \in [D -> Int]
    BY <1>1
  <2> QED
    BY <2>1, <1>2, <1>3, <1>4, TotalIsInt
<1> QED
  BY <1>1, <1>5, <1>6

\* A sum is that of a first part and of the rest.
LEMMA TotalOfParts ==
  ASSUME NEW a \in Nat, NEW n \in Nat, NEW u \in [1 .. a + n -> Int]
  PROVE  Total([i \in 1 .. a + n |-> u[i]]) = Total([i \in 1 .. a |-> u[i]]) + Total([i \in 1 .. n |-> u[a + i]])
<1> DEFINE First(k) == [i \in 1 .. k |-> u[i]]
           Others(k) == [i \in 1 .. k |-> u[a + i]]
           Done == {k \in Nat : k <= n => Total(First(a + k)) = Total(First(a)) + Total(Others(k))}
<1>1. ASSUME NEW k \in Nat, k <= n
      PROVE  /\ First(a + k) \in [1 .. a + k -> Int] /\ Others(k) \in [1 .. k -> Int]
             /\ IsFiniteSet(1 .. k) /\ IsFiniteSet(1 .. a + k)
  <2>1. \A i \in 1 .. k : a + i \in 1 .. a + n
    BY <1>1
  <2>2. \A i \in 1 .. a + k : i \in 1 .. a + n
    BY <1>1
  <2>3. a + k \in Int /\ k \in Int /\ 1 \in Int
    OBVIOUS
  <2> QED
    BY <2>1, <2>2, <2>3, FS_Interval
<1>2. Total(First(a)) \in Int
  <2>1. First(a + 0) \in [1 .. a + 0 -> Int] /\ IsFiniteSet(1 .. a + 0)
    BY <1>1, SMTT(30)
  <2>2. a + 0 = a
    OBVIOUS
  <2> HIDE DEF First
  <2> QED
    BY <2>1, <2>2, TotalIsInt
<1>3. 0 \in Done
  <2>1. Others(0) \in [{} -> Int] /\ a + 0 = a
    OBVIOUS
  <2>2. Total(Others(0)) = 0
    BY <2>1, TotalOfNone
  <2> HIDE DEF First, Others
  <2>3. Total(First(a + 0)) = Total(First(a)) + Total(Others(0))
    BY <1>2, <2>1, <2>2
  <2> QED
    BY <2>3
<1>4. ASSUME NEW k \in Nat, k \in Done PROVE k + 1 \in Done
  <2> SUFFICES ASSUME k + 1 <= n PROVE Total(First(a + (k + 1))) = Total(First(a)) + Total(Others(k + 1))
    OBVIOUS
  <2>1. Total(First(a + k)) = Total(First(a)) + Total(Others(k))
    BY <1>4
  <2>2. k + 1 \in Nat /\ k <= n /\ a + (k + 1) = (a + k) + 1 /\ a + k \in Nat
    OBVIOUS
  <2>3. /\ First(a + k) \in [1 .. a + k -> Int] /\ Others(k) \in [1 .. k -> Int]
        /\ First((a + k) + 1) \in [1 .. ((a + k) + 1) -> Int] /\ Others(k + 1) \in [1 .. (k + 1) -> Int]
        /\ IsFiniteSet(1 .. k) /\ IsFiniteSet(1 .. a + k)
    <3>1. First(a + (k + 1)) \in [1 .. a + (k + 1) -> Int] /\ Others(k + 1) \in [1 .. k + 1 -> Int]
      BY <1>1, <2>2
    <3>2. /\ First(a + k) \in [1 .. a + k -> Int] /\ Others(k) \in [1 .. k -> Int]
          /\ IsFiniteSet(1 .. k) /\ IsFiniteSet(1 .. a + k)
      BY <1>1, <2>2
    <3> HIDE DEF First, Others
    <3> QED
      BY <2>2, <3>1, <3>2
  <2>4. /\ \A i \in 1 .. a + k : First(a + k)[i] = First((a + k) + 1)[i]
        /\ \A i \in 1 .. k : Others(k)[i] = Others(k + 1)[i]
        /\ First((a + k) + 1)[(a + k) + 1] = u[a + k + 1] /\ Others(k + 1)[k + 1] = u[a + k + 1]
        /\ u[a + k + 1] \in Int
    OBVIOUS
  <2> HIDE DEF First, Others
  <2>5. Total(First((a + k) + 1)) = Total(First(a + k)) + First((a + k) + 1)[(a + k) + 1]
    BY <2>2, <2>3, <2>4, TotalOfLonger, Zenon
  <2>6. Total(Others(k + 1)) = Total(Others(k)) + Others(k + 1)[k + 1]
    BY <2>2, <2>3, <2>4, TotalOfLonger, Zenon
  <2>7. Total(Others(k)) \in Int
    BY <2>3, TotalIsInt
  <2> QED
    BY <1>2, <2>1, <2>2, <2>4, <2>5, <2>6, <2>7
<1>5. n \in Done
  <2> HIDE DEF Done
  <2> QED
    BY <1>3, <1>4, SetInduction
<1> QED
  BY <1>5

\* A value more at the end of a sequence.
LEMMA TotalOfAppend ==
  ASSUME NEW s \in Seq(Int), NEW v \in Int
  PROVE  Total(Append(s, v)) = Total(s) + v
<1>1. Len(s) \in Nat /\ s \in [1..Len(s) -> Int]
  BY LenProperties
<1>2. PICK t : t = Append(s, v)
  OBVIOUS
<1>3. t \in Seq(Int) /\ Len(t) = Len(s) + 1 /\ t[Len(s) + 1] = v /\ \A i \in 1..Len(s) : s[i] = t[i]
  BY <1>2, AppendProperties
<1>4. t \in [1..(Len(s) + 1) -> Int]
  BY <1>3, LenProperties
<1>5. Total(t) = Total(s) + t[Len(s) + 1]
  BY <1>1, <1>3, <1>4, TotalOfLonger, Zenon
<1> QED
  BY <1>2, <1>3, <1>5
=============================================================================
