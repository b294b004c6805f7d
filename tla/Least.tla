------------------------------- MODULE Least -------------------------------
(***************************************************************************)
(* A set of numbers has a least and a greatest element.  This is how the   *)
(* proofs of this project do an induction: over the least number for which *)
(* a statement does not hold.                                              *)
(***************************************************************************)
EXTENDS Integers, FiniteSetTheorems, TLAPS

\* The intervals 0 .. t - 1 are finite sets, and strict inclusion of finite
\* sets is well founded.
LEMMA LeastNat ==
    ASSUME NEW T \in SUBSET Nat, T # {}
    PROVE  \E m \in T : \A k \in T : m <= k
<1> DEFINE Below(t) == 0 .. t - 1
           X == {Below(t) : t \in T}
<1>1. X \subseteq FiniteSubsetsOf(Nat) /\ X # {}
  <2>1. \A t \in T : Below(t) \in SUBSET Nat /\ IsFiniteSet(Below(t))
    BY FS_Interval
  <2> QED  BY <2>1 DEF FiniteSubsetsOf
<1>2. IsWellFoundedOn(StrictSubsetOrdering(Nat), FiniteSubsetsOf(Nat))
  BY FS_StrictSubsetOrderingWellFounded
<1>3. PICK x \in X : \A y \in X : <<y, x>> \notin StrictSubsetOrdering(Nat)
  BY <1>1, <1>2, WFMin
<1>4. PICK m \in T : x = Below(m)
  OBVIOUS
<1>5. ASSUME NEW k \in T, k < m PROVE FALSE
  <2>1. Below(k) \in X /\ Below(k) \in SUBSET Nat /\ Below(m) \in SUBSET Nat
    OBVIOUS
  <2>2. Below(k) \subseteq Below(m)  BY <1>5
  <2>3. k \in Below(m) /\ k \notin Below(k)  BY <1>5
  <2>4. <<Below(k), x>> \in StrictSubsetOrdering(Nat)
    BY <1>4, <2>1, <2>2, <2>3 DEF StrictSubsetOrdering
  <2> QED  BY <1>3, <2>1, <2>4
<1> QED  BY <1>5

LEMMA LeastInt ==
    ASSUME NEW a \in Int, NEW b \in Int, NEW T \in SUBSET (a .. b), T # {}
    PROVE  \E m \in T : \A k \in T : m <= k
<1> DEFINE U == {t - a : t \in T}
<1>1. U \in SUBSET Nat /\ U # {}  OBVIOUS
<1>2. PICK m \in U : \A k \in U : m <= k  BY <1>1, LeastNat
<1>3. PICK t \in T : m = t - a  OBVIOUS
<1>4. \A k \in T : k - a \in U  OBVIOUS
<1>5. ASSUME NEW k \in T PROVE t <= k
  <2>1. t - a <= k - a  BY <1>2, <1>3, <1>4
  <2> QED  BY <2>1
<1> QED  BY <1>5

LEMMA GreatestInt ==
    ASSUME NEW a \in Int, NEW b \in Int, NEW T \in SUBSET (a .. b), T # {}
    PROVE  \E m \in T : \A k \in T : k <= m
<1> DEFINE U == {b - t : t \in T}
<1>1. U \in SUBSET Nat /\ U # {}  OBVIOUS
<1>2. PICK m \in U : \A k \in U : m <= k  BY <1>1, LeastNat
<1>3. PICK t \in T : m = b - t  OBVIOUS
<1>4. \A k \in T : b - k \in U  OBVIOUS
<1>5. ASSUME NEW k \in T PROVE k <= t
  <2>1. b - t <= b - k  BY <1>2, <1>3, <1>4
  <2> QED  BY <2>1
<1> QED  BY <1>5

LEMMA UpTo ==
    ASSUME NEW n \in Nat
    PROVE  IsFiniteSet(1 .. n) /\ Cardinality(1 .. n) = n
<1>1. IsFiniteSet(1 .. n) /\ Cardinality(1 .. n) = IF 1 > n THEN 0 ELSE n - 1 + 1
  BY FS_Interval
<1>2. Cardinality(1 .. n) = n  BY <1>1
<1> QED  BY <1>1, <1>2

\* Induction over the numbers up to n.
LEMMA UpTheNumbers ==
    ASSUME NEW n \in Nat, NEW T, 0 \in T, \A i \in 1 .. n : i - 1 \in T => i \in T
    PROVE  \A i \in 0 .. n : i \in T
<1> DEFINE U == {i \in 0 .. n : i \notin T}
<1> SUFFICES ASSUME U # {} PROVE FALSE  OBVIOUS
<1>1. U \in SUBSET Nat  OBVIOUS
<1>2. PICK m \in U : \A k \in U : m <= k  BY <1>1, LeastNat
<1>3. m \in 0 .. n /\ m \notin T /\ m # 0  BY <1>2
<1>4. m \in 1 .. n /\ m - 1 \in 0 .. n  BY <1>3
<1>5. m - 1 \in T
  <2>1. m - 1 \notin U  BY <1>2, <1>4
  <2> QED  BY <1>4, <2>1
<1> QED  BY <1>3, <1>4, <1>5

\* There is a function that obeys a recursion.
Obeys(f, n, S, a, F) ==
    f \in [0 .. n -> S] /\ f[0] = a /\ \A i \in 1 .. n : f[i] = F[i][f[i - 1]]

LEMMA RecursionExists ==
    ASSUME NEW n \in Nat, NEW S, NEW a \in S, NEW F \in [1 .. n -> [S -> S]]
    PROVE  \E f : Obeys(f, n, S, a, F)
<1> DEFINE Fits(f, m) == f[0] = a /\ \A i \in 1 .. m : f[i] = F[i][f[i - 1]]
           T == {m \in 0 .. n : \E f \in [0 .. m -> S] : Fits(f, m)}
<1>1. 0 \in T
  <2>1. PICK f : f = [i \in 0 .. 0 |-> a]  OBVIOUS
  <2>2. f \in [0 .. 0 -> S] /\ f[0] = a  BY <2>1
  <2>3. \A i \in 1 .. 0 : FALSE  OBVIOUS
  <2> QED  BY <2>2, <2>3
<1>2. ASSUME NEW m \in 1 .. n, m - 1 \in T PROVE m \in T
  <2>1. PICK f \in [0 .. m - 1 -> S] : Fits(f, m - 1)  BY <1>2
  <2>2. m - 1 \in 0 .. m - 1 /\ f[m - 1] \in S /\ F[m] \in [S -> S]  BY <2>1
  <2>3. PICK g : g = [i \in 0 .. m |-> IF i < m THEN f[i] ELSE F[m][f[m - 1]]]  OBVIOUS
  <2>4. \A i \in 0 .. m - 1 : g[i] = f[i]  BY <2>3
  <2>5. g[m] = F[m][f[m - 1]] /\ g[m] \in S  BY <2>2, <2>3
  <2>6. g \in [0 .. m -> S]
    <3>1. \A i \in 0 .. m : g[i] \in S
      <4> SUFFICES ASSUME NEW i \in 0 .. m PROVE g[i] \in S  OBVIOUS
      <4>1. CASE i = m  BY <2>5, <4>1
      <4>2. CASE i # m
        <5>1. i \in 0 .. m - 1  BY <4>2
        <5> QED  BY <2>1, <2>4, <5>1
      <4> QED  BY <4>1, <4>2
    <3> QED  BY <2>3, <3>1
  <2>7. g[0] = a
    <3>1. 0 \in 0 .. m - 1  OBVIOUS
    <3> QED  BY <2>1, <2>4, <3>1
  <2>8. ASSUME NEW i \in 1 .. m PROVE g[i] = F[i][g[i - 1]]
    <3>1. i - 1 \in 0 .. m - 1 /\ g[i - 1] = f[i - 1]  BY <2>4
    <3>2. CASE i = m  BY <2>5, <3>1, <3>2
    <3>3. CASE i # m
      <4>1. i \in 1 .. m - 1 /\ i \in 0 .. m - 1  BY <3>3
      <4> QED  BY <2>1, <2>4, <3>1, <4>1
    <3> QED  BY <3>2, <3>3
  <2>9. Fits(g, m)  BY <2>7, <2>8
  <2>10. m \in 0 .. n  OBVIOUS
  <2> HIDE DEF Fits
  <2> QED  BY <2>6, <2>9, <2>10
<1> HIDE DEF T
<1>3. \A m \in 0 .. n : m \in T  BY <1>1, <1>2, UpTheNumbers
<1>4. n \in T  BY <1>3
<1> QED  BY <1>4 DEF T, Obeys
=============================================================================
