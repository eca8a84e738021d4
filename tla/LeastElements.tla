--------------------------- MODULE LeastElements ---------------------------
(* Least elements of sets of numbers and of finite sets: the form in which   *)
(* the proofs about recursive definitions use induction.  What holds not of  *)
(* every n fails at a least n, and there the recursion is unfolded once.     *)
EXTENDS Integers, FiniteSets, FiniteSetTheorems, TLAPS

\* A set of finite sets has a member that includes no other one.
LEMMA LeastSet ==
  ASSUME NEW S, NEW T, T \subseteq FiniteSubsetsOf(S), T # {}
  PROVE  \E x \in T : \A y \in T : y \subseteq x => y = x
  <1>1. PICK x \in T : \A y \in T : ~(<<y, x>> \in StrictSubsetOrdering(S))
    BY FS_StrictSubsetOrderingWellFounded, WFMin
  <1>2. \A y \in T : y \in SUBSET S
    BY DEF FiniteSubsetsOf
  <1> QED
    BY <1>1, <1>2 DEF StrictSubsetOrdering

\* A set of natural numbers has a least one.
LEMMA LeastNumber ==
  ASSUME NEW T, T \subseteq Nat, T # {}
  PROVE  \E n \in T : \A m \in T : n <= m
  <1> DEFINE Below == {0 .. n : n \in T}
  <1>1. Below \subseteq FiniteSubsetsOf(Nat) /\ Below # {}
    <2>1. ASSUME NEW n \in T PROVE (0 .. n) \in FiniteSubsetsOf(Nat)
      <3>1. n \in Int /\ (0 .. n) \in SUBSET Nat
        OBVIOUS
      <3>2. IsFiniteSet(0 .. n)
        BY <3>1, FS_Interval
      <3> QED
        BY <3>1, <3>2 DEF FiniteSubsetsOf
    <2> QED
      BY <2>1
  <1>2. PICK x \in Below : \A y \in Below : y \subseteq x => y = x
    <2> HIDE DEF Below
    <2> QED
      BY <1>1, LeastSet
  <1>3. PICK n \in T : x = 0 .. n
    BY <1>2
  <1>4. ASSUME NEW m \in T PROVE n <= m
    <2>1. m \in Nat /\ n \in Nat /\ (0 .. m) \in Below
      OBVIOUS
    <2>2. SUFFICES ASSUME m < n PROVE FALSE
      BY <2>1
    <2>3. (0 .. m) \subseteq (0 .. n) /\ n \in 0 .. n /\ n \notin 0 .. m
      BY <2>1, <2>2
    <2> QED
      BY <1>2, <1>3, <2>1, <2>3
  <1> QED
    BY <1>4

\* A bounded set of natural numbers has a greatest one.
LEMMA GreatestNumber ==
  ASSUME NEW T, T \subseteq Nat, T # {}, NEW b \in Nat, \A m \in T : m <= b
  PROVE  \E n \in T : \A m \in T : m <= n
  <1> DEFINE D == {b - m : m \in T}
  <1>1. D \subseteq Nat /\ D # {}
    <2>1. ASSUME NEW m \in T PROVE b - m \in Nat
      <3>1. m \in Nat /\ m <= b
        OBVIOUS
      <3> QED
        BY <3>1
    <2> QED
      BY <2>1
  <1>2. PICK d \in D : \A e \in D : d <= e
    <2> HIDE DEF D
    <2> QED
      BY <1>1, LeastNumber
  <1>3. PICK n \in T : d = b - n
    BY <1>2
  <1>4. ASSUME NEW m \in T PROVE m <= n
    <2>1. (b - m) \in D /\ m \in Nat /\ n \in Nat
      OBVIOUS
    <2> HIDE DEF D
    <2>2. b - n <= b - m
      BY <1>2, <1>3, <2>1
    <2> QED
      BY <2>1, <2>2
  <1> QED
    BY <1>4

\* A recursion along the numbers up to n has a result: g takes the number of a
\* step and what the step before has given.
Steps(f, n, a, g) == f[0] = a /\ \A i \in 1 .. n : f[i] = g[<<i, f[i - 1]>>]

LEMMA StepsExist ==
  ASSUME NEW n \in Nat, NEW D, NEW a \in D, NEW g \in [(1 .. n) \X D -> D]
  PROVE  \E f \in [0 .. n -> D] : Steps(f, n, a, g)
  <1> USE DEF Steps
  <1> DEFINE Done(m, f) == Steps(f, m, a, g)
             Bad == {m \in 0 .. n : ~ \E f \in [0 .. m -> D] : Done(m, f)}
  <1>1. SUFFICES ASSUME Bad # {} PROVE FALSE
    OBVIOUS
  <1>2. PICK m \in Bad : \A k \in Bad : m <= k
    <2>1. Bad \subseteq Nat
      OBVIOUS
    <2> HIDE DEF Bad
    <2> QED
      BY <1>1, <2>1, LeastNumber
  <1>3. m # 0
    <2>1. [k \in 0 .. 0 |-> a] \in [0 .. 0 -> D] /\ Done(0, [k \in 0 .. 0 |-> a])
      OBVIOUS
    <2> QED
      BY <2>1
  <1>4. m - 1 \in 0 .. n /\ m \in 1 .. n
    BY <1>3
  <1>5. PICK f \in [0 .. m - 1 -> D] : Done(m - 1, f)
    BY <1>2, <1>4
  <1> DEFINE h == [k \in 0 .. m |-> IF k = m THEN g[<<m, f[m - 1]>>] ELSE f[k]]
  <1>6. f[m - 1] \in D /\ g[<<m, f[m - 1]>>] \in D
    BY <1>4, <1>5
  <1>7. h \in [0 .. m -> D]
    BY <1>4, <1>5, <1>6
  <1>8. Done(m, h)
    <2>1. h[0] = a
      BY <1>4, <1>5
    <2>2. ASSUME NEW i \in 1 .. m PROVE h[i] = g[<<i, h[i - 1]>>]
      <3>1. CASE i = m
        BY <1>4, <3>1
      <3>2. CASE i # m
        <4>1. i \in 1 .. m - 1 /\ h[i] = f[i] /\ h[i - 1] = f[i - 1]
          BY <1>4, <3>2
        <4> QED
          BY <1>5, <4>1
      <3> QED
        BY <3>1, <3>2
    <2> QED
      BY <2>1, <2>2
  <1> QED
    BY <1>2, <1>7, <1>8
=============================================================================
