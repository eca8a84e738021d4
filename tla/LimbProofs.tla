----------------------------- MODULE LimbProofs -----------------------------
(***************************************************************************)
(* Proofs about the operators of Words, Buffers, MiniGmp and BigInt, for any *)
(* width of a word and of a limb: words and their bytes, powers and division, *)
(* the loops of mini-gmp over limbs, and what sums, differences, products and *)
(* bitwise operations on numbers of any length are.                        *)
(***************************************************************************)
EXTENDS BigInt, Buffers, LeastElements, SequenceTheorems

----------------------------------------------------------------------------
(* Words: recursion along the bits of a word.                              *)

\* A recursion along all numbers has a result.
Forever(f, a, g) == f[0] = a /\ \A i \in Nat \ {0} : f[i] = g[<<i, f[i - 1]>>]

LEMMA StepsForever ==
  ASSUME NEW D, NEW a \in D, NEW g \in [(Nat \ {0}) \X D -> D]
  PROVE  \E f \in [Nat -> D] : Forever(f, a, g)
  <1> DEFINE Run(n) == CHOOSE f \in [0 .. n -> D] : Steps(f, n, a, g)
  <1>1. ASSUME NEW n \in Nat
        PROVE  Run(n) \in [0 .. n -> D] /\ Steps(Run(n), n, a, g)
    <2> DEFINE h == [p \in (1 .. n) \X D |-> g[p]]
    <2>1. h \in [(1 .. n) \X D -> D]
      OBVIOUS
    <2>2. PICK f \in [0 .. n -> D] : Steps(f, n, a, h)
      <3> HIDE DEF h
      <3> QED
        BY <2>1, StepsExist
    <2>3. ASSUME NEW i \in 1 .. n PROVE f[i] = g[<<i, f[i - 1]>>]
      <3>1. i - 1 \in 0 .. n /\ f[i - 1] \in D
        BY <2>2
      <3>2. <<i, f[i - 1]>> \in (1 .. n) \X D
        BY <3>1
      <3>3. f[i] = h[<<i, f[i - 1]>>]
        BY <2>2 DEF Steps
      <3> QED
        BY <3>2, <3>3
    <2>4. Steps(f, n, a, g)
      BY <2>2, <2>3 DEF Steps
    <2> QED
      BY <2>4
  <1> HIDE DEF Run
  <1> DEFINE F == [n \in Nat |-> Run(n)[n]]
  <1>2. ASSUME NEW m \in Nat, NEW n \in Nat, m <= n
        PROVE  Run(m)[m] = Run(n)[m]
    <2> DEFINE Bad == {k \in 0 .. m : Run(m)[k] # Run(n)[k]}
    <2>1. SUFFICES ASSUME Bad # {} PROVE FALSE
      OBVIOUS
    <2>2. PICK k \in Bad : \A j \in Bad : k <= j
      <3>1. Bad \subseteq Nat
        OBVIOUS
      <3> HIDE DEF Bad
      <3> QED
        BY <2>1, <3>1, LeastNumber
    <2>3. /\ Run(m)[0] = a /\ \A i \in 1 .. m : Run(m)[i] = g[<<i, Run(m)[i - 1]>>]
          /\ Run(n)[0] = a /\ \A i \in 1 .. n : Run(n)[i] = g[<<i, Run(n)[i - 1]>>]
      BY <1>1 DEF Steps
    <2>4. k \in 0 .. m /\ Run(m)[k] # Run(n)[k]
      BY <2>2
    <2> HIDE DEF Bad
    <2>7. k # 0
      BY <2>3, <2>4
    <2>5. k \in 1 .. m /\ k \in 1 .. n /\ k - 1 \in 0 .. m /\ ~(k <= k - 1)
      BY <1>2, <2>4, <2>7
    <2> USE DEF Bad
    <2>6. Run(m)[k - 1] = Run(n)[k - 1]
      BY <2>2, <2>5
    <2> QED
      BY <2>3, <2>4, <2>5, <2>6
  <1>3. ASSUME NEW i \in Nat PROVE F[i] \in D /\ Run(i)[0] = a
    <2>1. i \in 0 .. i
      OBVIOUS
    <2> QED
      BY <1>1, <2>1 DEF Steps
  <1>4. ASSUME NEW i \in Nat \ {0} PROVE F[i] = g[<<i, F[i - 1]>>]
    <2>1. i \in Nat /\ i - 1 \in Nat /\ i \in 1 .. i /\ i - 1 <= i
      OBVIOUS
    <2>2. Run(i)[i] = g[<<i, Run(i)[i - 1]>>]
      BY <1>1, <2>1 DEF Steps
    <2>3. Run(i - 1)[i - 1] = Run(i)[i - 1]
      BY <1>2, <2>1
    <2> QED
      BY <2>1, <2>2, <2>3
  <1>5. F \in [Nat -> D] /\ F[0] = a
    BY <1>3
  <1> HIDE DEF F
  <1> QED
    BY <1>4, <1>5 DEF Forever

\* What holds of 0 and is handed on from each number to the next holds of all.
LEMMA Induction ==
  ASSUME NEW S, 0 \in S, \A n \in Nat : n \in S => n + 1 \in S
  PROVE  \A n \in Nat : n \in S
  <1> DEFINE Bad == {n \in Nat : n \notin S}
  <1>1. SUFFICES ASSUME Bad # {} PROVE FALSE
    OBVIOUS
  <1>2. PICK n \in Bad : \A m \in Bad : n <= m
    <2>1. Bad \subseteq Nat
      OBVIOUS
    <2> HIDE DEF Bad
    <2> QED
      BY <1>1, <2>1, LeastNumber
  <1>3. n \in Nat /\ n \notin S
    OBVIOUS
  <1> HIDE DEF Bad
  <1>4. n # 0
    BY <1>3
  <1>5. n - 1 \in Nat /\ n = (n - 1) + 1 /\ ~(n <= n - 1)
    BY <1>3, <1>4
  <1>6. n - 1 \in S
    BY <1>2, <1>5 DEF Bad
  <1> QED
    BY <1>3, <1>5, <1>6

LEMMA PowRec ==
  ASSUME NEW b \in Int
  PROVE  Pow(b, 0) = 1 /\ \A n \in Nat : Pow(b, n + 1) = b * Pow(b, n) /\ Pow(b, n) \in Int
  <1> DEFINE Def(p) == p = [i \in Nat |-> IF i = 0 THEN 1 ELSE b * p[i - 1]]
             P == CHOOSE p : Def(p)
             g == [q \in (Nat \ {0}) \X Int |-> b * q[2]]
  <1>1. PICK f \in [Nat -> Int] : Forever(f, 1, g)
    <2>1. g \in [(Nat \ {0}) \X Int -> Int] /\ 1 \in Int
      OBVIOUS
    <2> HIDE DEF g
    <2> QED
      BY <2>1, StepsForever
  <1>2. f[0] = 1 /\ \A i \in Nat \ {0} : f[i] = b * f[i - 1]
    <2>1. f[0] = 1 /\ \A i \in Nat \ {0} : f[i] = g[<<i, f[i - 1]>>]
      BY <1>1 DEF Forever
    <2>2. ASSUME NEW i \in Nat \ {0} PROVE <<i, f[i - 1]>> \in (Nat \ {0}) \X Int
      <3>1. i - 1 \in Nat
        OBVIOUS
      <3> QED
        BY <3>1
    <2> QED
      BY <2>1, <2>2
  <1>3. Def(f)
    BY <1>2
  <1>4. Def(P)
    <2> HIDE DEF Def
    <2> QED
      BY <1>3
  <1>5. Pow(b, 0) = P[0] /\ \A n \in Nat : Pow(b, n) = P[n]
    BY DEF Pow
  <1> HIDE DEF P
  <1>6. P[0] = 1 /\ \A i \in Nat \ {0} : P[i] = b * P[i - 1]
    BY <1>4
  <1>7. \A n \in Nat : P[n + 1] = b * P[n]
    <2> TAKE n \in Nat
    <2>1. n + 1 \in Nat \ {0} /\ (n + 1) - 1 = n
      OBVIOUS
    <2> QED
      BY <1>6, <2>1
  <1> DEFINE S == {n \in Nat : P[n] \in Int}
  <1>8. \A n \in Nat : n \in S
    <2>1. 0 \in S
      BY <1>6
    <2>2. ASSUME NEW n \in Nat, n \in S PROVE n + 1 \in S
      BY <1>7, <2>2
    <2> HIDE DEF S
    <2> QED
      BY <2>1, <2>2, Induction
  <1> QED
    BY <1>5, <1>6, <1>7, <1>8

LEMMA PowPositive ==
  ASSUME NEW b \in Nat \ {0}, NEW n \in Nat
  PROVE  Pow(b, n) \in Nat \ {0}
  <1> DEFINE S == {k \in Nat : Pow(b, k) \in Nat \ {0}}
  <1>1. b \in Int
    OBVIOUS
  <1>2. 0 \in S
    <2>1. Pow(b, 0) = 1
      BY <1>1, PowRec
    <2> QED
      BY <2>1
  <1>3. ASSUME NEW k \in Nat, k \in S PROVE k + 1 \in S
    <2>1. Pow(b, k + 1) = b * Pow(b, k) /\ Pow(b, k) \in Nat \ {0}
      BY <1>1, <1>3, PowRec
    <2>2. \A p \in Nat \ {0} : b * p \in Nat \ {0}
      OBVIOUS
    <2> QED
      BY <2>1, <2>2
  <1> HIDE DEF S
  <1>4. n \in S
    BY <1>2, <1>3, Induction
  <1> QED
    BY <1>4 DEF S

LEMMA PowSum ==
  ASSUME NEW b \in Int, NEW m \in Nat, NEW n \in Nat
  PROVE  Pow(b, m + n) = Pow(b, m) * Pow(b, n)
  <1> DEFINE S == {k \in Nat : Pow(b, m + k) = Pow(b, m) * Pow(b, k)}
  <1>1. Pow(b, m) \in Int
    BY PowRec
  <1>2. 0 \in S
    BY <1>1, PowRec
  <1>3. ASSUME NEW k \in Nat, k \in S PROVE k + 1 \in S
    <2>1. m + (k + 1) = (m + k) + 1 /\ m + k \in Nat
      OBVIOUS
    <2>2. Pow(b, (m + k) + 1) = b * Pow(b, m + k) /\ Pow(b, k + 1) = b * Pow(b, k)
      BY <2>1, PowRec
    <2>3. Pow(b, k) \in Int
      BY PowRec
    <2>4. \A p, q \in Int : b * (p * q) = p * (b * q)
      OBVIOUS
    <2> QED
      BY <1>1, <1>3, <2>1, <2>2, <2>3, <2>4
  <1> HIDE DEF S
  <1>4. n \in S
    BY <1>2, <1>3, Induction
  <1> QED
    BY <1>4 DEF S

LEMMA PowOne ==
  ASSUME NEW b \in Int
  PROVE  Pow(b, 1) = b
  <1>1. Pow(b, 0 + 1) = b * Pow(b, 0)
    BY PowRec
  <1> QED
    BY <1>1, PowRec

LEMMA PowProduct ==
  ASSUME NEW b \in Int, NEW m \in Nat, NEW n \in Nat
  PROVE  Pow(b, m * n) = Pow(Pow(b, m), n)
  <1> DEFINE S == {k \in Nat : Pow(b, m * k) = Pow(Pow(b, m), k)}
  <1>1. Pow(b, m) \in Int
    BY PowRec
  <1>2. 0 \in S
    BY <1>1, PowRec
  <1>3. ASSUME NEW k \in Nat, k \in S PROVE k + 1 \in S
    <2>1. m * (k + 1) = m * k + m /\ m * k \in Nat
      OBVIOUS
    <2>2. Pow(b, m * k + m) = Pow(b, m * k) * Pow(b, m)
      BY <2>1, PowSum
    <2>3. Pow(Pow(b, m), k + 1) = Pow(b, m) * Pow(Pow(b, m), k) /\ Pow(Pow(b, m), k) \in Int
      BY <1>1, PowRec
    <2>4. Pow(b, m * k) = Pow(Pow(b, m), k)
      BY <1>3
    <2> QED
      BY <1>1, <2>1, <2>2, <2>3, <2>4
  <1> HIDE DEF S
  <1>4. n \in S
    BY <1>2, <1>3, Induction
  <1> QED
    BY <1>4 DEF S

LEMMA PowGrows ==
  ASSUME NEW b \in Nat \ {0}, NEW m \in Nat, NEW n \in Nat, m <= n
  PROVE  Pow(b, m) <= Pow(b, n) /\ Pow(b, n) = Pow(b, m) * Pow(b, n - m)
  <1>1. n = m + (n - m) /\ n - m \in Nat /\ b \in Int
    OBVIOUS
  <1>2. Pow(b, n) = Pow(b, m) * Pow(b, n - m)
    BY <1>1, PowSum
  <1>3. Pow(b, m) \in Nat \ {0} /\ Pow(b, n - m) \in Nat \ {0}
    BY <1>1, PowPositive
  <1>4. \A p, q \in Nat \ {0} : p <= p * q
    OBVIOUS
  <1> QED
    BY <1>2, <1>3, <1>4

----------------------------------------------------------------------------

LEMMA DivMod ==
  ASSUME NEW n \in Nat \ {0}, NEW a \in Int
  PROVE  /\ a \div n \in Int /\ a % n \in 0 .. n - 1
         /\ a = n * (a \div n) + (a % n)
  OBVIOUS

LEMMA DivModUnique ==
  ASSUME NEW n \in Nat \ {0}, NEW q \in Int, NEW r \in 0 .. n - 1
  PROVE  (n * q + r) \div n = q /\ (n * q + r) % n = r
  OBVIOUS

LEMMA ModAddMultiple ==
  ASSUME NEW n \in Nat \ {0}, NEW a \in Int, NEW k \in Int
  PROVE  (a + n * k) % n = a % n /\ (a + n * k) \div n = a \div n + k
  <1>1. a \div n \in Int /\ a % n \in 0 .. n - 1 /\ a = n * (a \div n) + (a % n)
    BY DivMod
  <1>2. \A q \in Int : n * q + n * k = n * (q + k)
    OBVIOUS
  <1>3. a + n * k = n * (a \div n + k) + (a % n) /\ a \div n + k \in Int
    BY <1>1, <1>2
  <1> QED
    BY <1>1, <1>3, DivModUnique

LEMMA ModSmall ==
  ASSUME NEW n \in Nat \ {0}, NEW a \in 0 .. n - 1
  PROVE  a % n = a /\ a \div n = 0
  OBVIOUS

\* Numbers that differ by a multiple of n have the same remainder, and only those.
Same(n, a, b) == \E k \in Int : a = b + n * k

LEMMA SameIsMod ==
  ASSUME NEW n \in Nat \ {0}, NEW a \in Int, NEW b \in Int
  PROVE  (a % n = b % n) <=> Same(n, a, b)
  <1>1. ASSUME Same(n, a, b) PROVE a % n = b % n
    BY <1>1, ModAddMultiple DEF Same
  <1>2. ASSUME a % n = b % n PROVE Same(n, a, b)
    <2>1. /\ a \div n \in Int /\ b \div n \in Int /\ a % n \in Int
          /\ a = n * (a \div n) + (a % n) /\ b = n * (b \div n) + (b % n)
      BY DivMod
    <2>2. \A q, r, s \in Int : n * q + s = (n * r + s) + n * (q - r)
      OBVIOUS
    <2>3. a = b + n * (a \div n - b \div n) /\ a \div n - b \div n \in Int
      BY <1>2, <2>1, <2>2
    <2> QED
      BY <2>3 DEF Same
  <1> QED
    BY <1>1, <1>2

LEMMA SameCut ==
  ASSUME NEW n \in Nat \ {0}, NEW a \in Int
  PROVE  Same(n, a, a % n) /\ Same(n, a % n, a) /\ Same(n, a, a)
  <1>1. a % n \in 0 .. n - 1
    BY DivMod
  <1>2. a % n \in Int /\ (a % n) % n = a % n
    BY <1>1, ModSmall
  <1> QED
    BY <1>2, SameIsMod

LEMMA SameSums ==
  ASSUME NEW n \in Nat \ {0}, NEW a \in Int, NEW b \in Int, NEW c \in Int, NEW d \in Int,
         Same(n, a, b), Same(n, c, d)
  PROVE  Same(n, a + c, b + d) /\ Same(n, a - c, b - d) /\ Same(n, a * c, b * d)
  <1>1. PICK k \in Int : a = b + n * k
    BY DEF Same
  <1>2. PICK l \in Int : c = d + n * l
    BY DEF Same
  <1>3. a + c = (b + d) + n * (k + l) /\ a - c = (b - d) + n * (k - l)
    BY <1>1, <1>2
  <1>4. a * c = b * d + n * (k * d + b * l + n * k * l)
    BY <1>1, <1>2
  <1>5. Same(n, a + c, b + d) /\ Same(n, a - c, b - d)
    <2>1. k + l \in Int /\ k - l \in Int
      OBVIOUS
    <2> QED
      BY <1>3, <2>1 DEF Same
  <1>6. Same(n, a * c, b * d)
    <2> DEFINE m == k * d + b * l + n * k * l
    <2>1. m \in Int /\ a * c = b * d + n * m
      BY <1>4
    <2> HIDE DEF m
    <2> QED
      BY <2>1 DEF Same
  <1> QED
    BY <1>5, <1>6

LEMMA SameChain ==
  ASSUME NEW n \in Nat \ {0}, NEW a \in Int, NEW b \in Int, NEW c \in Int,
         Same(n, a, b), Same(n, b, c)
  PROVE  Same(n, a, c) /\ Same(n, b, a)
  BY SameIsMod

LEMMA SameDivision ==
  ASSUME NEW n \in Nat \ {0}, NEW a \in Int, NEW b \in Int, NEW q \in Int, NEW r \in Int,
         NEW sa \in Int, NEW sb \in Int, NEW c \in Int, NEW m \in Int,
         Same(n, sa, a), Same(n, sb, b), Same(n, q, c), Same(n, r, m), c * sb + m = sa
  PROVE  Same(n, q * b + r, a) /\ q * b + r \in Int
  <1>0. Same(n, b, sb)
    BY SameIsMod
  <1>1. Same(n, q * b, c * sb)
    BY <1>0, SameSums
  <1>2. q * b \in Int /\ c * sb \in Int
    OBVIOUS
  <1>3. Same(n, q * b + r, c * sb + m)
    BY <1>1, <1>2, SameSums
  <1>4. q * b + r \in Int
    BY <1>2
  <1> QED
    BY <1>3, <1>4, SameChain

\* Of numbers that agree modulo a multiple of n the remainders agree.
LEMMA SameFactor ==
  ASSUME NEW n \in Nat \ {0}, NEW m \in Nat \ {0}, NEW a \in Int, NEW b \in Int,
         Same(n * m, a, b)
  PROVE  Same(n, a, b)
  <1>1. PICK k \in Int : a = b + (n * m) * k
    BY DEF Same
  <1>2. a = b + n * (m * k) /\ m * k \in Int
    BY <1>1
  <1> QED
    BY <1>2 DEF Same

----------------------------------------------------------------------------
(* Words.                                                                  *)

LEMMA TwoPow ==
  ASSUME NEW w \in Nat
  PROVE  /\ Pow(2, w) \in Nat \ {0} /\ Pow(2, w + 1) = 2 * Pow(2, w)
         /\ w > 0 => w - 1 \in Nat /\ Pow(2, w) = 2 * Pow(2, w - 1) /\ Pow(2, w - 1) \in Nat \ {0}
  <1>1. \A n \in Nat : Pow(2, n) \in Nat \ {0} /\ Pow(2, n + 1) = 2 * Pow(2, n)
    <2>1. 2 \in Nat \ {0} /\ 2 \in Int
      OBVIOUS
    <2> QED
      BY <2>1, PowPositive, PowRec
  <1>2. ASSUME w > 0 PROVE w - 1 \in Nat /\ w = (w - 1) + 1
    BY <1>2
  <1> QED
    BY <1>1, <1>2

\* A cut number is a word, and congruent to the whole one.
LEMMA CutIsWord ==
  ASSUME NEW w \in Nat, NEW n \in Int
  PROVE  Cut(w, n) \in Word(w) /\ Cut(w, n) \in Nat /\ Same(Pow(2, w), Cut(w, n), n)
  <1>1. Pow(2, w) \in Nat \ {0}
    BY TwoPow
  <1>2. n % Pow(2, w) \in 0 .. Pow(2, w) - 1 /\ Same(Pow(2, w), n % Pow(2, w), n)
    BY <1>1, DivMod, SameCut
  <1> QED
    BY <1>1, <1>2 DEF Cut, Word

LEMMA CutWord ==
  ASSUME NEW w \in Nat, NEW a \in Word(w)
  PROVE  Cut(w, a) = a /\ a \in Nat
  <1>1. Pow(2, w) \in Nat \ {0}
    BY TwoPow
  <1> QED
    BY <1>1, ModSmall DEF Cut, Word

LEMMA CutsAgree ==
  ASSUME NEW w \in Nat, NEW m \in Int, NEW n \in Int
  PROVE  (Cut(w, m) = Cut(w, n)) <=> Same(Pow(2, w), m, n)
  <1>1. Pow(2, w) \in Nat \ {0}
    BY TwoPow
  <1> QED
    BY <1>1, SameIsMod DEF Cut

\* What agrees on more bits agrees on fewer.
LEMMA SameOnFewer ==
  ASSUME NEW w \in Nat, NEW v \in Nat, w <= v, NEW m \in Int, NEW n \in Int,
         Same(Pow(2, v), m, n)
  PROVE  Same(Pow(2, w), m, n)
  <1>1. /\ Pow(2, w) \in Nat \ {0} /\ v - w \in Nat /\ Pow(2, v - w) \in Nat \ {0}
    BY TwoPow
  <1>2. Pow(2, v) = Pow(2, w) * Pow(2, v - w)
    <2>1. 2 \in Nat \ {0}
      OBVIOUS
    <2> QED
      BY <2>1, PowGrows
  <1> QED
    BY <1>1, <1>2, SameFactor

LEMMA CutTwice ==
  ASSUME NEW w \in Nat, NEW v \in Nat, w <= v, NEW n \in Int
  PROVE  Cut(w, Cut(v, n)) = Cut(w, n)
  <1>1. Cut(v, n) \in Nat /\ Same(Pow(2, v), Cut(v, n), n)
    BY CutIsWord
  <1>2. Same(Pow(2, w), Cut(v, n), n)
    BY <1>1, SameOnFewer
  <1> QED
    BY <1>1, <1>2, CutsAgree

LEMMA SignIsSame ==
  ASSUME NEW w \in Nat \ {0}, NEW a \in Word(w)
  PROVE  /\ Sign(w, a) \in Int /\ Same(Pow(2, w), Sign(w, a), a)
         /\ Sign(w, a) >= -Pow(2, w - 1) /\ Sign(w, a) < Pow(2, w - 1)
  <1>1. Pow(2, w) \in Nat \ {0} /\ Pow(2, w) = 2 * Pow(2, w - 1) /\ Pow(2, w - 1) \in Nat \ {0}
    BY TwoPow
  <1>2. a \in 0 .. Pow(2, w) - 1
    BY DEF Word
  <1>3. a = a + Pow(2, w) * 0 /\ a - Pow(2, w) = a + Pow(2, w) * (-1)
    BY <1>1, <1>2
  <1>4. Same(Pow(2, w), a, a) /\ Same(Pow(2, w), a - Pow(2, w), a)
    BY <1>1, <1>2, <1>3 DEF Same
  <1> QED
    BY <1>1, <1>2, <1>4 DEF Sign

\* The sign of the extended word is that of the word.
LEMMA SignOfExtended ==
  ASSUME NEW w \in Nat \ {0}, NEW v \in Nat, w < v, NEW a \in Word(w)
  PROVE  Sign(v, bS(w, v, a)) = Sign(w, a)
  <1> DEFINE s == Sign(w, a)
  <1>1. s \in Int /\ s >= -Pow(2, w - 1) /\ s < Pow(2, w - 1)
    BY SignIsSame
  <1>2. /\ Pow(2, v) \in Nat \ {0} /\ Pow(2, v) = 2 * Pow(2, v - 1)
        /\ Pow(2, v - 1) \in Nat \ {0} /\ Pow(2, w - 1) \in Nat \ {0}
    BY TwoPow
  <1>3. Pow(2, w - 1) <= Pow(2, v - 1)
    <2>1. 2 \in Nat \ {0} /\ w - 1 \in Nat /\ v - 1 \in Nat /\ w - 1 <= v - 1
      OBVIOUS
    <2> QED
      BY <2>1, PowGrows
  <1> HIDE DEF s
  <1>4. CASE s >= 0
    <2>1. s \in 0 .. Pow(2, v) - 1
      BY <1>1, <1>2, <1>3, <1>4
    <2>2. Cut(v, s) = s
      BY <1>2, <2>1, ModSmall DEF Cut
    <2> QED
      BY <1>1, <1>2, <1>3, <2>2 DEF Sign, bS, s
  <1>5. CASE s < 0
    <2>1. s + Pow(2, v) \in 0 .. Pow(2, v) - 1
      BY <1>1, <1>2, <1>3, <1>5
    <2>2. s = (s + Pow(2, v)) + Pow(2, v) * (-1)
      BY <1>1, <1>2
    <2>3. s % Pow(2, v) = (s + Pow(2, v)) % Pow(2, v)
      BY <1>2, <2>1, <2>2, ModAddMultiple
    <2>4. Cut(v, s) = s + Pow(2, v)
      BY <1>2, <2>1, <2>3, ModSmall DEF Cut
    <2>5. 2 * (s + Pow(2, v)) >= Pow(2, v)
      BY <1>1, <1>2, <1>3
    <2> QED
      BY <1>1, <1>2, <2>4, <2>5 DEF Sign, bS, s
  <1> QED
    BY <1>1, <1>4, <1>5

----------------------------------------------------------------------------
(* The bits of numbers.                                                    *)

BitSteps(ones, a, b) ==
  /\ BitsWhere(ones, 0, a, b) = 0
  /\ \A n \in Nat : BitsWhere(ones, n, a, b) \in Int
  /\ \A n \in Nat : <<BitAt(a, n), BitAt(b, n)>> \in ones =>
       BitsWhere(ones, n + 1, a, b) = BitsWhere(ones, n, a, b) + Pow(2, n)
  /\ \A n \in Nat : <<BitAt(a, n), BitAt(b, n)>> \notin ones =>
       BitsWhere(ones, n + 1, a, b) = BitsWhere(ones, n, a, b)

LEMMA BitsRec ==
  ASSUME NEW ones, NEW a \in Int, NEW b \in Int
  PROVE  BitSteps(ones, a, b)
  <1> DEFINE Add(i) == IF <<BitAt(a, i - 1), BitAt(b, i - 1)>> \in ones THEN Pow(2, i - 1) ELSE 0
             Def(p) == p = [i \in Nat |-> IF i = 0 THEN 0 ELSE p[i - 1] + Add(i)]
             P == CHOOSE p : Def(p)
             g == [q \in (Nat \ {0}) \X Int |-> q[2] + Add(q[1])]
  <1>0. \A i \in Nat \ {0} : Add(i) \in Int
    BY TwoPow
  <1>1. PICK f \in [Nat -> Int] : Forever(f, 0, g)
    <2>1. g \in [(Nat \ {0}) \X Int -> Int] /\ 0 \in Int
      <3> HIDE DEF Add
      <3> QED
        BY <1>0
    <2> HIDE DEF g
    <2> QED
      BY <2>1, StepsForever
  <1>2. f[0] = 0 /\ \A i \in Nat \ {0} : f[i] = f[i - 1] + Add(i)
    <2>1. f[0] = 0 /\ \A i \in Nat \ {0} : f[i] = g[<<i, f[i - 1]>>]
      BY <1>1 DEF Forever
    <2>2. ASSUME NEW i \in Nat \ {0} PROVE <<i, f[i - 1]>> \in (Nat \ {0}) \X Int
      <3>1. i - 1 \in Nat
        OBVIOUS
      <3> QED
        BY <3>1
    <2> HIDE DEF Add
    <2> QED
      BY <2>1, <2>2
  <1>3. Def(f)
    <2> HIDE DEF Add
    <2> QED
      BY <1>2
  <1>4. Def(P)
    <2> HIDE DEF Def
    <2> QED
      BY <1>3
  <1>5. \A n \in Nat : BitsWhere(ones, n, a, b) = P[n]
    BY DEF BitsWhere
  <1> HIDE DEF P
  <1>6. P[0] = 0 /\ \A i \in Nat \ {0} : P[i] = P[i - 1] + Add(i)
    <2> HIDE DEF Add
    <2> QED
      BY <1>4
  <1>7. \A n \in Nat : P[n + 1] = P[n] + Add(n + 1)
    <2> HIDE DEF Add
    <2> TAKE n \in Nat
    <2>1. n + 1 \in Nat \ {0} /\ (n + 1) - 1 = n
      OBVIOUS
    <2> QED
      BY <1>6, <2>1
  <1> DEFINE S == {n \in Nat : P[n] \in Int}
  <1>8. \A n \in Nat : n \in S
    <2>1. 0 \in S
      BY <1>6
    <2>2. ASSUME NEW n \in Nat, n \in S PROVE n + 1 \in S
      <3>1. n + 1 \in Nat \ {0}
        OBVIOUS
      <3> HIDE DEF Add
      <3> QED
        BY <1>0, <1>7, <2>2, <3>1
    <2> HIDE DEF S
    <2> QED
      BY <2>1, <2>2, Induction
  <1>9. \A n \in Nat : Add(n + 1) = IF <<BitAt(a, n), BitAt(b, n)>> \in ones THEN Pow(2, n) ELSE 0
    <2> TAKE n \in Nat
    <2>1. (n + 1) - 1 = n
      OBVIOUS
    <2> QED
      BY <2>1
  <1> HIDE DEF Add
  <1>10. BitsWhere(ones, 0, a, b) = 0
    BY <1>5, <1>6
  <1>11. ASSUME NEW n \in Nat
         PROVE  /\ BitsWhere(ones, n, a, b) \in Int
                /\ BitsWhere(ones, n + 1, a, b) = BitsWhere(ones, n, a, b) + Add(n + 1)
    <2>1. n + 1 \in Nat
      OBVIOUS
    <2> QED
      BY <1>5, <1>7, <1>8, <2>1
  <1>12. ASSUME NEW n \in Nat, <<BitAt(a, n), BitAt(b, n)>> \in ones
         PROVE  BitsWhere(ones, n + 1, a, b) = BitsWhere(ones, n, a, b) + Pow(2, n)
    <2>1. Add(n + 1) = Pow(2, n)
      BY <1>9, <1>12
    <2> QED
      BY <1>11, <2>1
  <1>13. ASSUME NEW n \in Nat, <<BitAt(a, n), BitAt(b, n)>> \notin ones
         PROVE  BitsWhere(ones, n + 1, a, b) = BitsWhere(ones, n, a, b)
    <2>1. Add(n + 1) = 0
      BY <1>9, <1>13
    <2> QED
      BY <1>11, <2>1
  <1> QED
    BY <1>10, <1>11, <1>12, <1>13 DEF BitSteps

\* The bits below n make a word of n bits.
LEMMA BitsAreWord ==
  ASSUME NEW ones, NEW a \in Int, NEW b \in Int, NEW n \in Nat
  PROVE  BitsWhere(ones, n, a, b) \in Word(n)
  <1> DEFINE S == {k \in Nat : BitsWhere(ones, k, a, b) \in Word(k)}
  <1>1. 0 \in S
    <2>1. Pow(2, 0) = 1 /\ BitsWhere(ones, 0, a, b) = 0
      BY PowRec, BitsRec DEF BitSteps
    <2> QED
      BY <2>1 DEF Word
  <1>2. ASSUME NEW k \in Nat, k \in S PROVE k + 1 \in S
    <2>1. Pow(2, k) \in Nat \ {0} /\ Pow(2, k + 1) = 2 * Pow(2, k) /\ k + 1 \in Nat
      BY TwoPow
    <2>2. BitsWhere(ones, k, a, b) \in 0 .. Pow(2, k) - 1
      BY <1>2 DEF Word
    <2>3. \/ BitsWhere(ones, k + 1, a, b) = BitsWhere(ones, k, a, b) + Pow(2, k)
          \/ BitsWhere(ones, k + 1, a, b) = BitsWhere(ones, k, a, b)
      BY BitsRec, <2>2 DEF BitSteps
    <2>4. BitsWhere(ones, k + 1, a, b) \in 0 .. Pow(2, k + 1) - 1
      BY <2>1, <2>2, <2>3
    <2> QED
      BY <2>1, <2>4 DEF Word
  <1> HIDE DEF S
  <1>3. n \in S
    BY <1>1, <1>2, Induction
  <1> QED
    BY <1>3 DEF S

\* Numbers that agree on n bits have the same bits below n.
LEMMA SameBit ==
  ASSUME NEW n \in Nat, NEW i \in Nat, i < n, NEW a \in Int, NEW b \in Int, Same(Pow(2, n), a, b)
  PROVE  BitAt(a, i) = BitAt(b, i)
  <1>1. PICK k \in Int : a = b + Pow(2, n) * k
    BY DEF Same
  <1>2. n - (i + 1) \in Nat /\ i + 1 \in Nat
    OBVIOUS
  <1> DEFINE rest == Pow(2, n - (i + 1))
  <1>3. /\ Pow(2, i) \in Nat \ {0} /\ rest \in Nat \ {0} /\ Pow(2, i + 1) = 2 * Pow(2, i)
    BY <1>2, TwoPow
  <1>4. Pow(2, n) = Pow(2, i + 1) * rest
    <2>1. 2 \in Nat \ {0} /\ i + 1 <= n
      OBVIOUS
    <2> QED
      BY <1>2, <2>1, PowGrows
  <1> HIDE DEF rest
  <1>5. a = b + Pow(2, i) * (2 * (rest * k)) /\ rest * k \in Int
    BY <1>1, <1>3, <1>4
  <1>6. a \div Pow(2, i) = b \div Pow(2, i) + 2 * (rest * k)
    <2>1. 2 * (rest * k) \in Int
      BY <1>5
    <2> QED
      BY <1>3, <1>5, <2>1, ModAddMultiple
  <1>7. b \div Pow(2, i) \in Int /\ 2 \in Nat \ {0} /\ rest * k \in Int
    BY <1>3, <1>5
  <1> QED
    BY <1>6, <1>7, ModAddMultiple DEF BitAt

LEMMA SameBits ==
  ASSUME NEW ones, NEW w \in Nat, NEW v \in Nat, w <= v,
         NEW a \in Int, NEW b \in Int, NEW c \in Int, NEW d \in Int,
         Same(Pow(2, w), c, a), Same(Pow(2, w), d, b)
  PROVE  Cut(w, BitsWhere(ones, v, c, d)) = BitsWhere(ones, w, a, b)
  <1> DEFINE f(n) == BitsWhere(ones, n, a, b)
             h(n) == BitsWhere(ones, n, c, d)
             bit(n) == <<BitAt(a, n), BitAt(b, n)>> \in ones
             hit(n) == <<BitAt(c, n), BitAt(d, n)>> \in ones
             S == {n \in Nat : n <= w => h(n) = f(n)}
             T == {n \in Nat : Same(Pow(2, w), h(w + n), h(w))}
  <1>1. /\ f(0) = 0 /\ \A n \in Nat : f(n) \in Int
        /\ \A n \in Nat : bit(n) => f(n + 1) = f(n) + Pow(2, n)
        /\ \A n \in Nat : ~bit(n) => f(n + 1) = f(n)
    <2>1. BitSteps(ones, a, b)
      BY BitsRec
    <2> QED
      BY <2>1 DEF BitSteps
  <1>2. /\ h(0) = 0 /\ \A n \in Nat : h(n) \in Int
        /\ \A n \in Nat : hit(n) => h(n + 1) = h(n) + Pow(2, n)
        /\ \A n \in Nat : ~hit(n) => h(n + 1) = h(n)
    <2>1. BitSteps(ones, c, d)
      BY BitsRec
    <2> QED
      BY <2>1 DEF BitSteps
  <1>3. ASSUME NEW n \in Nat, n + 1 <= w PROVE bit(n) <=> hit(n)
    <2>1. n < w
      BY <1>3
    <2>2. BitAt(c, n) = BitAt(a, n) /\ BitAt(d, n) = BitAt(b, n)
      BY <2>1, SameBit
    <2> QED
      BY <2>2
  <1> HIDE DEF f, h, bit, hit
  <1>4. h(w) = f(w)
    <2>1. 0 \in S
      BY <1>1, <1>2
    <2>2. ASSUME NEW n \in Nat, n \in S PROVE n + 1 \in S
      <3>1. SUFFICES ASSUME n + 1 <= w PROVE h(n + 1) = f(n + 1)
        OBVIOUS
      <3>2. h(n) = f(n)
        BY <2>2, <3>1
      <3> QED
        BY <1>1, <1>2, <1>3, <3>1, <3>2
    <2>3. w \in S
      <3> HIDE DEF S
      <3> QED
        BY <2>1, <2>2, Induction
    <2> QED
      BY <2>3
  <1>5. Pow(2, w) \in Nat \ {0}
    BY TwoPow
  <1>6. v - w \in T
    <2>1. 0 \in T
      <3>1. w + 0 = w /\ h(w) \in Int
        BY <1>2
      <3>2. h(w) = h(w) + Pow(2, w) * 0
        BY <1>5, <3>1
      <3> QED
        BY <3>1, <3>2 DEF Same
    <2>2. ASSUME NEW n \in Nat, n \in T PROVE n + 1 \in T
      <3>1. w + n \in Nat /\ w + (n + 1) = (w + n) + 1
        OBVIOUS
      <3>2. Pow(2, w + n) = Pow(2, w) * Pow(2, n)
        BY PowSum
      <3>3. Pow(2, n) \in Int
        BY TwoPow
      <3>4. PICK k \in Int : h(w + n) = h(w) + Pow(2, w) * k
        BY <2>2 DEF Same
      <3>5. h(w) \in Int
        BY <1>2
      <3>6. CASE hit(w + n)
        <4>1. h((w + n) + 1) = h(w + n) + Pow(2, w + n)
          BY <1>2, <3>1, <3>6
        <4>2. h((w + n) + 1) = h(w) + Pow(2, w) * (k + Pow(2, n))
          BY <1>5, <3>2, <3>3, <3>4, <3>5, <4>1
        <4>3. k + Pow(2, n) \in Int
          BY <3>3
        <4> QED
          BY <3>1, <4>2, <4>3 DEF Same
      <3>7. CASE ~hit(w + n)
        <4>1. h((w + n) + 1) = h(w + n)
          BY <1>2, <3>1, <3>7
        <4> QED
          BY <3>1, <3>4, <4>1 DEF Same
      <3> QED
        BY <3>6, <3>7
    <2>3. v - w \in Nat
      OBVIOUS
    <2> HIDE DEF T
    <2> QED
      BY <2>1, <2>2, <2>3, Induction
  <1>7. Same(Pow(2, w), h(v), f(w))
    <2>1. w + (v - w) = v
      OBVIOUS
    <2> QED
      BY <1>4, <1>6, <2>1
  <1>8. f(w) \in Word(w)
    BY BitsAreWord DEF f
  <1>9. Cut(w, h(v)) = Cut(w, f(w))
    <2>1. h(v) \in Int /\ f(w) \in Int
      BY <1>1, <1>2
    <2> QED
      BY <1>7, <2>1, CutsAgree
  <1>10. Cut(w, f(w)) = f(w)
    BY <1>8, CutWord
  <1> QED
    BY <1>9, <1>10 DEF f, h

----------------------------------------------------------------------------
(* The operators, one equation each.                                       *)

LEMMA OperatorsAre ==
  ASSUME NEW w, NEW p, NEW a, NEW b
  PROVE  /\ BitsOp(w, p, "Plus", a, b) = Exact(w, p, a + b)
         /\ BitsOp(w, p, "Minus", a, b) = Exact(w, p, a - b)
         /\ BitsOp(w, p, "Times", a, b) = Exact(w, p, a * b)
         /\ BitsOp(w, p, "UDiv", a, b) = IF b = 0 THEN Undefined ELSE a \div b
         /\ BitsOp(w, p, "URem", a, b) = IF b = 0 THEN Undefined ELSE a % b
         /\ BitsOp(w, p, "SDiv", a, b) =
              IF DivUndefined(p, Sign(w, a), Sign(w, b)) THEN Undefined
              ELSE Cut(w, CQuot(Sign(w, a), Sign(w, b)))
         /\ BitsOp(w, p, "SRem", a, b) =
              IF DivUndefined(p, Sign(w, a), Sign(w, b)) THEN Undefined
              ELSE Cut(w, Sign(w, a) - Sign(w, b) * CQuot(Sign(w, a), Sign(w, b)))
         /\ BitsOp(w, p, "Lt", a, b) = Bool(a < b) /\ BitsOp(w, p, "Gt", a, b) = Bool(a > b)
         /\ BitsOp(w, p, "Eq", a, b) = Bool(a = b)
         /\ BitsOp(w, p, "Lte", a, b) = Bool(a <= b) /\ BitsOp(w, p, "Gte", a, b) = Bool(a >= b)
         /\ BitsOp(w, p, "Compl", a, b) = Cut(w, -a - 1)
         /\ BitsOp(w, p, "And", a, b) = BitAnd(w, a, b)
         /\ BitsOp(w, p, "Or", a, b) = BitOr(w, a, b)
         /\ BitsOp(w, p, "Xor", a, b) = BitXor(w, a, b)
         /\ BitsOp(w, p, "Shl", a, b) = Shifted_(w, p, b, a * Pow(2, b))
         /\ BitsOp(w, p, "LShr", a, b) = Shifted_(w, p, b, a \div Pow(2, b))
         /\ BitsOp(w, p, "AShr", a, b) =
              IF Sign(w, b) < 0 THEN Undefined
              ELSE Shifted_(w, p, Sign(w, b), Sign(w, a) \div Pow(2, Sign(w, b)))
  BY DEF BitsOp

----------------------------------------------------------------------------
(* An operation on words and the same one on longer words.                 *)

AgreeOn(o, w, p, v, r, a, b, ea, eb) ==
  BitsOp(w, p, o, a, b) # Undefined /\ BitsOp(v, r, o, ea, eb) # Undefined =>
    Cut(w, BitsOp(v, r, o, ea, eb)) = BitsOp(w, p, o, a, b)

\* Cuts of congruent numbers.
LEMMA ExactAgree ==
  ASSUME NEW w \in Nat, NEW p, NEW v \in Nat, NEW r, w <= v,
         NEW m \in Int, NEW n \in Int, Same(Pow(2, w), n, m),
         Exact(w, p, m) # Undefined, Exact(v, r, n) # Undefined
  PROVE  Cut(w, Exact(v, r, n)) = Exact(w, p, m)
  <1>1. Exact(w, p, m) = Cut(w, m) /\ Exact(v, r, n) = Cut(v, n)
    BY DEF Exact
  <1>2. Cut(w, Cut(v, n)) = Cut(w, n)
    BY CutTwice
  <1>3. Cut(w, n) = Cut(w, m)
    BY CutsAgree
  <1> QED
    BY <1>1, <1>2, <1>3

LEMMA ShiftedAgree ==
  ASSUME NEW w \in Nat, NEW p, NEW v \in Nat, NEW r, w <= v, NEW b, NEW n \in Int,
         Shifted_(w, p, b, n) # Undefined, Shifted_(v, r, b, n) # Undefined
  PROVE  Cut(w, Shifted_(v, r, b, n)) = Shifted_(w, p, b, n)
  BY CutTwice DEF Shifted_

LEMMA RingAgrees ==
  ASSUME NEW w \in Nat, NEW p, NEW v \in Nat, NEW r, w <= v, NEW o \in Ring,
         NEW a \in Nat, NEW b \in Nat, NEW ea \in Nat, NEW eb \in Nat,
         Same(Pow(2, w), ea, a), Same(Pow(2, w), eb, b)
  PROVE  AgreeOn(o, w, p, v, r, a, b, ea, eb)
  <1>0. Pow(2, w) \in Nat \ {0}
    BY TwoPow
  <1>1. /\ Same(Pow(2, w), ea + eb, a + b) /\ Same(Pow(2, w), ea - eb, a - b)
        /\ Same(Pow(2, w), ea * eb, a * b)
    BY <1>0, SameSums
  <1>2. /\ a + b \in Int /\ a - b \in Int /\ a * b \in Int
        /\ ea + eb \in Int /\ ea - eb \in Int /\ ea * eb \in Int
    OBVIOUS
  <1>3. CASE o = "Plus"
    BY <1>1, <1>2, <1>3, OperatorsAre, ExactAgree DEF AgreeOn
  <1>4. CASE o = "Minus"
    BY <1>1, <1>2, <1>4, OperatorsAre, ExactAgree DEF AgreeOn
  <1>5. CASE o = "Times"
    BY <1>1, <1>2, <1>5, OperatorsAre, ExactAgree DEF AgreeOn
  <1>6. CASE o = "Compl"
    <2>1. Same(Pow(2, w), -1, -1)
      <3>1. -1 = -1 + Pow(2, w) * 0
        BY <1>0
      <3> QED
        BY <3>1 DEF Same
    <2>2. Same(Pow(2, w), -1 - ea, -1 - a)
      BY <1>0, <2>1, SameSums
    <2>3. -1 - ea = -ea - 1 /\ -1 - a = -a - 1 /\ -ea - 1 \in Int /\ -a - 1 \in Int
      OBVIOUS
    <2>4. Cut(w, Cut(v, -ea - 1)) = Cut(w, -a - 1)
      BY <2>2, <2>3, CutTwice, CutsAgree
    <2> QED
      BY <1>6, <2>4, OperatorsAre DEF AgreeOn
  <1>7. CASE o \in {"And", "Or", "Xor"}
    <2>1. \A ones : Cut(w, BitsWhere(ones, v, ea, eb)) = BitsWhere(ones, w, a, b)
      BY SameBits
    <2> QED
      BY <1>7, <2>1, OperatorsAre DEF AgreeOn, BitAnd, BitOr, BitXor
  <1> QED
    BY <1>3, <1>4, <1>5, <1>6, <1>7 DEF Ring

\* Division of C: the quotient and the remainder are integers.
LEMMA CQuotInt ==
  ASSUME NEW a \in Int, NEW b \in Int, b # 0
  PROVE  CQuot(a, b) \in Int
  <1> DEFINE m == IF a < 0 THEN -a ELSE a
             d == IF b < 0 THEN -b ELSE b
  <1>1. m \in Int /\ d \in Nat \ {0}
    OBVIOUS
  <1> HIDE DEF m, d
  <1>2. m \div d \in Int
    BY <1>1, DivMod
  <1>3. CQuot(a, b) = IF (a < 0) = (b < 0) THEN m \div d ELSE -(m \div d)
    BY DEF CQuot, m, d
  <1> QED
    BY <1>2, <1>3

LEMMA SignedAgrees ==
  ASSUME NEW w \in Nat \ {0}, NEW p, NEW v \in Nat, NEW r, w < v, NEW o \in SignExtended,
         NEW a \in Word(w), NEW b \in Word(w)
  PROVE  AgreeOn(o, w, p, v, r, a, b, bS(w, v, a), bS(w, v, b))
  <1> DEFINE sa == Sign(w, a)
             sb == Sign(w, b)
             ea == bS(w, v, a)
             eb == bS(w, v, b)
  <1>1. sa \in Int /\ sb \in Int /\ Sign(v, ea) = sa /\ Sign(v, eb) = sb
    BY SignIsSame, SignOfExtended
  <1> HIDE DEF sa, sb, ea, eb
  <1>2. ASSUME o = "SDiv" \/ o = "SRem"
        PROVE  AgreeOn(o, w, p, v, r, a, b, ea, eb)
    <2>1. SUFFICES ASSUME ~DivUndefined(p, sa, sb), ~DivUndefined(r, sa, sb)
                   PROVE  AgreeOn(o, w, p, v, r, a, b, ea, eb)
      BY <1>1, <1>2, OperatorsAre DEF AgreeOn, sa, sb
    <2>2. sb # 0
      BY <2>1 DEF DivUndefined
    <2>3. CQuot(sa, sb) \in Int
      BY <1>1, <2>2, CQuotInt
    <2>4. sa - sb * CQuot(sa, sb) \in Int
      BY <1>1, <2>3
    <2>5. \A n \in Int : Cut(w, Cut(v, n)) = Cut(w, n)
      BY CutTwice
    <2>6. /\ BitsOp(w, p, "SDiv", a, b) = Cut(w, CQuot(sa, sb))
          /\ BitsOp(w, p, "SRem", a, b) = Cut(w, sa - sb * CQuot(sa, sb))
      BY <2>1, OperatorsAre DEF sa, sb
    <2>7. /\ BitsOp(v, r, "SDiv", ea, eb) = Cut(v, CQuot(sa, sb))
          /\ BitsOp(v, r, "SRem", ea, eb) = Cut(v, sa - sb * CQuot(sa, sb))
      BY <1>1, <2>1, OperatorsAre
    <2> QED
      BY <1>2, <2>3, <2>4, <2>5, <2>6, <2>7 DEF AgreeOn
  <1>3. ASSUME o = "AShr"
        PROVE  AgreeOn(o, w, p, v, r, a, b, ea, eb)
    <2>1. BitsOp(w, p, o, a, b) =
            IF sb < 0 THEN Undefined ELSE Shifted_(w, p, sb, sa \div Pow(2, sb))
      BY <1>3, OperatorsAre DEF sa, sb
    <2>2. BitsOp(v, r, o, ea, eb) =
            IF sb < 0 THEN Undefined ELSE Shifted_(v, r, sb, sa \div Pow(2, sb))
      BY <1>1, <1>3, OperatorsAre
    <2>3. CASE sb < 0
      BY <2>1, <2>3 DEF AgreeOn
    <2>4. CASE ~(sb < 0)
      <3>1. Pow(2, sb) \in Nat \ {0}
        BY <1>1, <2>4, TwoPow
      <3>2. sa \div Pow(2, sb) \in Int
        BY <1>1, <3>1
      <3> QED
        BY <2>1, <2>2, <2>4, <3>2, ShiftedAgree DEF AgreeOn
    <2> QED
      BY <2>3, <2>4
  <1>4. AgreeOn(o, w, p, v, r, a, b, ea, eb)
    BY <1>2, <1>3 DEF SignExtended
  <1> QED
    BY <1>4 DEF ea, eb

LEMMA BoolIsWord ==
  ASSUME NEW w \in Nat \ {0}, NEW t \in BOOLEAN
  PROVE  Bool(t) \in Word(w)
  BY TwoPow DEF Bool, Word

LEMMA UnsignedAgrees ==
  ASSUME NEW w \in Nat \ {0}, NEW p, NEW v \in Nat, NEW r, w < v,
         NEW o \in Operators, o \notin Ring, o \notin SignExtended,
         NEW a \in Word(w), NEW b \in Word(w)
  PROVE  AgreeOn(o, w, p, v, r, a, b, a, b)
  <1>0. a \in Nat /\ b \in Nat /\ \A n \in Word(w) : Cut(w, n) = n
    BY CutWord
  <1>1. CASE o \in {"Lt", "Gt", "Eq", "Lte", "Gte"}
    <2>1. Cut(w, 0) = 0 /\ Cut(w, 1) = 1
      <3>1. Bool(FALSE) \in Word(w) /\ Bool(TRUE) \in Word(w)
        BY BoolIsWord
      <3> QED
        BY <1>0, <3>1 DEF Bool
    <2>2. /\ BitsOp(w, p, "Lt", a, b) = BitsOp(v, r, "Lt", a, b)
          /\ BitsOp(w, p, "Gt", a, b) = BitsOp(v, r, "Gt", a, b)
          /\ BitsOp(w, p, "Eq", a, b) = BitsOp(v, r, "Eq", a, b)
          /\ BitsOp(w, p, "Lte", a, b) = BitsOp(v, r, "Lte", a, b)
          /\ BitsOp(w, p, "Gte", a, b) = BitsOp(v, r, "Gte", a, b)
      BY OperatorsAre
    <2>3. \A c \in {"Lt", "Gt", "Eq", "Lte", "Gte"} : BitsOp(w, p, c, a, b) \in {0, 1}
      BY OperatorsAre DEF Bool
    <2> QED
      BY <1>1, <2>1, <2>2, <2>3 DEF AgreeOn
  <1>2. CASE o \in {"UDiv", "URem"}
    <2>1. CASE b = 0
      BY <1>2, <2>1, OperatorsAre DEF AgreeOn
    <2>2. CASE b # 0
      <3>1. a \div b \in 0 .. a /\ a % b \in 0 .. a
        BY <1>0, <2>2
      <3>2. a \div b \in Word(w) /\ a % b \in Word(w)
        BY <1>0, <3>1, TwoPow DEF Word
      <3> QED
        BY <1>0, <1>2, <2>2, <3>2, OperatorsAre DEF AgreeOn
    <2> QED
      BY <2>1, <2>2
  <1>3. CASE o \in {"Shl", "LShr"}
    <2>1. Pow(2, b) \in Nat \ {0}
      BY <1>0, TwoPow
    <2>2. a * Pow(2, b) \in Int /\ a \div Pow(2, b) \in Int
      BY <1>0, <2>1
    <2> QED
      BY <1>3, <2>2, ShiftedAgree, OperatorsAre DEF AgreeOn
  <1> QED
    BY <1>1, <1>2, <1>3 DEF Operators, Ring, SignExtended

\* The int that C computes in.
Promoted(w) == IF w = W8 \/ w = W16 THEN IntBits ELSE Longer(w, IntBits)

LEMMA WidthsAre ==
  /\ Widths \subseteq Nat \ {0}
  /\ \A w \in Widths : \A o, a, b : WordOp(w, o, a, b) = BitsOp(w, Promoted(w), o, a, b)
  BY WidthsAssumption DEF Widths, WordOp, Promoted, b8Op, b16Op, b32Op, b64Op

LEMMA OperationsAgree ==
  ASSUME NEW w \in Widths, NEW v \in Widths, w < v, NEW o \in Operators,
         NEW a \in Word(w), NEW b \in Word(w)
  PROVE  Agree(o, w, v, a, b)
  <1>1. w \in Nat \ {0} /\ v \in Nat \ {0} /\ w \in Nat /\ v \in Nat /\ w <= v
    BY WidthsAre
  <1>2. SUFFICES ASSUME NEW ea \in Extensions(o, w, v, a), NEW eb \in Extensions(o, w, v, b)
                 PROVE  AgreeOn(o, w, Promoted(w), v, Promoted(v), a, b, ea, eb)
    BY WidthsAre DEF Agree, AgreeOn, bT
  <1>3. CASE o \in Ring
    <2>1. ASSUME NEW c \in Word(w), NEW ec \in {bZ(w, v, c), bS(w, v, c)}
          PROVE  ec \in Nat /\ Same(Pow(2, w), ec, c)
      <3>1. c \in Nat /\ Pow(2, w) \in Nat \ {0}
        BY <1>1, CutWord, TwoPow
      <3>2. CASE ec = bZ(w, v, c)
        BY <3>1, <3>2, SameCut DEF bZ
      <3>3. CASE ec = bS(w, v, c)
        <4>1. Sign(w, c) \in Int /\ Same(Pow(2, w), Sign(w, c), c)
          BY <1>1, SignIsSame
        <4>2. ec \in Nat /\ Same(Pow(2, v), ec, Sign(w, c))
          BY <1>1, <3>3, <4>1, CutIsWord DEF bS
        <4>3. Same(Pow(2, w), ec, Sign(w, c))
          BY <1>1, <4>1, <4>2, SameOnFewer
        <4> QED
          BY <3>1, <4>1, <4>2, <4>3, SameChain
      <3> QED
        BY <2>1, <3>2, <3>3
    <2>2. ea \in Nat /\ Same(Pow(2, w), ea, a) /\ eb \in Nat /\ Same(Pow(2, w), eb, b)
      BY <1>3, <2>1 DEF Extensions
    <2>3. a \in Nat /\ b \in Nat
      BY <1>1, CutWord
    <2> QED
      BY <1>1, <1>3, <2>2, <2>3, RingAgrees
  <1>4. CASE o \in SignExtended
    <2>1. o \notin Ring
      BY <1>4 DEF SignExtended, Ring
    <2>2. ea = bS(w, v, a) /\ eb = bS(w, v, b)
      BY <1>4, <2>1 DEF Extensions
    <2> QED
      BY <1>1, <1>4, <2>2, SignedAgrees
  <1>5. CASE o \notin Ring /\ o \notin SignExtended
    <2>1. ea = a /\ eb = b
      BY <1>5 DEF Extensions, bZ
    <2> QED
      BY <1>1, <1>5, <2>1, UnsignedAgrees
  <1> QED
    BY <1>3, <1>4, <1>5

----------------------------------------------------------------------------
(* Digits.                                                                 *)

LEMMA NumberRec ==
  ASSUME NEW b \in Int, NEW d, NEW n \in Nat, \A i \in 1 .. n : d[i] \in Int
  PROVE  /\ Number(b, d, 0) = 0
         /\ \A i \in 0 .. n : Number(b, d, i) \in Int
         /\ \A i \in 1 .. n : Number(b, d, i) = Number(b, d, i - 1) + d[i] * Pow(b, i - 1)
  <1> DEFINE Add(i) == d[i] * Pow(b, i - 1)
             Def(p, k) == p = [i \in 0 .. k |-> IF i = 0 THEN 0 ELSE p[i - 1] + Add(i)]
             P(k) == CHOOSE p : Def(p, k)
  <1>0. \A i \in 1 .. n : Add(i) \in Int
    <2> TAKE i \in 1 .. n
    <2>1. i - 1 \in Nat /\ d[i] \in Int
      OBVIOUS
    <2>2. Pow(b, i - 1) \in Int
      BY <2>1, PowRec
    <2> QED
      BY <2>1, <2>2
  <1> HIDE DEF Add
  <1>1. ASSUME NEW k \in 0 .. n
        PROVE  P(k) \in [0 .. k -> Int] /\ P(k)[0] = 0 /\ \A i \in 1 .. k : P(k)[i] = P(k)[i - 1] + Add(i)
    <2> DEFINE g == [q \in (1 .. k) \X Int |-> q[2] + Add(q[1])]
    <2>1. g \in [(1 .. k) \X Int -> Int] /\ 0 \in Int /\ k \in Nat
      BY <1>0
    <2>2. PICK f \in [0 .. k -> Int] : Steps(f, k, 0, g)
      <3> HIDE DEF g
      <3> QED
        BY <2>1, StepsExist
    <2>3. ASSUME NEW i \in 1 .. k PROVE f[i] = f[i - 1] + Add(i)
      <3>1. i - 1 \in 0 .. k
        OBVIOUS
      <3>2. <<i, f[i - 1]>> \in (1 .. k) \X Int
        BY <3>1
      <3>3. f[i] = g[<<i, f[i - 1]>>]
        BY <2>2 DEF Steps
      <3> QED
        BY <3>2, <3>3
    <2>4. f[0] = 0
      BY <2>2 DEF Steps
    <2>5. Def(f, k)
      BY <2>3, <2>4
    <2>6. Def(P(k), k)
      <3> HIDE DEF Def
      <3> QED
        BY <2>5
    <2> DEFINE p == P(k)
    <2> HIDE DEF P
    <2>7. p[0] = 0 /\ \A i \in 1 .. k : p[i] = p[i - 1] + Add(i)
      BY <2>6
    <2>8. p = [i \in 0 .. k |-> p[i]]
      BY <2>6
    <2> HIDE DEF p
    <2> DEFINE S == {i \in Nat : i \in 0 .. k => p[i] \in Int}
    <2>9. \A i \in Nat : i \in S
      <3>1. 0 \in S
        BY <2>7
      <3>2. ASSUME NEW i \in Nat, i \in S PROVE i + 1 \in S
        <4>1. SUFFICES ASSUME i + 1 \in 1 .. k PROVE p[i + 1] \in Int
          OBVIOUS
        <4>2. i \in 0 .. k /\ (i + 1) - 1 = i /\ i + 1 \in 1 .. n
          BY <4>1
        <4>3. p[i] \in Int /\ p[i + 1] = p[i] + Add(i + 1)
          BY <2>7, <3>2, <4>1, <4>2
        <4> QED
          BY <1>0, <4>2, <4>3
      <3> HIDE DEF S
      <3> QED
        BY <3>1, <3>2, Induction
    <2>10. \A i \in 0 .. k : p[i] \in Int
      BY <2>9
    <2>11. p \in [0 .. k -> Int]
      BY <2>8, <2>10
    <2> QED
      BY <2>7, <2>11 DEF p
  <1>2. \A k \in Nat : Number(b, d, k) = P(k)[k]
    BY DEF Number, Add
  <1> HIDE DEF P
  <1>3. ASSUME NEW k \in 1 .. n PROVE P(k)[k - 1] = P(k - 1)[k - 1]
    <2> DEFINE S == {i \in Nat : i <= k - 1 => P(k)[i] = P(k - 1)[i]}
    <2>0. k \in 0 .. n /\ k - 1 \in 0 .. n /\ k - 1 \in Nat
      OBVIOUS
    <2>1. 0 \in S
      BY <1>1, <2>0
    <2>2. ASSUME NEW i \in Nat, i \in S PROVE i + 1 \in S
      <3>1. SUFFICES ASSUME i + 1 <= k - 1 PROVE P(k)[i + 1] = P(k - 1)[i + 1]
        OBVIOUS
      <3>2. i + 1 \in 1 .. k /\ i + 1 \in 1 .. k - 1 /\ (i + 1) - 1 = i /\ i <= k - 1
        BY <3>1
      <3>3. P(k)[i] = P(k - 1)[i]
        BY <2>2, <3>2
      <3>4. P(k)[i + 1] = P(k)[i] + Add(i + 1) /\ P(k - 1)[i + 1] = P(k - 1)[i] + Add(i + 1)
        BY <1>1, <2>0, <3>2
      <3> QED
        BY <3>3, <3>4
    <2>3. k - 1 \in S
      <3> HIDE DEF S
      <3> QED
        BY <2>0, <2>1, <2>2, Induction
    <2> QED
      BY <2>3
  <1>4. ASSUME NEW i \in 1 .. n PROVE Number(b, d, i) = Number(b, d, i - 1) + Add(i)
    <2>1. i \in 0 .. n /\ i \in Nat /\ i - 1 \in Nat /\ i \in 1 .. i
      OBVIOUS
    <2> QED
      BY <1>1, <1>2, <1>3, <2>1
  <1>5. ASSUME NEW i \in 0 .. n PROVE Number(b, d, i) \in Int
    <2>1. i \in Nat /\ i \in 0 .. i
      OBVIOUS
    <2> QED
      BY <1>1, <1>2, <2>1
  <1>6. Number(b, d, 0) = 0
    BY <1>1, <1>2
  <1> QED
    BY <1>4, <1>5, <1>6 DEF Add

LEMMA NumberSame ==
  ASSUME NEW b \in Int, NEW n \in Nat, NEW d, NEW e,
         \A i \in 1 .. n : d[i] \in Int /\ e[i] = d[i]
  PROVE  Number(b, d, n) = Number(b, e, n)
  <1> DEFINE S == {i \in Nat : i <= n => Number(b, d, i) = Number(b, e, i)}
  <1>1. /\ Number(b, d, 0) = 0
        /\ \A i \in 1 .. n : Number(b, d, i) = Number(b, d, i - 1) + d[i] * Pow(b, i - 1)
    BY NumberRec
  <1>2. /\ Number(b, e, 0) = 0
        /\ \A i \in 1 .. n : Number(b, e, i) = Number(b, e, i - 1) + e[i] * Pow(b, i - 1)
    BY NumberRec
  <1>3. 0 \in S
    BY <1>1, <1>2
  <1>4. ASSUME NEW i \in Nat, i \in S PROVE i + 1 \in S
    <2>1. SUFFICES ASSUME i + 1 <= n PROVE Number(b, d, i + 1) = Number(b, e, i + 1)
      OBVIOUS
    <2>2. i + 1 \in 1 .. n /\ (i + 1) - 1 = i /\ i <= n
      BY <2>1
    <2>3. Number(b, d, i) = Number(b, e, i) /\ e[i + 1] = d[i + 1]
      BY <1>4, <2>2
    <2> QED
      BY <1>1, <1>2, <2>2, <2>3
  <1> HIDE DEF S
  <1>5. n \in S
    BY <1>3, <1>4, Induction
  <1> QED
    BY <1>5 DEF S

IsDigits(b, d, n) == \A i \in 1 .. n : d[i] \in 0 .. b - 1

LEMMA NumberBounds ==
  ASSUME NEW b \in Nat \ {0}, NEW n \in Nat, NEW d, IsDigits(b, d, n)
  PROVE  Number(b, d, n) \in 0 .. Pow(b, n) - 1
  <1> DEFINE S == {i \in Nat : i <= n => Number(b, d, i) \in 0 .. Pow(b, i) - 1}
  <1>0. b \in Int /\ \A i \in 1 .. n : d[i] \in Int
    BY DEF IsDigits
  <1>1. /\ Number(b, d, 0) = 0
        /\ \A i \in 1 .. n : Number(b, d, i) = Number(b, d, i - 1) + d[i] * Pow(b, i - 1)
    BY <1>0, NumberRec
  <1>2. Pow(b, 0) = 1 /\ \A i \in Nat : Pow(b, i + 1) = b * Pow(b, i)
    BY <1>0, PowRec
  <1>3. \A i \in Nat : Pow(b, i) \in Nat \ {0}
    BY PowPositive
  <1>4. 0 \in S
    BY <1>1, <1>2
  <1>5. ASSUME NEW i \in Nat, i \in S PROVE i + 1 \in S
    <2>1. SUFFICES ASSUME i + 1 <= n PROVE Number(b, d, i + 1) \in 0 .. Pow(b, i + 1) - 1
      OBVIOUS
    <2>2. i + 1 \in 1 .. n /\ (i + 1) - 1 = i /\ i <= n
      BY <2>1
    <2>3. /\ Number(b, d, i) \in 0 .. Pow(b, i) - 1 /\ d[i + 1] \in 0 .. b - 1
          /\ Number(b, d, i + 1) = Number(b, d, i) + d[i + 1] * Pow(b, i)
          /\ Pow(b, i + 1) = b * Pow(b, i)
      BY <1>1, <1>2, <1>5, <2>2 DEF IsDigits
    <2>4. \A p \in Nat \ {0} : \A v \in 0 .. p - 1 : \A c \in 0 .. b - 1 :
            v + c * p \in 0 .. b * p - 1
      <3> TAKE p \in Nat \ {0}
      <3> TAKE v \in 0 .. p - 1
      <3> TAKE c \in 0 .. b - 1
      <3>1. c * p \in Nat /\ (b - 1 - c) * p \in Nat /\ (b - 1 - c) * p = b * p - p - c * p
        OBVIOUS
      <3> QED
        BY <3>1
    <2> QED
      BY <1>3, <2>3, <2>4
  <1> HIDE DEF S
  <1>6. n \in S
    BY <1>4, <1>5, Induction
  <1> QED
    BY <1>6 DEF S

\* The digits from j on are a multiple of the power of j.
LEMMA NumberSplit ==
  ASSUME NEW b \in Nat \ {0}, NEW n \in Nat, NEW d, IsDigits(b, d, n), NEW j \in 0 .. n
  PROVE  \E m \in Nat : Number(b, d, n) = Number(b, d, j) + Pow(b, j) * m
  <1> DEFINE S == {i \in Nat : j + i <= n =>
                     \E m \in Nat : Number(b, d, j + i) = Number(b, d, j) + Pow(b, j) * m}
  <1>0. b \in Int /\ (\A i \in 1 .. n : d[i] \in Int) /\ j \in Nat
    BY DEF IsDigits
  <1>1. /\ \A i \in 1 .. n : Number(b, d, i) = Number(b, d, i - 1) + d[i] * Pow(b, i - 1)
        /\ \A i \in 0 .. n : Number(b, d, i) \in Int
    BY <1>0, NumberRec
  <1>2. Pow(b, j) \in Nat \ {0}
    BY <1>0, PowPositive
  <1>3. 0 \in S
    <2>1. j + 0 = j /\ Number(b, d, j) \in Int
      BY <1>1
    <2>2. Number(b, d, j) = Number(b, d, j) + Pow(b, j) * 0
      BY <1>2, <2>1
    <2> QED
      BY <2>1, <2>2
  <1>4. ASSUME NEW i \in Nat, i \in S PROVE i + 1 \in S
    <2>1. SUFFICES ASSUME j + (i + 1) <= n
                   PROVE  \E m \in Nat : Number(b, d, j + (i + 1)) = Number(b, d, j) + Pow(b, j) * m
      OBVIOUS
    <2>2. j + (i + 1) \in 1 .. n /\ (j + (i + 1)) - 1 = j + i /\ j + i <= n
      BY <2>1
    <2>3. PICK m \in Nat : Number(b, d, j + i) = Number(b, d, j) + Pow(b, j) * m
      BY <1>4, <2>2
    <2>4. Number(b, d, j + (i + 1)) = Number(b, d, j + i) + d[j + (i + 1)] * Pow(b, j + i)
      BY <1>1, <2>2
    <2>5. Pow(b, j + i) = Pow(b, j) * Pow(b, i) /\ Pow(b, i) \in Nat /\ d[j + (i + 1)] \in Nat
      BY <1>0, <2>2, PowSum, PowPositive DEF IsDigits
    <2>6. Number(b, d, j) \in Int
      BY <1>1
    <2> DEFINE e == d[j + (i + 1)]
               k == m + e * Pow(b, i)
    <2>7. k \in Nat
      BY <2>5
    <2>8. Number(b, d, j + (i + 1)) = Number(b, d, j) + Pow(b, j) * k
      <3> HIDE DEF e
      <3>1. \A v \in Int : \A p, q, c, l \in Nat : (v + p * l) + c * (p * q) = v + p * (l + c * q)
        OBVIOUS
      <3>2. e \in Nat
        BY <2>5 DEF e
      <3>3. (Number(b, d, j) + Pow(b, j) * m) + e * (Pow(b, j) * Pow(b, i))
              = Number(b, d, j) + Pow(b, j) * (m + e * Pow(b, i))
        BY <1>2, <2>5, <2>6, <3>1, <3>2
      <3> QED
        BY <2>3, <2>4, <2>5, <3>3 DEF e
    <2> HIDE DEF k
    <2> QED
      BY <2>7, <2>8
  <1> HIDE DEF S
  <1>5. n - j \in S
    <2>1. n - j \in Nat
      OBVIOUS
    <2> QED
      BY <1>3, <1>4, <2>1, Induction
  <1>6. j + (n - j) = n
    OBVIOUS
  <1> QED
    BY <1>5, <1>6 DEF S

LEMMA NumberDigit ==
  ASSUME NEW b \in Nat \ {0}, NEW n \in Nat, NEW d, IsDigits(b, d, n), NEW j \in 1 .. n
  PROVE  (Number(b, d, n) \div Pow(b, j - 1)) % b = d[j]
  <1>0. b \in Int /\ (\A i \in 1 .. n : d[i] \in Int) /\ j \in Nat /\ j - 1 \in Nat
        /\ d[j] \in 0 .. b - 1 /\ j \in 0 .. n /\ (j - 1) + 1 = j
    BY DEF IsDigits
  <1> DEFINE p == Pow(b, j - 1)
             v == Number(b, d, j - 1)
  <1>1. PICK m \in Nat : Number(b, d, n) = Number(b, d, j) + Pow(b, j) * m
    BY <1>0, NumberSplit
  <1>2. Number(b, d, j) = v + d[j] * p
    BY <1>0, NumberRec
  <1>3. p \in Nat \ {0} /\ Pow(b, j) = b * p
    BY <1>0, PowPositive, PowRec
  <1>4. v \in 0 .. p - 1
    <2>1. IsDigits(b, d, j - 1)
      BY DEF IsDigits
    <2> QED
      BY <1>0, <2>1, NumberBounds
  <1> HIDE DEF p, v
  <1>5. Number(b, d, n) = p * (d[j] + b * m) + v /\ d[j] + b * m \in Int
    BY <1>0, <1>1, <1>2, <1>3, <1>4
  <1>6. Number(b, d, n) \div p = d[j] + b * m
    BY <1>3, <1>4, <1>5, DivModUnique
  <1>7. (d[j] + b * m) % b = d[j]
    <2>1. d[j] \in Int /\ m \in Int
      BY <1>0
    <2>2. (d[j] + b * m) % b = d[j] % b
      BY <2>1, ModAddMultiple
    <2> QED
      BY <1>0, <2>2, ModSmall
  <1> QED
    BY <1>6, <1>7 DEF p

\* The digits of a, put together again, are a without its higher digits.
LEMMA NumberOfDigits ==
  ASSUME NEW b \in Nat \ {0}, NEW n \in Nat, NEW d, NEW a \in Int,
         \A i \in 1 .. n : d[i] = (a \div Pow(b, i - 1)) % b
  PROVE  Number(b, d, n) = a % Pow(b, n) /\ IsDigits(b, d, n)
  <1> DEFINE S == {i \in Nat : i <= n => Number(b, d, i) = a % Pow(b, i)}
  <1>1. \A i \in Nat : Pow(b, i) \in Nat \ {0} /\ Pow(b, i + 1) = b * Pow(b, i) /\ Pow(b, 0) = 1
    <2>1. b \in Int
      OBVIOUS
    <2> QED
      BY <2>1, PowPositive, PowRec
  <1>2. IsDigits(b, d, n)
    <2> SUFFICES ASSUME NEW i \in 1 .. n PROVE d[i] \in 0 .. b - 1
      BY DEF IsDigits
    <2>1. i - 1 \in Nat
      OBVIOUS
    <2>2. a \div Pow(b, i - 1) \in Int
      BY <1>1, <2>1, DivMod
    <2> QED
      BY <2>2, DivMod
  <1>3. /\ Number(b, d, 0) = 0
        /\ \A i \in 1 .. n : Number(b, d, i) = Number(b, d, i - 1) + d[i] * Pow(b, i - 1)
    <2>1. b \in Int /\ \A i \in 1 .. n : d[i] \in Int
      BY <1>2 DEF IsDigits
    <2> QED
      BY <2>1, NumberRec
  <1>4. 0 \in S
    BY <1>1, <1>3
  <1>5. ASSUME NEW i \in Nat, i \in S PROVE i + 1 \in S
    <2>1. SUFFICES ASSUME i + 1 <= n PROVE Number(b, d, i + 1) = a % Pow(b, i + 1)
      OBVIOUS
    <2>2. i + 1 \in 1 .. n /\ (i + 1) - 1 = i /\ i <= n
      BY <2>1
    <2> DEFINE p == Pow(b, i)
               q == a \div p
    <2>3. p \in Nat \ {0} /\ Pow(b, i + 1) = b * p
      BY <1>1
    <2>4. Number(b, d, i + 1) = (a % p) + (q % b) * p
      BY <1>3, <1>5, <2>2
    <2> HIDE DEF p
    <2>5. q \in Int /\ a % p \in 0 .. p - 1 /\ a = p * q + (a % p)
      BY <2>3, DivMod
    <2> HIDE DEF q
    <2>6. q \div b \in Int /\ q % b \in 0 .. b - 1 /\ q = b * (q \div b) + (q % b)
      BY <2>5, DivMod
    <2> DEFINE r == a % p
               s == q % b
               t == q \div b
    <2>7. r \in 0 .. p - 1 /\ s \in 0 .. b - 1 /\ t \in Int /\ a = p * (b * t + s) + r
      BY <2>5, <2>6
    <2> HIDE DEF r, s, t
    <2>8. a = (b * p) * t + (r + s * p)
      BY <2>3, <2>7
    <2>9. r + s * p \in 0 .. b * p - 1
      <3>1. s * p \in Nat /\ (b - 1 - s) * p \in Nat /\ (b - 1 - s) * p = b * p - p - s * p
        BY <2>3, <2>7
      <3> QED
        BY <2>3, <2>7, <3>1
    <2>10. b * p \in Nat \ {0}
      BY <2>3
    <2>11. a % (b * p) = r + s * p
      <3> DEFINE bp == b * p
                 rest == r + s * p
      <3>1. bp \in Nat \ {0} /\ rest \in 0 .. bp - 1 /\ a = bp * t + rest /\ t \in Int
        BY <2>7, <2>8, <2>9, <2>10
      <3> HIDE DEF bp, rest
      <3>2. a % bp = rest
        BY <3>1, DivModUnique
      <3> QED
        BY <3>2 DEF bp, rest
    <2> QED
      BY <2>3, <2>4, <2>11 DEF r, s
  <1> HIDE DEF S
  <1>6. n \in S
    BY <1>4, <1>5, Induction
  <1> QED
    BY <1>2, <1>6 DEF S

----------------------------------------------------------------------------
(* Memory.                                                                 *)

Byte == Word(W8)
ByteBase == Pow(2, W8)

LEMMA BytesAre ==
  ASSUME NEW w \in Widths
  PROVE  /\ w \in Nat \ {0} /\ W8 \in Nat \ {0} /\ Bytes(w) \in Nat \ {0} /\ w = W8 * Bytes(w)
         /\ ByteBase \in Nat \ {0} /\ Byte = 0 .. ByteBase - 1
         /\ Pow(2, w) = Pow(ByteBase, Bytes(w))
         /\ \A k \in Nat : Pow(2, W8 * k) = Pow(ByteBase, k)
  <1>1. w \in Nat \ {0} /\ W8 \in Nat \ {0} /\ w % W8 = 0 /\ w >= W8
    <2>1. W8 % W8 = 0
      BY WidthsAssumption
    <2> QED
      BY <2>1, WidthsAssumption DEF Widths
  <1>2. w \div W8 \in Int /\ w = W8 * (w \div W8) + (w % W8)
    BY <1>1, DivMod
  <1>3. Bytes(w) \in Nat \ {0} /\ w = W8 * Bytes(w)
    <2>1. \A q \in Int : W8 * q + 0 = W8 * q /\ (W8 * q >= W8 => q > 0)
      BY <1>1
    <2> QED
      BY <1>1, <1>2, <2>1 DEF Bytes
  <1>4. ByteBase \in Nat \ {0} /\ Byte = 0 .. ByteBase - 1
    BY <1>1, TwoPow DEF ByteBase, Byte, Word
  <1>5. \A k \in Nat : Pow(2, W8 * k) = Pow(ByteBase, k)
    <2>1. 2 \in Int /\ W8 \in Nat
      BY <1>1
    <2> QED
      BY <2>1, PowProduct DEF ByteBase
  <1> QED
    BY <1>1, <1>3, <1>4, <1>5

\* The bytes of a, low byte first, are its digits.
LEMMA BytesOfWord ==
  ASSUME NEW w \in Widths, NEW a \in Int, NEW d,
         \A k \in 1 .. Bytes(w) : d[k] = Cut(W8, a \div Pow(2, W8 * (k - 1)))
  PROVE  Number(ByteBase, d, Bytes(w)) = Cut(w, a) /\ \A k \in 1 .. Bytes(w) : d[k] \in Byte
  <1>1. /\ Bytes(w) \in Nat /\ ByteBase \in Nat \ {0} /\ Pow(2, w) = Pow(ByteBase, Bytes(w))
        /\ Byte = 0 .. ByteBase - 1
    BY BytesAre
  <1>2. \A k \in 1 .. Bytes(w) : d[k] = (a \div Pow(ByteBase, k - 1)) % ByteBase
    <2> TAKE k \in 1 .. Bytes(w)
    <2>1. k - 1 \in Nat
      BY <1>1
    <2>2. Pow(2, W8 * (k - 1)) = Pow(ByteBase, k - 1)
      BY <2>1, BytesAre
    <2> QED
      BY <2>2 DEF Cut, ByteBase
  <1>3. Number(ByteBase, d, Bytes(w)) = a % Pow(ByteBase, Bytes(w)) /\ IsDigits(ByteBase, d, Bytes(w))
    BY <1>1, <1>2, NumberOfDigits
  <1> QED
    BY <1>1, <1>3 DEF Cut, IsDigits

\* What is loaded from bytes is a word with these bytes.
LEMMA PeekIsWord ==
  ASSUME NEW w \in Widths, NEW mem \in Seq(Byte), NEW off \in Nat, off + Bytes(w) <= Len(mem)
  PROVE  /\ peek(w, mem, off) \in Word(w)
         /\ \A k \in 1 .. Bytes(w) : Cut(W8, peek(w, mem, off) \div Pow(2, W8 * (k - 1))) = mem[off + k]
         /\ peek(w, mem, off) = Number(ByteBase, [k \in 1 .. Bytes(w) |-> mem[off + k]], Bytes(w))
  <1> DEFINE n == Bytes(w)
             d == [k \in 1 .. n |-> mem[off + k]]
             sub == SubSeq(mem, off + 1, off + n)
             a == peek(w, mem, off)
  <1>1. /\ n \in Nat \ {0} /\ ByteBase \in Nat \ {0} /\ Pow(2, w) = Pow(ByteBase, n)
        /\ Byte = 0 .. ByteBase - 1
    BY BytesAre
  <1> HIDE DEF n
  <1>2. \A k \in 1 .. n : off + k \in 1 .. Len(mem) /\ mem[off + k] \in Byte
    <2> TAKE k \in 1 .. n
    <2>1. off + k \in 1 .. Len(mem)
      BY <1>1 DEF n
    <2> QED
      BY <2>1
  <1>3. \A k \in 1 .. n : sub[k] = d[k] /\ d[k] \in Int
    <2> TAKE k \in 1 .. n
    <2>1. mem[off + k] \in Int
      <3>1. mem[off + k] \in 0 .. ByteBase - 1
        BY <1>1, <1>2
      <3> QED
        BY <1>1, <3>1
    <2>2. sub[k] = mem[(off + 1) + k - 1]
      <3>1. off + 1 \in Int /\ off + n \in Int /\ (off + n) - (off + 1) + 1 = n
        BY <1>1
      <3>2. ASSUME NEW i \in off + 1 .. off + n PROVE mem[i] \in Byte
        <4>1. i - off \in 1 .. n /\ off + (i - off) = i
          BY <1>1
        <4> QED
          BY <1>2, <4>1
      <3> QED
        BY <3>1, <3>2, SubSeqProperties
    <2>3. (off + 1) + k - 1 = off + k
      BY <1>1
    <2> QED
      BY <2>1, <2>2, <2>3
  <1>4. a = Number(ByteBase, d, n)
    <2>1. a = Number(ByteBase, sub, n)
      BY DEF peek, ByteBase, n
    <2> HIDE DEF a, d, sub
    <2>2. ByteBase \in Int /\ n \in Nat
      BY <1>1
    <2>3. Number(ByteBase, d, n) = Number(ByteBase, sub, n)
      BY <1>3, <2>2, NumberSame
    <2> QED
      BY <2>1, <2>3
  <1>5. IsDigits(ByteBase, d, n)
    BY <1>1, <1>2 DEF IsDigits
  <1> HIDE DEF a, sub
  <1>6. a \in Word(w)
    <2> HIDE DEF d
    <2> QED
      BY <1>1, <1>4, <1>5, NumberBounds DEF Word
  <1>7. ASSUME NEW k \in 1 .. n
        PROVE  Cut(W8, a \div Pow(2, W8 * (k - 1))) = d[k]
    <2> HIDE DEF d
    <2>1. k - 1 \in Nat
      BY <1>1
    <2>2. Pow(2, W8 * (k - 1)) = Pow(ByteBase, k - 1)
      BY <2>1, BytesAre
    <2>3. n \in Nat
      BY <1>1
    <2>4. (Number(ByteBase, d, n) \div Pow(ByteBase, k - 1)) % ByteBase = d[k]
      BY <1>1, <1>5, <2>3, NumberDigit
    <2> QED
      BY <1>4, <2>2, <2>4 DEF Cut, ByteBase
  <1> QED
    BY <1>4, <1>6, <1>7 DEF a, n

LEMMA StoredWord ==
  ASSUME NEW w \in Widths, NEW mem \in Seq(Byte), NEW a \in Word(w)
  PROVE  StoresAndLoads(w, mem, a)
  <1>0. Bytes(w) \in Nat \ {0} /\ Byte = 0 .. ByteBase - 1 /\ w \in Nat /\ Len(mem) \in Nat
    BY BytesAre
  <1>1. SUFFICES ASSUME NEW off \in 0 .. Len(mem) - Bytes(w)
        PROVE  LET now == poke(w, mem, off, a)
               IN  /\ peek(w, now, off) = a
                   /\ \A i \in 1 .. Len(mem) : now[i] # mem[i] => i > off /\ i <= off + Bytes(w)
                   /\ poke(w, now, off, peek(w, mem, off)) = mem
    BY DEF StoresAndLoads
  <1> DEFINE n == Bytes(w)
             now == poke(w, mem, off, a)
             old == peek(w, mem, off)
  <1>2. off \in Nat /\ off + n <= Len(mem) /\ a \in Nat
    BY <1>0, CutWord
  <1> DEFINE inside(i) == i > off /\ i <= off + n
  <1>3. now = [i \in 1 .. Len(mem) |->
                IF inside(i) THEN Cut(W8, a \div Pow(2, W8 * (i - off - 1))) ELSE mem[i]]
    BY DEF poke
  <1> HIDE DEF now, old, n
  <1>4. ASSUME NEW k \in 1 .. n
        PROVE  /\ off + k \in 1 .. Len(mem) /\ inside(off + k)
               /\ now[off + k] = Cut(W8, a \div Pow(2, W8 * (k - 1)))
    <2>1. off + k \in 1 .. Len(mem) /\ inside(off + k) /\ (off + k) - off - 1 = k - 1
      BY <1>0, <1>2 DEF n
    <2> QED
      BY <1>3, <2>1
  <1> DEFINE d == [k \in 1 .. n |-> now[off + k]]
  <1>5. Number(ByteBase, d, n) = Cut(w, a) /\ \A k \in 1 .. n : d[k] \in Byte
    <2>1. \A k \in 1 .. n : d[k] = Cut(W8, a \div Pow(2, W8 * (k - 1)))
      BY <1>4
    <2> HIDE DEF d
    <2> QED
      BY <1>2, <2>1, BytesOfWord DEF n
  <1>6. now \in Seq(Byte) /\ Len(now) = Len(mem)
    <2>1. ASSUME NEW i \in 1 .. Len(mem) PROVE now[i] \in Byte
      <3>1. CASE inside(i)
        <4>1. i - off \in 1 .. n /\ off + (i - off) = i
          BY <1>0, <1>2, <3>1 DEF n
        <4>2. d[i - off] = now[i]
          BY <4>1
        <4> QED
          BY <1>5, <4>1, <4>2
      <3>2. CASE ~inside(i)
        BY <1>3, <3>2
      <3> QED
        BY <3>1, <3>2
    <2>2. now \in [1 .. Len(mem) -> Byte]
      BY <1>3, <2>1
    <2>3. now \in Seq(Byte)
      BY <1>0, <2>2, SeqDef
    <2>4. DOMAIN now = 1 .. Len(now) /\ DOMAIN now = 1 .. Len(mem) /\ Len(now) \in Nat
      BY <2>2, <2>3
    <2> QED
      BY <1>0, <2>3, <2>4
  <1>7. peek(w, now, off) = a
    <2>1. peek(w, now, off) = Number(ByteBase, d, n)
      BY <1>2, <1>6, PeekIsWord DEF n
    <2>2. Cut(w, a) = a
      BY <1>0, CutWord
    <2> QED
      BY <1>5, <2>1, <2>2
  <1>8. \A i \in 1 .. Len(mem) : now[i] # mem[i] => inside(i)
    BY <1>3
  <1>9. poke(w, now, off, old) = mem
    <2>1. poke(w, now, off, old) =
            [i \in 1 .. Len(mem) |->
               IF inside(i) THEN Cut(W8, old \div Pow(2, W8 * (i - off - 1))) ELSE now[i]]
      BY <1>6 DEF poke, n
    <2>2. ASSUME NEW i \in 1 .. Len(mem), inside(i)
          PROVE  Cut(W8, old \div Pow(2, W8 * (i - off - 1))) = mem[i]
      <3>1. i - off \in 1 .. n /\ off + (i - off) = i
        BY <1>0, <1>2, <2>2 DEF n
      <3>2. \A k \in 1 .. n : Cut(W8, old \div Pow(2, W8 * (k - 1))) = mem[off + k]
        BY <1>2, PeekIsWord DEF n, old
      <3> DEFINE k == i - off
      <3>3. k \in 1 .. n /\ off + k = i /\ k - 1 = i - off - 1
        BY <3>1
      <3> QED
        BY <3>2, <3>3
    <2>3. \A i \in 1 .. Len(mem) : ~inside(i) => now[i] = mem[i]
      BY <1>3
    <2>4. mem = [i \in 1 .. Len(mem) |-> mem[i]]
      OBVIOUS
    <2> QED
      BY <2>1, <2>2, <2>3, <2>4
  <1> QED
    BY <1>7, <1>8, <1>9 DEF now, old, n

\* Division with remainder.
LEMMA WordsDivide ==
  ASSUME NEW w \in Widths, NEW a \in Word(w), NEW b \in Word(w)
  PROVE  Divides(w, a, b)
  <1>0. w \in Nat \ {0} /\ w \in Nat /\ a \in Nat /\ b \in Nat /\ Pow(2, w) \in Nat \ {0}
    BY WidthsAre, CutWord, TwoPow
  <1> DEFINE p == Promoted(w)
             sa == Sign(w, a)
             sb == Sign(w, b)
  <1>1. /\ sa \in Int /\ sb \in Int /\ Same(Pow(2, w), sa, a) /\ Same(Pow(2, w), sb, b)
    BY <1>0, SignIsSame
  <1>2. \A o, c, d : WordOp(w, o, c, d) = BitsOp(w, p, o, c, d)
    BY WidthsAre
  <1> HIDE DEF p
  <1>3. BitsOp(w, p, "UDiv", a, b) # Undefined =>
          Cut(w, BitsOp(w, p, "UDiv", a, b) * b + BitsOp(w, p, "URem", a, b)) = a
    <2>1. CASE b = 0
      BY <2>1, OperatorsAre
    <2>2. CASE b # 0
      <3>1. (a \div b) * b + (a % b) = a
        BY <1>0, <2>2
      <3>2. Cut(w, a) = a
        BY <1>0, CutWord
      <3> QED
        BY <2>2, <3>1, <3>2, OperatorsAre
    <2> QED
      BY <2>1, <2>2
  <1>4. BitsOp(w, p, "SDiv", a, b) # Undefined =>
          Cut(w, BitsOp(w, p, "SDiv", a, b) * b + BitsOp(w, p, "SRem", a, b)) = a
    <2> HIDE DEF sa, sb
    <2>1. SUFFICES ASSUME ~DivUndefined(p, sa, sb)
                   PROVE  Cut(w, BitsOp(w, p, "SDiv", a, b) * b + BitsOp(w, p, "SRem", a, b)) = a
      BY OperatorsAre DEF sa, sb
    <2> DEFINE c == CQuot(sa, sb)
               m == sa - sb * c
    <2>2. BitsOp(w, p, "SDiv", a, b) = Cut(w, c) /\ BitsOp(w, p, "SRem", a, b) = Cut(w, m)
      BY <2>1, OperatorsAre DEF sa, sb
    <2>3. c \in Int
      <3>1. sb # 0
        BY <2>1 DEF DivUndefined
      <3> QED
        BY <1>1, <3>1, CQuotInt
    <2> HIDE DEF c
    <2>4. m \in Int /\ c * sb \in Int /\ c * sb + m = sa
      BY <1>1, <2>3
    <2> HIDE DEF m
    <2>5. /\ Cut(w, c) \in Nat /\ Same(Pow(2, w), Cut(w, c), c)
          /\ Cut(w, m) \in Nat /\ Same(Pow(2, w), Cut(w, m), m)
      BY <1>0, <2>3, <2>4, CutIsWord
    <2>9. Same(Pow(2, w), Cut(w, c) * b + Cut(w, m), a) /\ Cut(w, c) * b + Cut(w, m) \in Int
      <3>1. Cut(w, c) \in Int /\ Cut(w, m) \in Int /\ b \in Int /\ a \in Int
        BY <1>0, <2>5
      <3> QED
        BY <1>0, <1>1, <2>3, <2>4, <2>5, <3>1, SameDivision
    <2>10. Cut(w, Cut(w, c) * b + Cut(w, m)) = Cut(w, a)
      <3>1. a \in Int
        BY <1>0
      <3> QED
        BY <1>0, <2>9, <3>1, CutsAgree
    <2>11. Cut(w, a) = a
      BY <1>0, CutWord
    <2> QED
      BY <2>2, <2>10, <2>11
  <1> QED
    BY <1>2, <1>3, <1>4 DEF Divides

----------------------------------------------------------------------------
(* Buffers.                                                                *)

LEMMA FunctionIsSeq ==
  ASSUME NEW S, NEW n \in Nat, NEW f \in [1 .. n -> S]
  PROVE  f \in Seq(S) /\ Len(f) = n
  <1>1. f \in Seq(S)
    BY SeqDef
  <1>2. DOMAIN f = 1 .. Len(f) /\ DOMAIN f = 1 .. n /\ Len(f) \in Nat
    BY <1>1
  <1> QED
    BY <1>1, <1>2

LEMMA SeqIsFunction ==
  ASSUME NEW S, NEW s \in Seq(S)
  PROVE  Len(s) \in Nat /\ DOMAIN s = 1 .. Len(s) /\ s \in [1 .. Len(s) -> S] /\ \A i \in 1 .. Len(s) : s[i] \in S
  OBVIOUS

\* A piece is copied in: what lies inside it is the piece, and nothing else changes.
IsStored(s, S, b, loc, p) ==
    /\ s \in Seq(S) /\ Len(s) = Len(b)
    /\ \A i \in 1 .. Len(b) :
         /\ i > loc /\ i <= loc + Len(p) => s[i] = p[i - loc]
         /\ ~(i > loc /\ i <= loc + Len(p)) => s[i] = b[i]
    /\ \A k \in 1 .. Len(p) : loc + k \in 1 .. Len(b) /\ s[loc + k] = p[k]

LEMMA StoredBytes ==
  ASSUME NEW S, NEW b \in Seq(S), NEW loc \in Nat, NEW p \in Seq(S), loc + Len(p) <= Len(b)
  PROVE  IsStored(Stored(b, loc, p), S, b, loc, p)
  <1> DEFINE s == Stored(b, loc, p)
  <1>1. Len(b) \in Nat /\ Len(p) \in Nat /\ DOMAIN b = 1 .. Len(b) /\ (\A i \in 1 .. Len(b) : b[i] \in S)
        /\ \A k \in 1 .. Len(p) : p[k] \in S
    BY SeqIsFunction
  <1>2. s = [i \in 1 .. Len(b) |-> IF i > loc /\ i <= loc + Len(p) THEN p[i - loc] ELSE b[i]]
    BY <1>1 DEF Stored
  <1> HIDE DEF s
  <1>3. ASSUME NEW i \in 1 .. Len(b) PROVE s[i] \in S
    <2>1. CASE i > loc /\ i <= loc + Len(p)
      <3>1. i - loc \in 1 .. Len(p) /\ s[i] = p[i - loc]
        BY <1>1, <1>2, <2>1
      <3> QED
        BY <1>1, <3>1
    <2>2. CASE ~(i > loc /\ i <= loc + Len(p))
      <3>1. s[i] = b[i]
        BY <1>2, <2>2
      <3> QED
        BY <1>1, <3>1
    <2> QED
      BY <2>1, <2>2
  <1>4. s \in Seq(S) /\ Len(s) = Len(b)
    <2>1. s \in [1 .. Len(b) -> S]
      BY <1>2, <1>3
    <2> QED
      BY <1>1, <2>1, FunctionIsSeq
  <1>5. \A i \in 1 .. Len(b) :
              /\ i > loc /\ i <= loc + Len(p) => s[i] = p[i - loc]
              /\ ~(i > loc /\ i <= loc + Len(p)) => s[i] = b[i]
    BY <1>2
  <1>6. ASSUME NEW k \in 1 .. Len(p)
        PROVE  loc + k \in 1 .. Len(b) /\ s[loc + k] = p[k]
    <2>1. loc + k \in 1 .. Len(b) /\ loc + k > loc /\ loc + k <= loc + Len(p) /\ (loc + k) - loc = k
      BY <1>1
    <2> QED
      BY <1>5, <2>1
  <1> QED
    BY <1>4, <1>5, <1>6 DEF s, IsStored

\* An int is stored as a word is poked.
LEMMA IntIsPoked ==
  ASSUME NEW b \in Seq(Byte), NEW loc \in Int, NEW n \in Int
  PROVE  /\ Bytes(W32) \in Nat \ {0} /\ Len(b) \in Nat
         /\ HasInt(b, loc) <=> loc \in 0 .. Len(b) - Bytes(W32)
         /\ HasInt(b, loc) => idris_setBufferInt(b, loc, n) = poke(W32, b, loc, n)
         /\ ~HasInt(b, loc) => idris_setBufferInt(b, loc, n) = b
  <1>1. W32 \in Widths /\ Bytes(W32) \in Nat \ {0} /\ Len(b) \in Nat /\ DOMAIN b = 1 .. Len(b)
    BY BytesAre, SeqIsFunction DEF Widths
  <1>2. HasInt(b, loc) <=> loc \in 0 .. Len(b) - Bytes(W32)
    BY <1>1 DEF HasInt, Last, Size
  <1>3. ASSUME HasInt(b, loc) PROVE idris_setBufferInt(b, loc, n) = poke(W32, b, loc, n)
    <2> DEFINE p == IntBytes(n)
               v(k) == (n \div Pow(2, W8 * (k - 1))) % Pow(2, W8)
    <2>1. p = [k \in 1 .. Bytes(W32) |-> v(k)]
      BY DEF IntBytes
    <2>2. Len(p) = Bytes(W32)
      <3> DEFINE T == {v(k) : k \in 1 .. Bytes(W32)}
      <3>1. p \in [1 .. Bytes(W32) -> T] /\ Bytes(W32) \in Nat
        BY <1>1, <2>1
      <3> HIDE DEF p, T, v
      <3> QED
        BY <3>1, FunctionIsSeq
    <2>3. idris_setBufferInt(b, loc, n) =
            [i \in 1 .. Len(b) |-> IF i > loc /\ i <= loc + Bytes(W32) THEN p[i - loc] ELSE b[i]]
      BY <1>1, <1>3, <2>2 DEF idris_setBufferInt, Stored
    <2> HIDE DEF p
    <2>4. ASSUME NEW i \in 1 .. Len(b), i > loc /\ i <= loc + Bytes(W32)
          PROVE  p[i - loc] = Cut(W8, n \div Pow(2, W8 * (i - loc - 1)))
      <3>1. i - loc \in 1 .. Bytes(W32)
        BY <1>1, <2>4
      <3>2. p[i - loc] = v(i - loc)
        BY <2>1, <3>1
      <3> QED
        BY <3>2 DEF Cut
    <2>5. poke(W32, b, loc, n) =
            [i \in 1 .. Len(b) |-> IF i > loc /\ i <= loc + Bytes(W32)
                                   THEN Cut(W8, n \div Pow(2, W8 * (i - loc - 1))) ELSE b[i]]
      BY DEF poke
    <2> QED
      BY <2>3, <2>4, <2>5
  <1>4. ASSUME ~HasInt(b, loc) PROVE idris_setBufferInt(b, loc, n) = b
    BY <1>4 DEF idris_setBufferInt
  <1> QED
    BY <1>1, <1>2, <1>3, <1>4

LEMMA IntsStored ==
  ASSUME NEW b \in Seq(Byte), NEW n \in Word(W32)
  PROVE  StoredIsLoaded(b, n)
  <1>1. /\ W32 \in Widths /\ Bytes(W32) \in Nat \ {0} /\ W32 \in Nat /\ W8 \in Nat
        /\ Len(b) \in Nat /\ DOMAIN b = 1 .. Len(b)
    BY BytesAre, SeqIsFunction DEF Widths
  <1>2. n \in Nat /\ n % Pow(2, W32) = n
    BY <1>1, CutWord DEF Cut
  <1>3. SUFFICES ASSUME NEW loc \in -2 .. Len(b) + 2
        PROVE  LET now == idris_setBufferInt(b, loc, n)
               IN  IF loc \in 0 .. Len(b) - Bytes(W32)
                   THEN /\ idris_getBufferInt(now, loc) = Sign(W32, n % Pow(2, W32))
                        /\ Changed(b, now) \subseteq loc .. loc + Last
                        /\ \A k \in 0 .. Last : idris_getBufferByte(now, loc + k) = IntBytes(n)[k + 1]
                   ELSE now = b /\ idris_getBufferInt(b, loc) = 0
    BY DEF StoredIsLoaded, Size
  <1> DEFINE now == idris_setBufferInt(b, loc, n)
  <1>4. CASE loc \notin 0 .. Len(b) - Bytes(W32)
    <2>1. ~HasInt(b, loc) /\ now = b
      BY <1>2, <1>4, IntIsPoked
    <2>2. idris_getBufferInt(b, loc) = 0
      BY <2>1 DEF idris_getBufferInt
    <2> QED
      BY <1>4, <2>1, <2>2
  <1>5. CASE loc \in 0 .. Len(b) - Bytes(W32)
    <2>1. loc \in Nat /\ loc + Bytes(W32) <= Len(b) /\ HasInt(b, loc) /\ now = poke(W32, b, loc, n)
      BY <1>1, <1>2, <1>5, IntIsPoked
    <2> HIDE DEF now
    <2>2. /\ peek(W32, now, loc) = n
          /\ \A i \in 1 .. Len(b) : now[i] # b[i] => i > loc /\ i <= loc + Bytes(W32)
      BY <1>1, <1>5, <2>1, StoredWord DEF StoresAndLoads
    <2>3. now = [i \in 1 .. Len(b) |-> IF i > loc /\ i <= loc + Bytes(W32)
                                   THEN Cut(W8, n \div Pow(2, W8 * (i - loc - 1))) ELSE b[i]]
      BY <2>1 DEF poke
    <2>4. Len(now) = Len(b) /\ HasInt(now, loc)
      <3> DEFINE T == {now[i] : i \in 1 .. Len(b)}
      <3>1. now \in [1 .. Len(b) -> T]
        BY <2>3
      <3> HIDE DEF T
      <3>2. Len(now) = Len(b)
        BY <1>1, <3>1, FunctionIsSeq
      <3> QED
        BY <2>1, <3>2 DEF HasInt, Size
    <2>5. idris_getBufferInt(now, loc) = Sign(W32, n % Pow(2, W32))
      BY <1>2, <2>2, <2>4 DEF idris_getBufferInt
    <2>6. Changed(b, now) \subseteq loc .. loc + Last
      <3>1. \A i \in 1 .. Len(b) : i > loc /\ i <= loc + Bytes(W32) => i - 1 \in loc .. loc + Last
        BY <1>1, <2>1 DEF Last
      <3> QED
        BY <1>1, <2>2, <3>1 DEF Changed
    <2>7. ASSUME NEW k \in 0 .. Last
          PROVE  idris_getBufferByte(now, loc + k) = IntBytes(n)[k + 1]
      <3>1. /\ k + 1 \in 1 .. Bytes(W32) /\ loc + k >= 0 /\ loc + k < Len(b)
            /\ loc + k + 1 \in 1 .. Len(b) /\ loc + k + 1 > loc /\ loc + k + 1 <= loc + Bytes(W32)
            /\ (loc + k + 1) - loc - 1 = (k + 1) - 1
        BY <1>1, <2>1 DEF Last
      <3>2. idris_getBufferByte(now, loc + k) = now[loc + k + 1]
        BY <2>4, <3>1 DEF idris_getBufferByte, Size
      <3>3. now[loc + k + 1] = Cut(W8, n \div Pow(2, W8 * ((loc + k + 1) - loc - 1)))
        BY <2>3, <3>1
      <3>4. IntBytes(n)[k + 1] = (n \div Pow(2, W8 * ((k + 1) - 1))) % Pow(2, W8)
        BY <3>1 DEF IntBytes
      <3> QED
        BY <3>1, <3>2, <3>3, <3>4 DEF Cut
    <2> QED
      BY <1>5, <2>5, <2>6, <2>7 DEF now
  <1> QED
    BY <1>4, <1>5

\* Bytes in bounds are loaded as they are.
IsPiece(p, S, b, loc, n) == /\ p \in Seq(S) /\ Len(p) = n
                            /\ \A k \in 1 .. n : loc + k \in 1 .. Len(b) /\ p[k] = b[loc + k]

LEMMA LoadedBytes ==
  ASSUME NEW S, NEW b \in Seq(S), NEW loc \in Nat, NEW n \in Nat, loc + n <= Len(b)
  PROVE  IsPiece(Loaded(b, loc, n), S, b, loc, n)
  <1>1. Len(b) \in Nat /\ \A i \in 1 .. Len(b) : b[i] \in S
    BY SeqIsFunction
  <1>2. loc + 1 \in Int /\ loc + n \in Int /\ (loc + n) - (loc + 1) + 1 = n /\ n >= 0
    OBVIOUS
  <1>3. \A i \in loc + 1 .. loc + n : b[i] \in S
    <2> TAKE i \in loc + 1 .. loc + n
    <2>1. i \in 1 .. Len(b)
      BY <1>1
    <2> QED
      BY <1>1, <2>1
  <1>4. /\ SubSeq(b, loc + 1, loc + n) \in Seq(S)
        /\ Len(SubSeq(b, loc + 1, loc + n)) = IF loc + 1 <= loc + n THEN (loc + n) - (loc + 1) + 1 ELSE 0
        /\ \A i \in 1 .. (loc + n) - (loc + 1) + 1 : SubSeq(b, loc + 1, loc + n)[i] = b[(loc + 1) + i - 1]
    BY <1>2, <1>3, SubSeqProperties
  <1>5. \A k \in 1 .. n : loc + k \in 1 .. Len(b) /\ (loc + 1) + k - 1 = loc + k
    BY <1>1
  <1>6. \A k \in 1 .. n : SubSeq(b, loc + 1, loc + n)[k] = b[loc + k]
    BY <1>2, <1>4, <1>5
  <1>7. Len(SubSeq(b, loc + 1, loc + n)) = n
    BY <1>2, <1>4
  <1> QED
    BY <1>4, <1>5, <1>6, <1>7 DEF Loaded, IsPiece

\* Without a NUL a string is all of its bytes.
LEMMA NoNul ==
  ASSUME NEW S, NEW str \in Seq(S), \A i \in 1 .. Len(str) : str[i] # 0
  PROVE  BeforeNul(str) = str
  <1> DEFINE Ends(n) == /\ n = Len(str) \/ str[n + 1] = 0
                        /\ \A i \in 1 .. n : str[i] # 0
             e == CHOOSE n \in 0 .. Len(str) : Ends(n)
  <1>1. Len(str) \in Nat
    OBVIOUS
  <1>2. e \in 0 .. Len(str) /\ Ends(e)
    <2>1. Len(str) \in 0 .. Len(str) /\ Ends(Len(str))
      BY <1>1
    <2> HIDE DEF Ends
    <2> QED
      BY <2>1
  <1>3. BeforeNul(str) = SubSeq(str, 1, e)
    BY DEF BeforeNul
  <1> HIDE DEF e
  <1>4. e = Len(str)
    <2>1. SUFFICES ASSUME e # Len(str) PROVE FALSE
      OBVIOUS
    <2>2. e + 1 \in 1 .. Len(str) /\ str[e + 1] = 0
      BY <1>1, <1>2, <2>1
    <2> QED
      BY <2>2
  <1> QED
    BY <1>3, <1>4, SubSeqFull

\* What is kept of a buffer that is resized.
LEMMA ResizedBytes ==
  ASSUME NEW b \in Seq(Nat), NEW n \in Nat
  PROVE  /\ resizeBuffer(b, n) \in Seq(Nat) /\ Len(resizeBuffer(b, n)) = n
         /\ \A i \in 1 .. n : i <= Len(b) => resizeBuffer(b, n)[i] = b[i]
  <1> DEFINE new == idris_newBuffer(n)
             len == IF n < Size(b) THEN n ELSE Size(b)
             p == Loaded(b, 0, len)
  <1>1. new \in Seq(Nat) /\ Len(new) = n
    <2>1. new \in [1 .. n -> Nat]
      BY DEF idris_newBuffer
    <2> HIDE DEF new
    <2> QED
      BY <2>1, FunctionIsSeq
  <1>2. Len(b) \in Nat /\ Size(b) = Len(b)
    BY DEF Size
  <1>3. len \in Nat /\ len <= n /\ 0 + len <= Len(b) /\ 0 \in Nat /\ \A i \in 1 .. n : i <= Len(b) => i \in 1 .. len
    BY <1>2
  <1> HIDE DEF len
  <1>4. Inside(b, 0, len)
    BY <1>2, <1>3 DEF Inside
  <1>5. p \in Seq(Nat) /\ Len(p) = len /\ \A k \in 1 .. len : p[k] = b[0 + k]
    <2>1. IsPiece(Loaded(b, 0, len), Nat, b, 0, len)
      BY <1>3, LoadedBytes
    <2> QED
      BY <2>1 DEF IsPiece
  <1> HIDE DEF p, new
  <1>6. resizeBuffer(b, n) = Stored(new, 0, p)
    BY <1>1, <1>3, <1>4 DEF resizeBuffer, idris_copyBuffer, HasRoom, Size, p, new, len
  <1>7. /\ Stored(new, 0, p) \in Seq(Nat) /\ Len(Stored(new, 0, p)) = Len(new)
        /\ \A k \in 1 .. Len(p) : Stored(new, 0, p)[0 + k] = p[k]
    <2>1. IsStored(Stored(new, 0, p), Nat, new, 0, p)
      BY <1>1, <1>3, <1>5, StoredBytes
    <2> QED
      BY <2>1 DEF IsStored
  <1>8. ASSUME NEW i \in 1 .. n, i <= Len(b)
        PROVE  Stored(new, 0, p)[i] = b[i]
    <2>1. i \in 1 .. len /\ 0 + i = i
      BY <1>3, <1>8
    <2> QED
      BY <1>5, <1>7, <2>1
  <1> QED
    BY <1>1, <1>6, <1>7, <1>8

LEMMA BytesAreNat ==
  ASSUME NEW b \in Seq(Byte)
  PROVE  b \in Seq(Nat) /\ 0 \in Byte /\ Byte \subseteq Nat
  <1>1. ByteBase \in Nat \ {0} /\ Byte = 0 .. ByteBase - 1
    <2>1. W8 \in Nat
      BY WidthsAssumption
    <2> QED
      BY <2>1, TwoPow DEF ByteBase, Byte, Word
  <1>2. Byte \subseteq Nat /\ 0 \in Byte
    BY <1>1
  <1> QED
    BY <1>2, SeqMonotonic

LEMMA Copies ==
  ASSUME NEW b \in Seq(Byte), NEW c \in Seq(Byte)
  PROVE  CopiesArrive(b, c)
  <1>1. Len(b) \in Nat /\ Size(b) = Len(b) /\ Size(c) = Len(c)
    BY DEF Size
  <1>2. ASSUME NEW start \in 0 .. Len(b), NEW len \in 0 .. Len(b) - start, NEW loc \in Int,
               0 \notin {b[i] : i \in start + 1 .. start + len}
        PROVE  idris_copyBuffer(b, start, len, c, loc) =
               idris_setBufferString(c, loc, idris_getBufferString(b, start, len))
    <2> DEFINE p == Loaded(b, start, len)
    <2>1. start \in Nat /\ len \in Nat /\ start >= 0 /\ ~(len < 0) /\ start + len <= Len(b)
      BY <1>1
    <2>2. /\ Inside(b, start, len) /\ Loaded(b, start, len) = p
          /\ idris_getBufferString(b, start, len) = p
      BY <1>1, <2>1 DEF Inside, idris_getBufferString, HasRoom
    <2>3. p \in Seq(Byte) /\ Len(p) = len /\ \A k \in 1 .. len : p[k] = b[start + k]
      <3>1. IsPiece(p, Byte, b, start, len)
        BY <1>2, <2>1, LoadedBytes
      <3> HIDE DEF p
      <3> QED
        BY <3>1 DEF IsPiece
    <2> HIDE DEF p
    <2>4. ASSUME NEW k \in 1 .. Len(p) PROVE p[k] # 0
      <3>1. p[k] = b[start + k] /\ start + k \in start + 1 .. start + len
        BY <2>1, <2>3
      <3> QED
        BY <1>2, <3>1
    <2>5. BeforeNul(p) = p
      BY <2>3, <2>4, NoNul
    <2> QED
      BY <2>2, <2>3, <2>5 DEF idris_copyBuffer, idris_setBufferString
  <1>3. ASSUME NEW len \in 0 .. Len(b)
        PROVE  Changed(b, resizeBuffer(resizeBuffer(b, len), Len(b))) \subseteq len .. Len(b) - 1
    <2> DEFINE cut == resizeBuffer(b, len)
               back == resizeBuffer(cut, Len(b))
    <2>1. b \in Seq(Nat) /\ len \in Nat
      BY <1>1, BytesAreNat
    <2>2. cut \in Seq(Nat) /\ Len(cut) = len /\ \A i \in 1 .. len : i <= Len(b) => cut[i] = b[i]
      BY <2>1, ResizedBytes
    <2> HIDE DEF cut
    <2>3. \A i \in 1 .. Len(b) : i <= Len(cut) => back[i] = cut[i]
      BY <1>1, <2>2, ResizedBytes
    <2> HIDE DEF back
    <2>4. ASSUME NEW i \in 1 .. Len(b), b[i] # back[i]
          PROVE  i - 1 \in len .. Len(b) - 1
      <3>1. ~(i <= len)
        BY <1>1, <2>2, <2>3, <2>4
      <3> QED
        BY <1>1, <3>1
    <2>5. DOMAIN b = 1 .. Len(b)
      OBVIOUS
    <2>6. Changed(b, back) \subseteq len .. Len(b) - 1
      BY <2>4, <2>5 DEF Changed
    <2> QED
      BY <2>6 DEF back, cut
  <1>4. ASSUME NEW start \in Int, NEW len \in Int, NEW loc \in Int, loc < 0 \/ loc + len > Len(c)
        PROVE  idris_copyBuffer(b, start, len, c, loc) = c
    BY <1>1, <1>4 DEF idris_copyBuffer, HasRoom
  <1>5. -1 .. Size(b) + 1 \subseteq Int /\ -1 .. Size(c) + 1 \subseteq Int
    BY <1>1
  <1> QED
    BY <1>1, <1>2, <1>3, <1>4, <1>5 DEF CopiesArrive

\* A file is read up to some location: the input up to there, and then what was there.
Shorter(m, n) == IF m < n THEN m ELSE n
FilledTo(b, input) ==
    {r \in [buf : Seq(Byte), location : 0 .. Shorter(Len(input), Len(b))] :
        /\ Len(r.buf) = Len(b)
        /\ \A i \in 1 .. Len(b) : /\ i <= r.location => r.buf[i] = input[i]
                                  /\ i > r.location => r.buf[i] = b[i]}

\* One piece more, and a byte of it at least while there is something left.
Further(r, next, end) == /\ next.location >= r.location
                         /\ next.location > r.location \/ r.location = end

LEMMA PieceRead ==
  ASSUME NEW b \in Seq(Byte), NEW input \in Seq(Byte), NEW max \in Nat \ {0}, NEW r \in FilledTo(b, input)
  PROVE  LET next == readBufferFromFile(r, max, SubSeq(input, r.location + 1, Len(input)))
         IN  next \in FilledTo(b, input) /\ Further(r, next, Shorter(Len(input), Len(b)))
  <1> DEFINE l == r.location
             end == Shorter(Len(input), Len(b))
             rest == SubSeq(input, l + 1, Len(input))
             next == readBufferFromFile(r, max, rest)
  <1>1. /\ Len(b) \in Nat /\ Len(input) \in Nat /\ end \in Nat /\ end <= Len(b) /\ end <= Len(input)
        /\ (end = Len(b) \/ end = Len(input))
    BY DEF Shorter
  <1> HIDE DEF end
  <1>2. /\ l \in 0 .. end /\ l \in Nat /\ l <= end /\ r.buf \in Seq(Byte) /\ Len(r.buf) = Len(b)
        /\ \A i \in 1 .. Len(b) : (i <= l => r.buf[i] = input[i]) /\ (i > l => r.buf[i] = b[i])
    BY <1>1 DEF FilledTo, end
  <1>3. r = [buf |-> r.buf, location |-> l]
    BY DEF FilledTo
  <1> HIDE DEF l
  <1>4. IsPiece(rest, Byte, input, l, Len(input) - l)
    <2>1. rest = Loaded(input, l, Len(input) - l) /\ Len(input) - l \in Nat /\ l + (Len(input) - l) <= Len(input)
      <3> DEFINE n == Len(input) - l
      <3>1. l + n = Len(input) /\ n \in Nat
        BY <1>1, <1>2
      <3>2. l + n <= Len(input)
        BY <1>1, <3>1
      <3> HIDE DEF n
      <3>3. rest = Loaded(input, l, n)
        BY <3>1 DEF Loaded
      <3> QED
        BY <3>1, <3>2, <3>3 DEF n
    <2> HIDE DEF rest
    <2> QED
      BY <1>2, <2>1, LoadedBytes
  <1> HIDE DEF rest
  <1>5. CASE l = Len(b)
    <2>1. ~(l >= 0 /\ l < Size(r.buf))
      BY <1>2, <1>5 DEF Size
    <2>2. idris_readBuffer(r.buf, l, max, rest) = [buf |-> r.buf, read |-> 0]
      BY <2>1 DEF idris_readBuffer
    <2>3. next = [buf |-> r.buf, location |-> l + 0] /\ l + 0 = l
      BY <1>2, <2>2 DEF readBufferFromFile, l
    <2>4. next = r /\ l = end
      BY <1>1, <1>2, <1>3, <1>5, <2>3
    <2> HIDE DEF next
    <2> QED
      <3>1. r.location \in Nat
        BY <1>2 DEF l
      <3> QED
        BY <2>4, <3>1 DEF Further, next, l, rest, end
  <1>6. CASE l # Len(b)
    <2> DEFINE room == IF l + max > Size(r.buf) THEN Size(r.buf) - l ELSE max
               n == IF room > Len(rest) THEN Len(rest) ELSE room
               p == SubSeq(rest, 1, n)
               s == Stored(r.buf, l, p)
    <2>1. l >= 0 /\ l < Size(r.buf) /\ Size(r.buf) = Len(b)
      BY <1>1, <1>2, <1>6 DEF Size
    <2>2. idris_readBuffer(r.buf, l, max, rest) = [buf |-> s, read |-> n]
      BY <2>1 DEF idris_readBuffer
    <2>3. next = [buf |-> s, location |-> l + n]
      BY <2>2 DEF readBufferFromFile, l
    <2>4. room \in Nat \ {0} /\ l + room <= Len(b)
      BY <1>1, <1>2, <2>1
    <2> HIDE DEF room
    <2>5. rest \in Seq(Byte) /\ Len(rest) = Len(input) - l
      BY <1>4 DEF IsPiece
    <2>6. /\ n \in Nat /\ n <= Len(rest) /\ l + n <= Len(b) /\ l + n <= Len(input)
          /\ (n > 0 \/ l = Len(input))
      BY <1>1, <1>2, <2>4, <2>5
    <2> HIDE DEF n
    <2>7. p \in Seq(Byte) /\ Len(p) = n /\ \A k \in 1 .. n : p[k] = input[l + k]
      <3>1. p = Loaded(rest, 0, n)
        BY <2>6 DEF Loaded
      <3>2. IsPiece(Loaded(rest, 0, n), Byte, rest, 0, n)
        <4>1. 0 \in Nat /\ 0 + n <= Len(rest)
          BY <2>6
        <4> QED
          BY <2>5, <2>6, <4>1, LoadedBytes
      <3> HIDE DEF p
      <3>3. p \in Seq(Byte) /\ Len(p) = n /\ \A k \in 1 .. n : p[k] = rest[k]
        BY <2>6, <3>1, <3>2 DEF IsPiece
      <3>4. \A k \in 1 .. n : k \in 1 .. Len(input) - l
        BY <1>1, <1>2, <2>5, <2>6
      <3> QED
        BY <1>4, <3>3, <3>4 DEF IsPiece
    <2> HIDE DEF p
    <2>8. IsStored(s, Byte, r.buf, l, p)
      <3>1. l + Len(p) <= Len(r.buf)
        BY <1>2, <2>6, <2>7
      <3> QED
        BY <1>2, <2>7, <3>1, StoredBytes
    <2> HIDE DEF s
    <2>9. ASSUME NEW i \in 1 .. Len(b)
          PROVE  (i <= l + n => s[i] = input[i]) /\ (i > l + n => s[i] = b[i])
      <3>1. /\ i > l /\ i <= l + n => s[i] = p[i - l]
            /\ ~(i > l /\ i <= l + n) => s[i] = r.buf[i]
        BY <1>2, <2>7, <2>8 DEF IsStored
      <3>2. i > l /\ i <= l + n => i - l \in 1 .. n /\ l + (i - l) = i
        BY <1>2, <2>6
      <3>3. i > l /\ i <= l + n => p[i - l] = input[i]
        BY <2>7, <3>2
      <3>4. i <= l \/ (i > l /\ i <= l + n) \/ (i > l /\ i > l + n)
        BY <1>2, <2>6
      <3>5. i <= l => ~(i > l) /\ i <= l + n /\ ~(i > l + n)
        BY <1>2, <2>6
      <3>6. i > l + n => ~(i <= l + n)
        BY <1>2, <2>6
      <3> QED
        BY <1>2, <3>1, <3>3, <3>4, <3>5, <3>6
    <2>10. l + n \in 0 .. end
      BY <1>1, <1>2, <2>6
    <2>11. next \in FilledTo(b, input)
      <3>1. next.buf = s /\ next.location = l + n /\ next \in [buf : Seq(Byte), location : 0 .. end] /\ Len(s) = Len(b)
        BY <1>2, <2>3, <2>8, <2>10 DEF IsStored
      <3> HIDE DEF next
      <3> QED
        BY <2>9, <3>1 DEF FilledTo, end
    <2>12. Further(r, next, end)
      <3>1. next.location = l + n
        BY <2>3
      <3>2. l + n >= l /\ (l + n > l \/ l = end)
        BY <1>1, <1>2, <2>6
      <3> HIDE DEF next
      <3> QED
        BY <3>1, <3>2 DEF Further, l
    <2> HIDE DEF next
    <2> QED
      BY <2>11, <2>12 DEF next, end, rest, l
  <1> QED
    BY <1>5, <1>6

LEMMA FileRead ==
  ASSUME NEW b \in Seq(Byte), NEW input \in Seq(Byte), NEW max \in Nat \ {0}
  PROVE  /\ Filled(b, max, input) \in FilledTo(b, input)
         /\ Filled(b, max, input).location = Shorter(Len(input), Len(b))
  <1> DEFINE N == Len(input)
             end == Shorter(N, Len(b))
             D == FilledTo(b, input)
             Step(r) == readBufferFromFile(r, max, SubSeq(input, r.location + 1, Len(input)))
             start == [buf |-> b, location |-> 0]
             Def(p) == p = [k \in 0 .. N |-> IF k = 0 THEN start ELSE Step(p[k - 1])]
             P == CHOOSE p : Def(p)
             g == [q \in (1 .. N) \X D |-> Step(q[2])]
  <1>1. N \in Nat /\ Len(b) \in Nat /\ end \in Nat /\ end <= N /\ N \in 0 .. N
    BY DEF Shorter
  <1>2. start \in D
    <2>1. start.location = 0 /\ start.buf = b /\ 0 \in 0 .. end
      BY <1>1
    <2>2. start \in [buf : Seq(Byte), location : 0 .. end]
      BY <1>1
    <2>3. \A i \in 1 .. Len(b) : ~(i <= 0)
      BY <1>1
    <2> HIDE DEF start
    <2> QED
      BY <2>1, <2>2, <2>3 DEF FilledTo
  <1>3. Filled(b, max, input) = P[N]
    BY DEF Filled
  <1>4. ASSUME NEW r \in D PROVE Step(r) \in D /\ Further(r, Step(r), end)
    BY PieceRead
  <1> HIDE DEF N, D, Step, start
  <1>5. PICK f \in [0 .. N -> D] : Steps(f, N, start, g)
    <2>1. g \in [(1 .. N) \X D -> D]
      BY <1>4
    <2> HIDE DEF g
    <2> QED
      BY <1>1, <1>2, <2>1, StepsExist
  <1>6. f[0] = start /\ \A k \in 1 .. N : f[k] = Step(f[k - 1]) /\ k - 1 \in 0 .. N
    <2>1. f[0] = start /\ \A i \in 1 .. N : f[i] = g[<<i, f[i - 1]>>]
      BY <1>5 DEF Steps
    <2>2. ASSUME NEW i \in 1 .. N PROVE i - 1 \in 0 .. N /\ <<i, f[i - 1]>> \in (1 .. N) \X D
      <3>1. i - 1 \in 0 .. N
        BY <1>1
      <3> QED
        BY <3>1
    <2> QED
      BY <2>1, <2>2
  <1>7. Def(f)
    BY <1>6
  <1>8. Def(P)
    <2> HIDE DEF Def
    <2> QED
      BY <1>7
  <1> HIDE DEF P
  <1>9. P[0] = start /\ \A k \in 1 .. N : P[k] = Step(P[k - 1]) /\ k - 1 \in 0 .. N
    BY <1>1, <1>8, <1>6
  <1> DEFINE S == {k \in Nat : k <= N => P[k] \in D /\ (P[k].location >= k \/ P[k].location = end)}
  <1>10. N \in S
    <2>1. 0 \in S
      <3>1. P[0].location = 0
        BY <1>9 DEF start
      <3> QED
        BY <1>2, <1>9, <3>1
    <2>2. ASSUME NEW k \in Nat, k \in S PROVE k + 1 \in S
      <3>1. SUFFICES ASSUME k + 1 <= N
                     PROVE  P[k + 1] \in D /\ (P[k + 1].location >= k + 1 \/ P[k + 1].location = end)
        OBVIOUS
      <3>2. k <= N /\ k + 1 \in 1 .. N /\ (k + 1) - 1 = k
        BY <1>1, <3>1
      <3>3. P[k + 1] = Step(P[k]) /\ P[k] \in D /\ (P[k].location >= k \/ P[k].location = end)
        BY <1>9, <2>2, <3>2
      <3>4. P[k + 1] \in D /\ Further(P[k], P[k + 1], end)
        BY <1>4, <3>3
      <3>5. P[k].location \in 0 .. end /\ P[k + 1].location \in 0 .. end
        BY <3>3, <3>4 DEF D, FilledTo, N
      <3>6. ASSUME NEW i \in 0 .. end, NEW j \in 0 .. end,
                   i >= k \/ i = end, j >= i, j > i \/ i = end
            PROVE  j >= k + 1 \/ j = end
        BY <1>1, <3>6
      <3> HIDE DEF P
      <3> QED
        BY <3>3, <3>4, <3>5, <3>6 DEF Further
    <2> HIDE DEF S
    <2> QED
      BY <1>1, <2>1, <2>2, Induction
  <1>11. P[N] \in D /\ (P[N].location >= N \/ P[N].location = end)
    BY <1>1, <1>10
  <1>12. P[N].location \in 0 .. end
    BY <1>11 DEF D, FilledTo, N
  <1> QED
    BY <1>1, <1>3, <1>11, <1>12 DEF D, N

\* What has been written of a record is the buffer up to its location.
WrittenTo(r) ==
    {a \in [rec : [buf : Seq(Byte), location : 0 .. Len(r.buf)], out : Seq(Byte)] :
        /\ a.rec.buf = r.buf
        /\ Len(a.out) = a.rec.location
        /\ \A i \in 1 .. Len(a.out) : a.out[i] = r.buf[i]}

LEMMA PieceWritten ==
  ASSUME NEW r \in [buf : Seq(Byte), location : Nat], NEW max \in Nat \ {0}, NEW a \in WrittenTo(r)
  PROVE  LET next == [rec |-> writeBufferToFile(a.rec, max),
                      out |-> a.out \o idris_writeBuffer(a.rec.buf, a.rec.location,
                                                         written(a.rec, max))]
         IN  next \in WrittenTo(r) /\ Further(a.rec, next.rec, Len(r.buf))
  <1> DEFINE b == r.buf
             l == a.rec.location
             n == written(a.rec, max)
             p == idris_writeBuffer(a.rec.buf, a.rec.location, n)
             rec == writeBufferToFile(a.rec, max)
             out == a.out \o p
  <1>1. b \in Seq(Byte) /\ Len(b) \in Nat
    OBVIOUS
  <1>2. /\ a.rec.buf = b /\ l \in 0 .. Len(b) /\ a.out \in Seq(Byte) /\ Len(a.out) = l
        /\ a.rec = [buf |-> b, location |-> l]
        /\ \A i \in 1 .. l : a.out[i] = b[i]
    BY DEF WrittenTo
  <1>3. rec = [buf |-> b, location |-> l + n]
    BY <1>2 DEF writeBufferToFile
  <1> HIDE DEF b, l
  <1>4. n \in Nat /\ l + n <= Len(b) /\ (n > 0 \/ l = Len(b)) /\ l \in Nat
    <2>1. n = IF Len(b) - l < max THEN Len(b) - l ELSE max
      BY <1>2 DEF written, Size, l
    <2> HIDE DEF n
    <2> QED
      BY <1>1, <1>2, <2>1
  <1>5. p \in Seq(Byte) /\ Len(p) = n /\ \A k \in 1 .. n : p[k] = b[l + k]
    <2>1. p = idris_writeBuffer(b, l, n)
      BY <1>2 DEF l
    <2> HIDE DEF p, n
    <2>2. CASE l = Len(b)
      <3>1. p = <<>> /\ n = 0
        BY <1>1, <1>4, <2>1, <2>2 DEF idris_writeBuffer, Size
      <3> QED
        BY <3>1, EmptySeq
    <2>3. CASE l # Len(b)
      <3>1. p = Loaded(b, l, n)
        BY <1>1, <1>2, <1>4, <2>1, <2>3 DEF idris_writeBuffer, CutAtEnd, Size
      <3>2. IsPiece(Loaded(b, l, n), Byte, b, l, n)
        BY <1>1, <1>4, LoadedBytes
      <3> QED
        BY <3>1, <3>2 DEF IsPiece
    <2> QED
      BY <2>2, <2>3
  <1> HIDE DEF p, n, rec
  <1>6. /\ out \in Seq(Byte) /\ Len(out) = l + n
        /\ \A i \in 1 .. l : out[i] = a.out[i]
        /\ \A i \in l + 1 .. l + n : out[i] = p[i - l]
    <2>1. /\ out \in Seq(Byte) /\ Len(out) = Len(a.out) + Len(p)
          /\ \A i \in 1 .. Len(a.out) + Len(p) : out[i] = IF i <= Len(a.out) THEN a.out[i] ELSE p[i - Len(a.out)]
      <3> DEFINE u == a.out
      <3>1. u \in Seq(Byte) /\ p \in Seq(Byte)
        BY <1>2, <1>5
      <3> HIDE DEF u
      <3>2. /\ u \o p \in Seq(Byte) /\ Len(u \o p) = Len(u) + Len(p)
            /\ \A i \in 1 .. Len(u) + Len(p) : (u \o p)[i] = IF i <= Len(u) THEN u[i] ELSE p[i - Len(u)]
        BY <3>1, ConcatProperties
      <3> QED
        BY <3>2 DEF u
    <2>2. ASSUME NEW i \in 1 .. l PROVE out[i] = a.out[i]
      <3>1. i \in 1 .. l + n /\ i <= l
        BY <1>4
      <3> QED
        BY <1>2, <1>5, <2>1, <3>1
    <2>3. ASSUME NEW i \in l + 1 .. l + n PROVE out[i] = p[i - l]
      <3>1. i \in 1 .. l + n /\ ~(i <= l)
        BY <1>4
      <3> QED
        BY <1>2, <1>5, <2>1, <3>1
    <2> HIDE DEF out
    <2> QED
      BY <1>2, <1>5, <2>1, <2>2, <2>3
  <1> HIDE DEF out
  <1>7. ASSUME NEW i \in 1 .. Len(out) PROVE out[i] = b[i]
    <2>1. CASE i \in 1 .. l
      BY <1>2, <1>6, <2>1
    <2>2. CASE i \in l + 1 .. l + n
      <3>1. i - l \in 1 .. n /\ l + (i - l) = i
        BY <1>4, <2>2
      <3>2. p[i - l] = b[l + (i - l)]
        BY <1>5, <3>1
      <3> QED
        BY <1>6, <2>2, <3>1, <3>2
    <2> QED
      BY <1>4, <1>6, <2>1, <2>2
  <1> DEFINE next == [rec |-> rec, out |-> out]
  <1>8. /\ next.rec = rec /\ next.out = out /\ rec.buf = b /\ rec.location = l + n
        /\ next \in [rec : [buf : Seq(Byte), location : 0 .. Len(b)], out : Seq(Byte)]
    <2>1. l + n \in 0 .. Len(b)
      BY <1>1, <1>4
    <2>2. rec \in [buf : Seq(Byte), location : 0 .. Len(b)]
      BY <1>1, <1>3, <2>1
    <2> QED
      BY <1>3, <1>6, <2>2
  <1> HIDE DEF next
  <1>9. next \in WrittenTo(r)
    BY <1>6, <1>7, <1>8 DEF WrittenTo, b
  <1>10. Further(a.rec, next.rec, Len(b))
    <2>1. l + n >= l /\ (l + n > l \/ l = Len(b))
      BY <1>1, <1>4
    <2> QED
      BY <1>8, <2>1 DEF Further, l
  <1> QED
    BY <1>9, <1>10 DEF next, rec, out, p, n, b

LEMMA FileWritten ==
  ASSUME NEW r \in [buf : Seq(Byte), location : Nat], NEW max \in Nat \ {0}
  PROVE  Output(r, max) = r.buf
  <1> DEFINE b == r.buf
             N == Size(r.buf)
             D == WrittenTo(r)
             Step(a) == [rec |-> writeBufferToFile(a.rec, max),
                         out |-> a.out \o idris_writeBuffer(a.rec.buf, a.rec.location,
                                                            written(a.rec, max))]
             start == [rec |-> resetBuffer(r), out |-> <<>>]
             Def(p) == p = [k \in 0 .. N |-> IF k = 0 THEN start ELSE Step(p[k - 1])]
             P == CHOOSE p : Def(p)
             g == [q \in (1 .. N) \X D |-> Step(q[2])]
  <1>1. N \in Nat /\ N = Len(b) /\ b \in Seq(Byte) /\ N \in 0 .. N
    BY DEF Size
  <1>2. start \in D
    <2>1. resetBuffer(r) = [buf |-> b, location |-> 0]
      BY DEF resetBuffer
    <2>2. start.rec = [buf |-> b, location |-> 0] /\ start.out = <<>> /\ 0 \in 0 .. Len(b)
      BY <1>1, <2>1
    <2>3. start \in [rec : [buf : Seq(Byte), location : 0 .. Len(b)], out : Seq(Byte)]
      BY <1>1, <2>1, <2>2, EmptySeq
    <2> HIDE DEF start
    <2> QED
      BY <2>2, <2>3, EmptySeq DEF WrittenTo
  <1>3. Output(r, max) = P[N].out
    BY DEF Output
  <1>4. ASSUME NEW a \in D PROVE Step(a) \in D /\ Further(a.rec, Step(a).rec, N)
    BY <1>1, PieceWritten
  <1> HIDE DEF N, D, Step, start
  <1>5. PICK f \in [0 .. N -> D] : Steps(f, N, start, g)
    <2>1. g \in [(1 .. N) \X D -> D]
      BY <1>4
    <2> HIDE DEF g
    <2> QED
      BY <1>1, <1>2, <2>1, StepsExist
  <1>6. f[0] = start /\ \A k \in 1 .. N : f[k] = Step(f[k - 1]) /\ k - 1 \in 0 .. N
    <2>1. f[0] = start /\ \A i \in 1 .. N : f[i] = g[<<i, f[i - 1]>>]
      BY <1>5 DEF Steps
    <2>2. ASSUME NEW i \in 1 .. N PROVE i - 1 \in 0 .. N /\ <<i, f[i - 1]>> \in (1 .. N) \X D
      <3>1. i - 1 \in 0 .. N
        BY <1>1
      <3> QED
        BY <3>1
    <2> QED
      BY <2>1, <2>2
  <1>7. Def(f)
    BY <1>6
  <1>8. Def(P)
    <2> HIDE DEF Def
    <2> QED
      BY <1>7
  <1> HIDE DEF P
  <1>9. P[0] = start /\ \A k \in 1 .. N : P[k] = Step(P[k - 1]) /\ k - 1 \in 0 .. N
    BY <1>1, <1>8, <1>6
  <1> DEFINE S == {k \in Nat : k <= N => P[k] \in D /\ (P[k].rec.location >= k \/ P[k].rec.location = N)}
  <1>10. N \in S
    <2>1. 0 \in S
      <3>1. P[0].rec.location = 0
        BY <1>9 DEF start, resetBuffer
      <3> QED
        BY <1>2, <1>9, <3>1
    <2>2. ASSUME NEW k \in Nat, k \in S PROVE k + 1 \in S
      <3>1. SUFFICES ASSUME k + 1 <= N
                     PROVE  P[k + 1] \in D /\ (P[k + 1].rec.location >= k + 1 \/ P[k + 1].rec.location = N)
        OBVIOUS
      <3>2. k <= N /\ k + 1 \in 1 .. N /\ (k + 1) - 1 = k
        BY <1>1, <3>1
      <3>3. P[k + 1] = Step(P[k]) /\ P[k] \in D /\ (P[k].rec.location >= k \/ P[k].rec.location = N)
        BY <1>9, <2>2, <3>2
      <3>4. P[k + 1] \in D /\ Further(P[k].rec, P[k + 1].rec, N)
        BY <1>4, <3>3
      <3>5. P[k].rec.location \in 0 .. N /\ P[k + 1].rec.location \in 0 .. N
        BY <1>1, <3>3, <3>4 DEF D, WrittenTo
      <3>6. ASSUME NEW i \in 0 .. N, NEW j \in 0 .. N,
                   i >= k \/ i = N, j >= i, j > i \/ i = N
            PROVE  j >= k + 1 \/ j = N
        BY <1>1, <3>6
      <3> HIDE DEF P
      <3> QED
        BY <3>3, <3>4, <3>5, <3>6 DEF Further
    <2> HIDE DEF S
    <2> QED
      BY <1>1, <2>1, <2>2, Induction
  <1>11. P[N] \in D /\ (P[N].rec.location >= N \/ P[N].rec.location = N)
    BY <1>1, <1>10
  <1>12. /\ P[N].rec.location \in 0 .. Len(b) /\ P[N].out \in Seq(Byte) /\ Len(P[N].out) = P[N].rec.location
         /\ \A i \in 1 .. Len(P[N].out) : P[N].out[i] = b[i]
    BY <1>11 DEF D, WrittenTo
  <1>13. Len(P[N].out) = Len(b)
    BY <1>1, <1>11, <1>12
  <1>14. P[N].out = b
    <2> DEFINE out == P[N].out
    <2>1. out \in Seq(Byte) /\ Len(out) = Len(b) /\ \A i \in 1 .. Len(out) : out[i] = b[i]
      BY <1>12, <1>13
    <2> HIDE DEF out, b
    <2>2. out = b
      BY <1>1, <2>1, SeqEqual
    <2> QED
      BY <2>2 DEF out
  <1> QED
    BY <1>3, <1>14

LEMMA Files ==
  ASSUME NEW b \in Seq(Byte), NEW input \in Seq(Byte)
  PROVE  FilesPass(b, input)
  <1>1. SUFFICES ASSUME NEW max \in 1 .. 3, NEW out \in 1 .. 3
        PROVE  LET r == Filled(b, max, input)
                   n == IF Len(input) < Size(b) THEN Len(input) ELSE Size(b)
               IN  /\ r.location = n
                   /\ Output(r, out) = SubSeq(input, 1, n) \o SubSeq(b, n + 1, Size(b))
    BY DEF FilesPass
  <1> DEFINE r == Filled(b, max, input)
             n == Shorter(Len(input), Len(b))
             kept == Loaded(b, n, Len(b) - n)
             got == Loaded(input, 0, n)
             both == got \o kept
  <1>2. max \in Nat \ {0} /\ out \in Nat \ {0} /\ Len(b) \in Nat /\ Len(input) \in Nat
    OBVIOUS
  <1>3. r \in FilledTo(b, input) /\ r.location = n
    BY <1>2, FileRead
  <1>4. n \in Nat /\ n <= Len(b) /\ n <= Len(input) /\ Len(b) - n \in Nat /\ n + (Len(b) - n) = Len(b)
    BY <1>2 DEF Shorter
  <1> HIDE DEF r
  <1>5. /\ r \in [buf : Seq(Byte), location : Nat] /\ r.buf \in Seq(Byte) /\ Len(r.buf) = Len(b)
        /\ \A i \in 1 .. Len(b) : (i <= n => r.buf[i] = input[i]) /\ (i > n => r.buf[i] = b[i])
    <2>1. /\ r \in [buf : Seq(Byte), location : 0 .. n] /\ Len(r.buf) = Len(b)
          /\ \A i \in 1 .. Len(b) : (i <= r.location => r.buf[i] = input[i])
                                    /\ (i > r.location => r.buf[i] = b[i])
      BY <1>3 DEF FilledTo
    <2>2. r \in [buf : Seq(Byte), location : Nat]
      BY <1>4, <2>1
    <2> QED
      BY <1>3, <2>1, <2>2
  <1>6. Output(r, out) = r.buf
    BY <1>2, <1>5, FileWritten
  <1> HIDE DEF n
  <1>7. IsPiece(kept, Byte, b, n, Len(b) - n)
    <2> DEFINE m == Len(b) - n
    <2>1. m \in Nat /\ n + m <= Len(b)
      BY <1>2, <1>4
    <2> HIDE DEF m
    <2>2. IsPiece(Loaded(b, n, m), Byte, b, n, m)
      BY <1>4, <2>1, LoadedBytes
    <2> QED
      BY <2>2 DEF m
  <1>8. IsPiece(got, Byte, input, 0, n)
    <2>1. 0 \in Nat /\ 0 + n <= Len(input)
      BY <1>4
    <2> QED
      BY <1>4, <2>1, LoadedBytes
  <1>9. got = SubSeq(input, 1, n) /\ kept = SubSeq(b, n + 1, Len(b))
    BY <1>4 DEF Loaded
  <1> HIDE DEF got, kept
  <1>10. /\ got \in Seq(Byte) /\ Len(got) = n /\ \A i \in 1 .. n : got[i] = input[i]
         /\ kept \in Seq(Byte) /\ Len(kept) = Len(b) - n /\ \A i \in 1 .. Len(b) - n : kept[i] = b[n + i]
    BY <1>4, <1>7, <1>8 DEF IsPiece
  <1>11. /\ both \in Seq(Byte) /\ Len(both) = Len(got) + Len(kept)
         /\ \A i \in 1 .. Len(got) + Len(kept) : both[i] = IF i <= Len(got) THEN got[i] ELSE kept[i - Len(got)]
    BY <1>10, ConcatProperties
  <1> HIDE DEF both
  <1>12. Len(both) = Len(b)
    BY <1>4, <1>10, <1>11
  <1>13. ASSUME NEW i \in 1 .. Len(b) PROVE r.buf[i] = both[i]
    <2>1. CASE i <= n
      <3>1. i \in 1 .. n /\ i \in 1 .. Len(got) + Len(kept)
        BY <1>4, <1>10, <2>1
      <3>2. both[i] = got[i]
        BY <1>10, <1>11, <2>1, <3>1
      <3> QED
        BY <1>5, <1>10, <2>1, <3>1, <3>2
    <2>2. CASE ~(i <= n)
      <3>1. /\ i - n \in 1 .. Len(b) - n /\ n + (i - n) = i /\ i > n
            /\ i \in 1 .. Len(got) + Len(kept)
        BY <1>2, <1>4, <1>10, <2>2
      <3>2. both[i] = kept[i - n]
        BY <1>10, <1>11, <2>2, <3>1
      <3>3. kept[i - n] = b[n + (i - n)]
        BY <1>10, <3>1
      <3> QED
        BY <1>5, <3>1, <3>2, <3>3
    <2> QED
      BY <2>1, <2>2
  <1>14. r.buf = both
    <2> DEFINE u == r.buf
    <2>1. u \in Seq(Byte) /\ Len(u) = Len(both) /\ \A i \in 1 .. Len(u) : u[i] = both[i]
      BY <1>5, <1>12, <1>13
    <2> HIDE DEF u
    <2>2. u = both
      BY <1>11, <2>1, SeqEqual
    <2> QED
      BY <2>2 DEF u
  <1>15. n = IF Len(input) < Size(b) THEN Len(input) ELSE Size(b)
    BY DEF n, Shorter, Size
  <1> QED
    BY <1>3, <1>6, <1>9, <1>14, <1>15 DEF r, both, Size

----------------------------------------------------------------------------
(* Division: quotients, by one digit and by two, that are estimated.       *)

LEMMA ProductOrder ==
  ASSUME NEW p \in Nat, NEW q \in Int, NEW r \in Int
  PROVE  /\ q <= r => p * q <= p * r
         /\ p > 0 /\ p * q < p * r => q < r
         /\ p > 0 /\ p * q <= p * r => q <= r
         /\ p > 0 /\ q < r => p * q < p * r
         /\ p * q \in Int
  <1>1. q <= r => p * q <= p * r
    OBVIOUS
  <1>2. ASSUME p > 0, q < r PROVE p * q < p * r
    BY <1>2
  <1>3. ASSUME p > 0, p * q < p * r PROVE q < r
    BY <1>1, <1>3
  <1>4. ASSUME p > 0, p * q <= p * r PROVE q <= r
    <2>1. ~(r < q)
      <3>1. r < q => p * r < p * q
        BY <1>4
      <3> QED
        BY <1>4, <3>1
    <2> QED
      BY <2>1
  <1> QED
    BY <1>1, <1>2, <1>3, <1>4

LEMMA DivisionIs ==
  ASSUME NEW n \in Nat \ {0}, NEW a, NEW q \in Int, NEW r \in 0 .. n - 1, a = n * q + r
  PROVE  a % n = r /\ a \div n = q
  BY DivModUnique

\* A divisor of two digits in base b, its inverse v, and a dividend of three.
Divisor(b, d1, d0, d, v, k) ==
    /\ b \in Nat /\ b >= 2 /\ d1 \in 0 .. b - 1 /\ d0 \in 0 .. b - 1
    /\ d \in Nat /\ d = d1 * b + d0 /\ b * b <= 2 * d
    /\ v \in Nat /\ k \in Nat /\ 1 <= k /\ k <= d /\ (b + v) * d = b * b * b - k
Dividend(b, d, u2, u1, u0) ==
    u2 \in 0 .. b - 1 /\ u1 \in 0 .. b - 1 /\ u0 \in 0 .. b - 1 /\ u2 * b + u1 < d
Estimated(b, d, v, u2, u1, u0, q1, q0, r) ==
    /\ q1 \in Int /\ q0 \in 0 .. b - 1 /\ (b + v) * u2 + u1 = q1 * b + q0
    /\ r \in Int /\ r = (u2 * b + u1) * b + u0 - (q1 + 1) * d

LEMMA EstimateBelow ==
  ASSUME NEW b, NEW d1, NEW d0, NEW d, NEW v, NEW k, Divisor(b, d1, d0, d, v, k),
         NEW u2, NEW u1, NEW u0, Dividend(b, d, u2, u1, u0),
         NEW q1, NEW q0, NEW r, Estimated(b, d, v, u2, u1, u0, q1, q0, r)
  PROVE  /\ q1 \in 0 .. b - 1 /\ b * b - d > 0
         /\ b * r = u1 * (b * b - d) + b * u0 + u2 * k + d * q0 - d * b
         /\ r >= -d /\ r > b * q0 - b * b
  <1>1. /\ b \in Nat /\ b >= 2 /\ d \in Nat /\ v \in Nat /\ k \in Nat /\ 1 <= k /\ k <= d
        /\ d1 \in Nat /\ d1 <= b - 1 /\ d0 \in Nat /\ d0 <= b - 1 /\ d = d1 * b + d0
        /\ (b + v) * d = b * b * b - k
        /\ u2 \in Nat /\ u1 \in Nat /\ u0 \in Nat /\ u1 <= b - 1 /\ u2 * b + u1 < d
        /\ q1 \in Int /\ q0 \in Nat /\ q0 <= b - 1 /\ (b + v) * u2 + u1 = q1 * b + q0
        /\ r \in Int /\ r = (u2 * b + u1) * b + u0 - (q1 + 1) * d
    BY DEF Divisor, Dividend, Estimated
  <1> DEFINE g == b * b - d
             c == b + v
             s == b * b
  <1>2. s \in Nat /\ g \in Int /\ c \in Nat /\ g = s - d /\ g > 0 /\ s > 0
    <2>1. d1 * b <= (b - 1) * b
      BY ONLY <1>1
    <2>2. (b - 1) * b = b * b - b /\ b * b \in Nat /\ d1 * b \in Int /\ b * b > 0
      BY ONLY <1>1
    <2>3. b * b - d > 0
      BY ONLY <1>1, <2>1, <2>2
    <2> QED
      BY ONLY <1>1, <2>2, <2>3
  <1>3. c * d = s * b - k /\ c * u2 + u1 = q1 * b + q0 /\ r = (u2 * b + u1) * b + u0 - (q1 + 1) * d
    BY ONLY <1>1
  <1> HIDE DEF g, c, s
  <1>4. b * r = u1 * g + b * u0 + u2 * k + d * q0 - d * b
    <2>1. b * r = b * ((u2 * b + u1) * b + u0 - (q1 + 1) * d)
      BY ONLY <1>3
    <2>2. b * ((u2 * b + u1) * b + u0 - (q1 + 1) * d)
            = u2 * (b * b * b) + u1 * (b * b) + b * u0 - (q1 * b) * d - b * d
      BY ONLY <1>1
    <2>3. q1 * b = c * u2 + u1 - q0
      BY ONLY <1>1, <1>2, <1>3
    <2>4. (c * u2 + u1 - q0) * d = (c * d) * u2 + u1 * d - q0 * d
      BY ONLY <1>1, <1>2
    <2>5. (s * b - k) * u2 = u2 * (s * b) - u2 * k
      BY ONLY <1>1, <1>2
    <2>6. (q1 * b) * d = u2 * (s * b) - u2 * k + u1 * d - q0 * d
      BY <1>3, <2>3, <2>4, <2>5
    <2>7. b * r = u2 * (s * b) + u1 * s + b * u0 - (u2 * (s * b) - u2 * k + u1 * d - q0 * d) - b * d
      BY <2>1, <2>2, <2>6 DEF s
    <2>8. u1 * g = u1 * s - u1 * d
      BY ONLY <1>1, <1>2
    <2>9. d * q0 = q0 * d /\ d * b = b * d
      BY ONLY <1>1
    <2> DEFINE e1 == u2 * (s * b)
               e2 == u1 * s
               e3 == b * u0
               e4 == u2 * k
               e5 == u1 * d
               e6 == q0 * d
               e7 == b * d
    <2>10. e1 \in Int /\ e2 \in Int /\ e3 \in Int /\ e4 \in Int /\ e5 \in Int /\ e6 \in Int /\ e7 \in Int
      BY ONLY <1>1, <1>2
    <2>11. b * r = e1 + e2 + e3 - (e1 - e4 + e5 - e6) - e7
      BY <2>7
    <2> HIDE DEF e1, e2, e3, e4, e5, e6, e7
    <2>12. b * r = (e2 - e5) + e3 + e4 + e6 - e7
      BY ONLY <2>10, <2>11
    <2> QED
      BY <2>8, <2>9, <2>12 DEF e2, e3, e4, e5, e6, e7
  <1>5. b * r >= d * q0 - d * b
    <2>1. u1 * g >= 0 /\ b * u0 >= 0 /\ u2 * k >= 0 /\ u1 * g \in Int /\ b * u0 \in Int /\ u2 * k \in Int
          /\ d * q0 \in Int /\ d * b \in Int
      BY ONLY <1>1, <1>2
    <2> QED
      BY ONLY <1>4, <2>1
  <1>6. r >= -d
    <2>1. d * q0 >= 0 /\ d * q0 \in Int /\ d * b \in Int /\ b * (-d) = -(d * b) /\ b * r \in Int
      BY ONLY <1>1
    <2>2. b * (-d) <= b * r
      BY ONLY <1>5, <2>1
    <2>3. -d \in Int /\ b > 0
      BY <1>1
    <2> QED
      BY ONLY <1>1, <2>2, <2>3, ProductOrder
  <1>7. r > b * q0 - b * b
    <2> DEFINE e == b - q0
               f == b * q0 - b * b
    <2>1. e \in Nat /\ e > 0 /\ f \in Int /\ d * q0 - d * b = -(d * e) /\ b * f = -(s * e)
      BY ONLY <1>1 DEF s
    <2> HIDE DEF e, f
    <2>2. d * e < s * e /\ d * e \in Int /\ s * e \in Int
      BY ONLY <1>1, <1>2, <2>1
    <2>3. b * f < b * r
      <3>1. b * r \in Int
        BY ONLY <1>1
      <3> QED
        BY ONLY <1>5, <2>1, <2>2, <3>1
    <2>4. b > 0
      BY <1>1
    <2>5. f < r
      BY ONLY <1>1, <2>1, <2>3, <2>4, ProductOrder
    <2> QED
      BY <1>1, <2>5 DEF f
  <1>8. q1 \in 0 .. b - 1
    <2> DEFINE w == c * u2 + u1
    <2>1. d * w = s * (b * u2) - k * u2 + d * u1
      <3>1. d * w = (c * d) * u2 + d * u1
        BY ONLY <1>1, <1>2
      <3>2. (s * b - k) * u2 = s * (b * u2) - k * u2
        BY ONLY <1>1, <1>2
      <3> HIDE DEF w
      <3> QED
        BY <1>3, <3>1, <3>2
    <2>2. w \in Nat
      BY ONLY <1>1, <1>2
    <2> HIDE DEF w
    <2>3. d * w < d * s
      <3> DEFINE m == d - 1 - u1
      <3>1. b * u2 <= m /\ b * u2 \in Nat /\ m \in Int
        BY ONLY <1>1
      <3> HIDE DEF m
      <3>2. s * (b * u2) <= s * m /\ s * (b * u2) \in Int /\ s * m \in Int
        BY ONLY <1>2, <3>1
      <3>3. s * m = s * d - s - s * u1 /\ s * d = d * s /\ s * u1 \in Int /\ d * s \in Int
        <4>1. s * (d - 1 - u1) = s * d - s - s * u1
          BY ONLY <1>1, <1>2
        <4> QED
          BY ONLY <1>1, <1>2, <4>1 DEF m
      <3>4. k * u2 >= 0 /\ k * u2 \in Int
        BY ONLY <1>1
      <3>5. d * u1 <= s * u1 /\ d * u1 \in Int
        BY ONLY <1>1, <1>2
      <3>6. d * w \in Int
        BY ONLY <1>1, <2>2
      <3> QED
        BY ONLY <1>2, <2>1, <3>2, <3>3, <3>4, <3>5, <3>6
    <2>4. w < s
      <3>1. d > 0 /\ s \in Int /\ w \in Int
        BY <1>1, <1>2, <2>2
      <3> QED
        BY ONLY <1>1, <2>3, <3>1, ProductOrder
    <2>5. w = q1 * b + q0
      BY <1>3 DEF w
    <2>6. q1 * b < b * b /\ q1 * b > -b
      BY ONLY <1>1, <1>2, <2>2, <2>4, <2>5 DEF s
    <2>7. q1 < b
      <3>1. b * q1 < b * b /\ b > 0 /\ b \in Int
        BY ONLY <1>1, <2>6
      <3> QED
        BY ONLY <1>1, <3>1, ProductOrder
    <2>8. -1 < q1
      <3>1. b * (-1) < b * q1 /\ b > 0 /\ -1 \in Int
        BY ONLY <1>1, <2>6
      <3> QED
        BY ONLY <1>1, <3>1, ProductOrder
    <2> QED
      BY ONLY <1>1, <2>7, <2>8
  <1> QED
    BY <1>2, <1>4, <1>6, <1>7, <1>8 DEF g

LEMMA EstimateAbove ==
  ASSUME NEW b, NEW d1, NEW d0, NEW d, NEW v, NEW k, Divisor(b, d1, d0, d, v, k),
         NEW u2, NEW u1, NEW u0, Dividend(b, d, u2, u1, u0),
         NEW q1, NEW q0, NEW r, Estimated(b, d, v, u2, u1, u0, q1, q0, r)
  PROVE  r < b * b - d \/ r < q0 * b
  <1>1. /\ b \in Nat /\ b >= 2 /\ d \in Nat /\ v \in Nat /\ k \in Nat /\ 1 <= k /\ k <= d
        /\ d1 \in Nat /\ d1 <= b - 1 /\ d0 \in Nat /\ d0 <= b - 1 /\ d = d1 * b + d0
        /\ (b + v) * d = b * b * b - k
        /\ u2 \in Nat /\ u1 \in Nat /\ u0 \in Nat /\ u1 <= b - 1 /\ u0 <= b - 1 /\ u2 * b + u1 < d
        /\ q1 \in Int /\ q0 \in Nat /\ q0 <= b - 1 /\ (b + v) * u2 + u1 = q1 * b + q0
        /\ r \in Int /\ r = (u2 * b + u1) * b + u0 - (q1 + 1) * d
    BY DEF Divisor, Dividend, Estimated
  <1>2. b * b - d > 0 /\ b * r = u1 * (b * b - d) + b * u0 + u2 * k + d * q0 - d * b
    BY ONLY EstimateBelow, Divisor(b, d1, d0, d, v, k), Dividend(b, d, u2, u1, u0),
            Estimated(b, d, v, u2, u1, u0, q1, q0, r)
  <1>3. u2 <= d1 /\ (u2 = d1 => u1 <= d0 - 1)
    <2>1. ~(u2 >= d1 + 1)
      <3>1. ASSUME u2 >= d1 + 1 PROVE FALSE
        <4>1. b * (d1 + 1) <= b * u2
          BY ONLY <1>1, <3>1, ProductOrder
        <4>2. b * (d1 + 1) = d1 * b + b /\ b * u2 = u2 * b /\ d1 * b \in Int
          BY ONLY <1>1
        <4> QED
          BY ONLY <1>1, <4>1, <4>2
      <3> QED
        BY ONLY <3>1
    <2> QED
      BY ONLY <1>1, <2>1
  <1>0. r \in Int /\ b * b - d \in Int /\ q0 * b \in Int
    BY ONLY <1>1
  <1> DEFINE top == b * b - d
             low == q0 * b
  <1> SUFFICES ASSUME r >= top, r >= low PROVE FALSE
    <2> HIDE DEF top, low
    <2>1. r \in Int /\ top \in Int /\ low \in Int
      BY <1>0 DEF top, low
    <2>2. r < top \/ r < low
      BY <2>1
    <2> QED
      BY <2>2 DEF top, low
  <1> DEFINE s == b * b
             g == s - d
             m == b * (u1 * g + b * u0 + u2 * k - d * b)
  <1>4. s \in Nat /\ g \in Nat /\ g > 0 /\ s > 0 /\ d = s - g /\ m \in Int
    BY ONLY <1>1, <1>2
  <1>5. g * g <= m
    <2> DEFINE w == u1 * g + b * u0 + u2 * k - d * b
    <2>0. w \in Int
      BY ONLY <1>1, <1>4
    <2>1. b * r = w + d * q0
      <3> HIDE DEF w, m
      <3>1. w = u1 * (b * b - d) + b * u0 + u2 * k - d * b
        BY DEF w
      <3>2. d * q0 \in Int /\ d * b \in Int /\ u2 * k \in Int /\ b * u0 \in Int /\ u1 * (b * b - d) \in Int
        BY ONLY <1>1
      <3> QED
        BY ONLY <1>2, <3>1, <3>2
    <2>m. m = b * w
      OBVIOUS
    <2>2. g * g <= g * r
      BY ONLY <1>1, <1>4, r >= b * b - d, ProductOrder DEF g, s
    <2>3. d * (q0 * b) <= d * r /\ d * (q0 * b) \in Int
      <3>1. q0 * b \in Int
        BY ONLY <1>1
      <3> HIDE DEF w, m, g, s
      <3> QED
        BY ONLY <1>1, <3>1, r >= q0 * b, ProductOrder
    <2> HIDE DEF w, m
    <2>4. b * (b * r) = g * r + d * r
      <3>1. b * (b * r) = s * r
        BY ONLY <1>1 DEF s
      <3>2. s * r = (g + d) * r
        BY ONLY <1>1, <1>4
      <3> HIDE DEF g, s
      <3> QED
        BY ONLY <1>1, <1>4, <3>1, <3>2
    <2>5. b * (w + d * q0) = b * w + d * (q0 * b)
      BY ONLY <1>1, <2>0
    <2> HIDE DEF g, s
    <2>6. g * r \in Int /\ d * r \in Int /\ g * g \in Int /\ b * w \in Int
      BY ONLY <1>1, <1>4, <2>0
    <2>7. b * (b * r) = b * w + d * (q0 * b)
      BY ONLY <2>1, <2>5
    <2>8. g * g + d * (q0 * b) <= b * w + d * (q0 * b)
      BY ONLY <2>2, <2>3, <2>4, <2>6, <2>7
    <2> QED
      BY ONLY <2>3, <2>6, <2>8, <2>m
  <1>6. CASE u2 <= d1 - 1
    <2>1. u1 * g <= (b - 1) * g /\ b * u0 <= b * (b - 1)
      <3>1. g * u1 <= g * (b - 1) /\ b * u0 <= b * (b - 1)
        <4> HIDE DEF g, s, m
        <4> QED
          BY ONLY <1>1, <1>4, ProductOrder
      <3> HIDE DEF g, s, m
      <3> QED
        BY ONLY <1>1, <1>4, <3>1
    <2>2. b * (u2 * k) <= (d - b) * d
      <3>1. u2 * k <= (d1 - 1) * d
        <4>1. u2 * k <= u2 * d /\ d * u2 <= d * (d1 - 1)
          BY ONLY <1>1, <1>6, ProductOrder
        <4> QED
          BY ONLY <1>1, <4>1
      <3>2. b * (u2 * k) <= b * ((d1 - 1) * d)
        <4> DEFINE lo == u2 * k
                   hi == (d1 - 1) * d
        <4>1. lo \in Int /\ hi \in Int /\ lo <= hi
          BY ONLY <1>1, <3>1
        <4> HIDE DEF lo, hi
        <4>2. b * lo <= b * hi
          BY ONLY <1>1, <4>1, ProductOrder
        <4> QED
          BY ONLY <4>2 DEF lo, hi
      <3>3. b * ((d1 - 1) * d) = (d1 * b - b) * d
        BY ONLY <1>1
      <3>4. d1 * b - b <= d - b /\ d1 * b - b \in Int /\ d - b \in Int
        BY ONLY <1>1
      <3>5. (d1 * b - b) * d <= (d - b) * d
        <4> DEFINE lo == d1 * b - b
                   hi == d - b
        <4>1. lo \in Int /\ hi \in Int /\ lo <= hi
          BY ONLY <3>4
        <4> HIDE DEF lo, hi
        <4>2. d * lo <= d * hi
          BY ONLY <1>1, <4>1, ProductOrder
        <4>3. lo * d <= hi * d
          BY ONLY <1>1, <4>1, <4>2
        <4> QED
          BY ONLY <4>3 DEF lo, hi
      <3>6. b * (u2 * k) \in Int /\ b * ((d1 - 1) * d) \in Int /\ (d - b) * d \in Int
        BY ONLY <1>1
      <3> QED
        BY ONLY <3>2, <3>3, <3>5, <3>6
    <2> DEFINE a1 == u1 * g
               a2 == b * u0
               a3 == u2 * k
    <2>3. a1 \in Int /\ a2 \in Int /\ a3 \in Int /\ b * a1 <= b * ((b - 1) * g)
          /\ b * a2 <= b * (b * (b - 1)) /\ b * a3 <= (d - b) * d
      <3>1. a1 \in Int /\ a2 \in Int /\ a3 \in Int /\ (b - 1) * g \in Int /\ b * (b - 1) \in Int
        BY ONLY <1>1, <1>4
      <3> DEFINE z1 == (b - 1) * g
                 z2 == b * (b - 1)
      <3>2. a1 <= z1 /\ a2 <= z2 /\ z1 \in Int /\ z2 \in Int
        BY <2>1, <3>1
      <3> HIDE DEF a1, a2, z1, z2
      <3>3. b * a1 <= b * z1 /\ b * a2 <= b * z2
        BY ONLY <1>1, <3>1, <3>2, ProductOrder
      <3> QED
        BY <2>2, <3>1, <3>3 DEF a3, z1, z2
    <2> HIDE DEF a1, a2, a3
    <2>4. m = b * (a1 + a2 + a3 - d * b)
      BY DEF a1, a2, a3
    <2>5. b * (a1 + a2 + a3 - d * b) = b * a1 + b * a2 + b * a3 - b * (d * b)
      BY ONLY <1>1, <2>3
    <2>6. b * ((b - 1) * g) + b * (b * (b - 1)) + (d - b) * d - b * (d * b) = g * g - s
      <3>1. b * ((b - 1) * g) = s * g - b * g /\ b * (b * (b - 1)) = s * b - s
        BY ONLY <1>1, <1>4 DEF s
      <3>2. (d - b) * d = d * d - b * d /\ b * (d * b) = d * s
        BY ONLY <1>1 DEF s
      <3>3. d * d - d * s = g * g - g * s /\ s * b - b * d = b * g
        <4> HIDE DEF g, s, m
        <4> QED
          BY ONLY <1>1, <1>4
      <3> HIDE DEF g, s, m
      <3>4. /\ s * g \in Int /\ b * g \in Int /\ s * b \in Int /\ d * d \in Int /\ b * d \in Int
            /\ d * s \in Int /\ g * g \in Int /\ g * s = s * g
        BY ONLY <1>1, <1>4
      <3> QED
        BY ONLY <1>4, <3>1, <3>2, <3>3, <3>4
    <2> HIDE DEF m, g, s
    <2>7. /\ b * a1 \in Int /\ b * a2 \in Int /\ b * a3 \in Int /\ b * (d * b) \in Int /\ g * g \in Int
          /\ b * ((b - 1) * g) \in Int /\ b * (b * (b - 1)) \in Int /\ (d - b) * d \in Int
      BY ONLY <1>1, <1>4, <2>3
    <2> QED
      BY ONLY <1>4, <1>5, <2>3, <2>4, <2>5, <2>6, <2>7
  <1>7. CASE u2 = d1 /\ d1 <= b - 2
    <2> DEFINE e == b - d0
    <2>1. e \in Nat /\ e >= 1 /\ d0 = b - e /\ u1 <= b - e - 1
      BY ONLY <1>1, <1>3, <1>7
    <2>2. g >= b + 1
      <3>1. b * d1 <= b * (b - 2)
        BY ONLY <1>1, <1>7, ProductOrder
      <3>2. b * d1 = d1 * b /\ b * (b - 2) = s - 2 * b /\ d1 * b \in Int
        BY ONLY <1>1 DEF s
      <3> QED
        BY ONLY <1>1, <1>4, <3>1, <3>2 DEF g
    <2> DEFINE a1 == u1 * g
               a2 == b * u0
               a3 == u2 * k
    <2>3. a1 \in Int /\ a2 \in Int /\ a3 \in Int
      BY ONLY <1>1, <1>4
    <2>4. b * a1 <= b * ((b - e - 1) * g)
      <3> DEFINE z == (b - e - 1) * g
      <3> HIDE DEF e, g, s, m
      <3>1. g * u1 <= g * (b - e - 1) /\ b - e - 1 \in Int
        BY ONLY <1>1, <1>4, <2>1, ProductOrder
      <3>2. z \in Int /\ a1 <= z
        BY ONLY <1>1, <1>4, <2>1, <3>1
      <3> HIDE DEF a1, z
      <3>3. b * a1 <= b * z
        BY ONLY <1>1, <2>3, <3>2, ProductOrder
      <3> QED
        BY ONLY <3>3 DEF z
    <2>5. b * a2 <= b * (b * (b - 1))
      <3> DEFINE z == b * (b - 1)
      <3>1. a2 <= z /\ z \in Int
        BY ONLY <1>1, ProductOrder
      <3> HIDE DEF a2, z
      <3>2. b * a2 <= b * z
        BY ONLY <1>1, <2>3, <3>1, ProductOrder
      <3> QED
        BY ONLY <3>2 DEF z
    <2>6. b * a3 <= (d - d0) * d
      <3>1. u2 * k <= u2 * d /\ u2 * d \in Int
        BY ONLY <1>1, ProductOrder
      <3> DEFINE z == u2 * d
      <3>2. a3 <= z /\ z \in Int
        BY ONLY <3>1
      <3> HIDE DEF a3, z
      <3>3. b * a3 <= b * z
        BY ONLY <1>1, <2>3, <3>2, ProductOrder
      <3>4. b * (u2 * d) = (u2 * b) * d
        BY ONLY <1>1
      <3>5. u2 * b = d - d0
        BY ONLY <1>1, <1>7
      <3> QED
        BY ONLY <3>3, <3>4, <3>5 DEF z
    <2> HIDE DEF a1, a2, a3, e
    <2>7. m = b * (a1 + a2 + a3 - d * b)
      BY DEF a1, a2, a3
    <2>8. b * (a1 + a2 + a3 - d * b) = b * a1 + b * a2 + b * a3 - b * (d * b)
      BY ONLY <1>1, <2>3
    <2>9. b * ((b - e - 1) * g) + b * (b * (b - 1)) + (d - d0) * d - b * (d * b)
            = g * g - s - e * (b * g + g - s)
      <3>1. b * ((b - e - 1) * g) = s * g - b * (e * g) - b * g /\ b * (b * (b - 1)) = s * b - s
        BY ONLY <1>1, <1>4, <2>1 DEF s
      <3>2. (d - d0) * d = d * d - b * d + e * d /\ b * (d * b) = d * s
        BY ONLY <1>1, <2>1 DEF s
      <3>3. d * d - d * s = g * g - g * s /\ s * b - b * d = b * g /\ e * d = e * s - e * g
        <4> HIDE DEF g, s, m
        <4> QED
          BY ONLY <1>1, <1>4, <2>1
      <3> HIDE DEF g, s, m
      <3>4. /\ s * g \in Int /\ b * g \in Int /\ s * b \in Int /\ d * d \in Int /\ b * d \in Int
            /\ d * s \in Int /\ g * g \in Int /\ g * s = s * g /\ b * (e * g) \in Int /\ e * s \in Int
            /\ e * g \in Int /\ e * d \in Int /\ e * (b * g + g - s) = b * (e * g) + e * g - e * s
        BY ONLY <1>1, <1>4, <2>1
      <3> QED
        BY ONLY <1>4, <3>1, <3>2, <3>3, <3>4
    <2>10. e * (b * g + g - s) >= 0
      <3>1. b * g >= b * (b + 1) /\ b * (b + 1) = s + b /\ b * g \in Int
        <4>1. b * (b + 1) <= b * g
          <5> HIDE DEF g, s, m
          <5> QED
            BY ONLY <1>1, <1>4, <2>2, ProductOrder
        <4>2. b * (b + 1) = s + b
          BY ONLY <1>1 DEF s
        <4> HIDE DEF g, s, m
        <4>3. b * g \in Int /\ b * (b + 1) \in Int
          BY ONLY <1>1, <1>4
        <4> QED
          BY ONLY <4>1, <4>2, <4>3
      <3> DEFINE z == b * g + g - s
      <3>2. z \in Nat
        <4> HIDE DEF g, s, m
        <4> QED
          BY ONLY <1>1, <1>4, <3>1
      <3> HIDE DEF z
      <3>3. e * z >= 0
        BY ONLY <2>1, <3>2
      <3> QED
        BY ONLY <3>3 DEF z
    <2> HIDE DEF m, g, s
    <2>11. /\ b * a1 \in Int /\ b * a2 \in Int /\ b * a3 \in Int /\ b * (d * b) \in Int /\ g * g \in Int
           /\ b * ((b - e - 1) * g) \in Int /\ b * (b * (b - 1)) \in Int /\ (d - d0) * d \in Int
           /\ e * (b * g + g - s) \in Int
      BY ONLY <1>1, <1>4, <2>1, <2>3
    <2> QED
      BY ONLY <1>4, <1>5, <2>4, <2>5, <2>6, <2>7, <2>8, <2>9, <2>10, <2>11
  <1>8. CASE u2 = d1 /\ d1 = b - 1
    <2>1. d0 >= 1
      BY ONLY <1>1, <1>3, <1>8
    <2>2. v = 0
      <3>1. ASSUME v >= 1 PROVE FALSE
        <4>1. (b + 1) * d <= (b + v) * d
          <5>1. d * (b + 1) <= d * (b + v)
            BY ONLY <1>1, <3>1, ProductOrder
          <5> QED
            BY ONLY <1>1, <5>1
        <4>2. (b + 1) * d = (b + 1) * ((b - 1) * b) + (b + 1) * d0
          BY ONLY <1>1, <1>8
        <4>3. (b + 1) * ((b - 1) * b) = b * b * b - b
          BY ONLY <1>1
        <4>4. (b + 1) * 1 <= (b + 1) * d0
          BY ONLY <1>1, <2>1, ProductOrder
        <4>5. (b + 1) * d \in Int /\ (b + 1) * d0 \in Int /\ b * b * b \in Int
          BY ONLY <1>1
        <4> QED
          BY ONLY <1>1, <4>1, <4>2, <4>3, <4>4, <4>5
      <3> QED
        BY ONLY <1>1, <3>1
    <2>3. q1 = b - 1
      <3>1. b * (b - 1) + u1 = q1 * b + q0
        BY ONLY <1>1, <1>8, <2>2
      <3>2. b * (b - 1 - q1) = q0 - u1
        BY ONLY <1>1, <3>1
      <3>3. b * (-1) < b * (b - 1 - q1) /\ b * (b - 1 - q1) < b * 1
        BY ONLY <1>1, <3>2
      <3>4. b - 1 - q1 \in Int /\ -1 \in Int /\ 1 \in Int /\ b > 0
        BY ONLY <1>1
      <3>5. -1 < b - 1 - q1 /\ b - 1 - q1 < 1
        <4> DEFINE z == b - 1 - q1
        <4>1. b * (-1) < b * z /\ b * z < b * 1 /\ z \in Int
          BY <3>3, <3>4
        <4> HIDE DEF z
        <4>2. -1 < z /\ z < 1
          BY ONLY <1>1, <3>4, <4>1, ProductOrder
        <4> QED
          BY <4>2 DEF z
      <3> QED
        BY ONLY <1>1, <3>5
    <2>4. r = b * (u2 * b + u1 - d) + u0
      BY ONLY <1>1, <2>3
    <2>5. b * (u2 * b + u1 - d) <= b * (-1)
      <3> DEFINE z == u2 * b + u1 - d
      <3>1. z \in Int /\ z <= -1 /\ -1 \in Int
        BY ONLY <1>1
      <3> HIDE DEF z
      <3>2. b * z <= b * (-1)
        BY ONLY <1>1, <3>1, ProductOrder
      <3> QED
        BY <3>2 DEF z
    <2>6. q0 * b >= 0 /\ b * (u2 * b + u1 - d) \in Int /\ b * (-1) = -b
      BY ONLY <1>1
    <2> QED
      BY ONLY <1>1, <2>4, <2>5, <2>6, r >= q0 * b
  <1> QED
    BY ONLY <1>1, <1>3, <1>6, <1>7, <1>8

\* The remainder r modulo b * b, and the two corrections of it and the quotient.
TwoCorrections(b, d, q1, q0, r, w, lo, hi, q, rem) ==
    /\ w = r % (b * b)
    /\ w >= q0 * b => lo = (w + d) % (b * b) /\ hi = q1
    /\ w < q0 * b => lo = w /\ hi = q1 + 1
    /\ lo >= d => q = hi + 1 /\ rem = lo - d
    /\ lo < d => q = hi /\ rem = lo
Division(b, d, u, q, rem) == q \in 0 .. b - 1 /\ rem \in 0 .. d - 1 /\ u = q * d + rem

LEMMA EstimateCorrects ==
  ASSUME NEW b, NEW d1, NEW d0, NEW d, NEW v, NEW k, Divisor(b, d1, d0, d, v, k),
         NEW u2, NEW u1, NEW u0, Dividend(b, d, u2, u1, u0),
         NEW q1, NEW q0, NEW r, Estimated(b, d, v, u2, u1, u0, q1, q0, r),
         NEW w, NEW rc, NEW qc, NEW q, NEW rem, TwoCorrections(b, d, q1, q0, r, w, rc, qc, q, rem)
  PROVE  Division(b, d, (u2 * b + u1) * b + u0, q, rem)
  <1>1. /\ b \in Nat /\ b >= 2 /\ d \in Nat /\ b * b <= 2 * d /\ d >= 1
        /\ u2 \in Nat /\ u1 \in Nat /\ u0 \in Nat /\ u0 <= b - 1 /\ u2 * b + u1 < d
        /\ q1 \in Int /\ q0 \in Nat /\ q0 <= b - 1
        /\ r \in Int /\ r = (u2 * b + u1) * b + u0 - (q1 + 1) * d
    BY DEF Divisor, Dividend, Estimated
  <1>2. q1 \in 0 .. b - 1 /\ b * b - d > 0 /\ r >= -d /\ r > b * q0 - b * b
    BY ONLY EstimateBelow, Divisor(b, d1, d0, d, v, k), Dividend(b, d, u2, u1, u0),
            Estimated(b, d, v, u2, u1, u0, q1, q0, r)
  <1>3. r < b * b - d \/ r < q0 * b
    BY ONLY EstimateAbove, Divisor(b, d1, d0, d, v, k), Dividend(b, d, u2, u1, u0),
            Estimated(b, d, v, u2, u1, u0, q1, q0, r)
  <1> DEFINE s == b * b
             p == q0 * b
             u == (u2 * b + u1) * b + u0
  <1>4. /\ s \in Nat /\ s > 0 /\ p \in Nat /\ p <= s - b /\ s - d > 0 /\ r > p - s
        /\ (r < s - d \/ r < p) /\ s <= 2 * d /\ u \in Nat
    <2>1. b * q0 <= b * (b - 1)
      BY ONLY <1>1, ProductOrder
    <2>2. b * (b - 1) = s - b /\ b * q0 = p /\ s \in Nat /\ s > 0 /\ p \in Nat /\ u \in Nat
      BY ONLY <1>1 DEF s, p, u
    <2> HIDE DEF u
    <2> QED
      BY ONLY <1>1, <1>2, <1>3, <2>1, <2>2 DEF s, p
  <1>5. u = (q1 + 1) * d + r
    <2>1. (q1 + 1) * d \in Int /\ u \in Int
      BY ONLY <1>1, <1>4
    <2> QED
      BY ONLY <1>1, <2>1 DEF u
  <1>6. u < b * d
    <2>1. b * (u2 * b + u1) <= b * (d - 1)
      <3> DEFINE z == u2 * b + u1
      <3>1. z \in Int /\ z <= d - 1 /\ d - 1 \in Int
        BY ONLY <1>1
      <3> HIDE DEF z
      <3>2. b * z <= b * (d - 1)
        BY ONLY <1>1, <3>1, ProductOrder
      <3> QED
        BY <3>2 DEF z
    <2>2. b * (d - 1) = b * d - b /\ b * (u2 * b + u1) = (u2 * b + u1) * b
          /\ b * d \in Int /\ (u2 * b + u1) * b \in Int
      BY ONLY <1>1
    <2> QED
      BY ONLY <1>1, <2>1, <2>2 DEF u
  <1>7. \A t \in Int : t * d <= u => t + 1 <= b
    <2> SUFFICES ASSUME NEW t \in Int, t * d <= u PROVE t + 1 <= b
      OBVIOUS
    <2>1. t * d = d * t /\ b * d = d * b /\ t * d \in Int /\ b * d \in Int
      BY ONLY <1>1, t \in Int
    <2>2. d * t < d * b
      BY ONLY <1>4, <1>6, <2>1, t * d <= u
    <2>3. t < b
      BY ONLY <1>1, <2>2, t \in Int, ProductOrder
    <2> QED
      BY ONLY <1>1, <2>3, t \in Int
  <1>8. /\ w = r % s
        /\ w >= p => rc = (w + d) % s /\ qc = q1
        /\ w < p => rc = w /\ qc = q1 + 1
        /\ rc >= d => q = qc + 1 /\ rem = rc - d
        /\ rc < d => q = qc /\ rem = rc
    BY DEF TwoCorrections
  <1>9. /\ (q1 + 1) * d = q1 * d + d /\ (q1 + 1) * d \in Int /\ q1 * d \in Int
        /\ (q1 + 1 + 1) * d = (q1 + 1) * d + d
    BY ONLY <1>1
  <1> HIDE DEF s, p, u
  <1>10. ASSUME r < 0 PROVE Division(b, d, u, q, rem)
    <2>1. w = r + s
      <3>1. r = s * (-1) + (r + s) /\ r + s \in 0 .. s - 1 /\ -1 \in Int
        BY ONLY <1>1, <1>2, <1>4, <1>10
      <3>2. s \in Nat \ {0}
        BY ONLY <1>4
      <3>3. r % s = r + s
        BY ONLY <3>1, <3>2, DivisionIs
      <3> QED
        BY ONLY <1>8, <3>3
    <2>2. rc = (r + s + d) % s /\ qc = q1
      <3>1. w >= p /\ w + d = r + s + d
        BY ONLY <1>1, <1>4, <2>1
      <3> QED
        BY ONLY <1>8, <3>1
    <2>3. rc = r + d
      <3>1. r + s + d = s * 1 + (r + d) /\ r + d \in 0 .. s - 1 /\ 1 \in Int /\ r + s + d \in Int
        BY ONLY <1>1, <1>2, <1>4, <1>10
      <3> QED
        BY ONLY <1>1, <1>4, <2>2, <3>1, DivisionIs
    <2>4. q = q1 /\ rem = r + d
      BY ONLY <1>1, <1>8, <1>10, <2>2, <2>3
    <2>5. u = q1 * d + (r + d) /\ r + d \in 0 .. d - 1
      BY ONLY <1>1, <1>2, <1>5, <1>9, <1>10
    <2> QED
      BY ONLY <1>2, <2>4, <2>5 DEF Division
  <1>11. ASSUME r >= 0 PROVE Division(b, d, u, q, rem)
    <2>1. w = r /\ r < s
      <3>1. r < s /\ r \in 0 .. s - 1 /\ s \in Nat \ {0}
        BY ONLY <1>1, <1>4, <1>11
      <3> QED
        BY ONLY <1>8, <3>1, ModSmall
    <2>2. (q1 + 1) * d <= u
      BY ONLY <1>1, <1>4, <1>5, <1>9, <1>11
    <2>3. q1 + 2 <= b
      <3>1. q1 + 1 \in Int
        BY ONLY <1>1
      <3>2. q1 + 1 + 1 <= b
        BY ONLY <1>7, <2>2, <3>1
      <3> QED
        BY ONLY <1>1, <3>2
    <2>5. ASSUME r >= p PROVE Division(b, d, u, q, rem)
      <3>1. r < s - d
        BY ONLY <1>1, <1>4, <2>5
      <3>2. rc = r + d /\ qc = q1
        <4>1. w + d \in 0 .. s - 1
          BY ONLY <1>1, <1>4, <1>11, <2>1, <3>1
        <4>2. (w + d) % s = w + d
          BY ONLY <1>4, <4>1, ModSmall
        <4> QED
          BY ONLY <1>8, <2>1, <2>5, <4>2
      <3>3. q = q1 + 1 /\ rem = r
        BY ONLY <1>1, <1>8, <1>11, <3>2
      <3>4. r \in 0 .. d - 1 /\ q1 + 1 \in 0 .. b - 1
        BY ONLY <1>1, <1>2, <1>4, <1>11, <2>3, <3>1
      <3> QED
        BY ONLY <1>5, <3>3, <3>4 DEF Division
    <2>6. ASSUME r < p PROVE Division(b, d, u, q, rem)
      <3>1. rc = r /\ qc = q1 + 1
        BY ONLY <1>8, <2>1, <2>6
      <3>2. ASSUME r < d PROVE Division(b, d, u, q, rem)
        <4>1. q = q1 + 1 /\ rem = r
          BY ONLY <1>8, <3>1, <3>2
        <4>2. r \in 0 .. d - 1 /\ q1 + 1 \in 0 .. b - 1
          BY ONLY <1>1, <1>2, <1>11, <2>3, <3>2
        <4> QED
          BY ONLY <1>5, <4>1, <4>2 DEF Division
      <3>3. ASSUME r >= d PROVE Division(b, d, u, q, rem)
        <4>1. (q1 + 1 + 1) * d <= u
          BY ONLY <1>1, <1>4, <1>5, <1>9, <3>3
        <4>2. q1 + 1 + 1 + 1 <= b
          <5>1. q1 + 1 + 1 \in Int
            BY ONLY <1>1
          <5> QED
            BY ONLY <1>7, <4>1, <5>1
        <4>3. q1 + 1 + 1 \in 0 .. b - 1
          BY ONLY <1>1, <1>2, <4>2
        <4>5. q = q1 + 1 + 1 /\ rem = r - d
          BY ONLY <1>8, <3>1, <3>3
        <4>6. r - d \in 0 .. d - 1 /\ u = (q1 + 1 + 1) * d + (r - d)
          BY ONLY <1>1, <1>4, <1>5, <1>9, <2>1, <3>3
        <4> QED
          BY ONLY <4>3, <4>5, <4>6 DEF Division
      <3> QED
        BY ONLY <1>1, <3>2, <3>3
    <2> QED
      BY ONLY <1>1, <1>4, <2>5, <2>6
  <1>12. Division(b, d, u, q, rem)
    BY ONLY <1>1, <1>10, <1>11
  <1> QED
    BY <1>12 DEF u

\* A divisor of one digit, its inverse, and a dividend of two.
Single(b, d, v, k) ==
    /\ b \in Nat /\ b >= 2 /\ d \in Nat /\ d < b /\ b <= 2 * d
    /\ v \in Nat /\ k \in Nat /\ 1 <= k /\ k <= d /\ (b + v) * d = b * b - k
SingleDividend(b, d, u1, u0) == u1 \in 0 .. d - 1 /\ u0 \in 0 .. b - 1
SingleEstimate(b, d, v, u1, u0, q1, q0, r) ==
    /\ q1 \in Int /\ q0 \in 0 .. b - 1 /\ (b + v) * u1 + b + u0 = q1 * b + q0
    /\ r = u1 * b + u0 - q1 * d
OneCorrection(b, d, q1, q0, r, w, rc, qc, q, rem) ==
    /\ w = r % b
    /\ w > q0 => rc = (w + d) % b /\ qc = (q1 - 1) % b
    /\ w <= q0 => rc = w /\ qc = q1 % b
    /\ rc >= d => q = (qc + 1) % b /\ rem = rc - d
    /\ rc < d => q = qc /\ rem = rc

LEMMA SingleNear ==
  ASSUME NEW b, NEW d, NEW v, NEW k, Single(b, d, v, k),
         NEW u1, NEW u0, SingleDividend(b, d, u1, u0),
         NEW q1, NEW q0, NEW r, SingleEstimate(b, d, v, u1, u0, q1, q0, r)
  PROVE  r \in Int /\ r >= -d /\ r > q0 - b /\ (r < b - d \/ r < q0)
  <1>1. /\ b \in Nat /\ b >= 2 /\ d \in Nat /\ d < b /\ d >= 1 /\ b <= 2 * d
        /\ v \in Nat /\ k \in Nat /\ 1 <= k /\ k <= d /\ (b + v) * d = b * b - k
        /\ u1 \in Nat /\ u1 <= d - 1 /\ u0 \in Nat /\ u0 <= b - 1
        /\ q1 \in Int /\ q0 \in Nat /\ q0 <= b - 1 /\ (b + v) * u1 + b + u0 = q1 * b + q0
        /\ r \in Int /\ r = u1 * b + u0 - q1 * d
    BY DEF Single, SingleDividend, SingleEstimate
  <1> DEFINE c == b + v
             g == b - d
             s == b * b
  <1>2. c \in Nat /\ c * d = s - k /\ q1 * b = c * u1 + b + u0 - q0 /\ s \in Nat
        /\ g \in Nat /\ g >= 1 /\ b = d + g
    <2>1. q1 * b \in Int /\ (b + v) * u1 \in Int /\ b * b \in Nat
      BY ONLY <1>1
    <2> QED
      BY ONLY <1>1, <2>1
  <1> HIDE DEF c, g, s
  <1>3. b * r = k * u1 + u0 * g + q0 * d - d * b
    <2>1. b * r = b * (u1 * b + u0 - q1 * d)
      BY ONLY <1>1
    <2>2. b * (u1 * b + u0 - q1 * d) = s * u1 + b * u0 - (q1 * b) * d
      BY ONLY <1>1 DEF s
    <2>3. (c * u1 + b + u0 - q0) * d = (c * d) * u1 + b * d + u0 * d - q0 * d
      BY ONLY <1>1, <1>2
    <2>4. (s - k) * u1 = s * u1 - k * u1
      BY ONLY <1>1, <1>2
    <2>5. (q1 * b) * d = s * u1 - k * u1 + b * d + u0 * d - q0 * d
      BY ONLY <1>2, <2>3, <2>4
    <2>6. u0 * g = b * u0 - u0 * d /\ d * b = b * d
      BY ONLY <1>1, <1>2
    <2>7. s * u1 \in Int /\ k * u1 \in Int /\ b * d \in Int /\ u0 * d \in Int /\ q0 * d \in Int /\ b * u0 \in Int
      BY ONLY <1>1, <1>2
    <2> QED
      BY ONLY <2>1, <2>2, <2>5, <2>6, <2>7
  <1>4. k * u1 >= 0 /\ u0 * g >= 0 /\ k * u1 \in Int /\ u0 * g \in Int /\ q0 * d \in Int /\ d * b \in Int
        /\ b * r \in Int /\ q0 * d >= 0
    BY ONLY <1>1, <1>2
  <1>5. r >= -d
    <2>1. b * (-d) <= b * r
      <3>1. b * (-d) = -(d * b)
        BY ONLY <1>1
      <3> QED
        BY ONLY <1>3, <1>4, <3>1
    <2>2. -d \in Int /\ b > 0
      BY ONLY <1>1
    <2> QED
      BY ONLY <1>1, <2>1, <2>2, ProductOrder
  <1>6. r > q0 - b
    <2> DEFINE e == b - q0
    <2>1. e \in Nat /\ e >= 1 /\ q0 * d - d * b = -(d * e) /\ b * (-e) = -(b * e)
      BY ONLY <1>1
    <2>2. d * e < b * e /\ d * e \in Int /\ b * e \in Int
      <3> HIDE DEF e
      <3>1. e * d < e * b
        BY ONLY <1>1, <2>1, ProductOrder
      <3> QED
        BY ONLY <1>1, <2>1, <3>1
    <2> HIDE DEF e
    <2>3. b * (-e) < b * r
      BY ONLY <1>3, <1>4, <2>1, <2>2
    <2>4. -e \in Int /\ b > 0
      BY ONLY <1>1, <2>1
    <2>5. -e < r
      BY ONLY <1>1, <2>3, <2>4, ProductOrder
    <2> QED
      BY ONLY <1>1, <2>5 DEF e
  <1>7. ASSUME r >= g, r >= q0 PROVE FALSE
    <2>1. d * q0 <= d * r /\ g * g <= g * r
      BY ONLY <1>1, <1>2, <1>7, ProductOrder
    <2>2. b * r = d * r + g * r
      BY ONLY <1>1, <1>2
    <2>3. d * q0 = q0 * d /\ d * r \in Int /\ g * r \in Int /\ g * g \in Int
      BY ONLY <1>1, <1>2
    <2>4. g * g <= k * u1 + u0 * g - d * b
      BY ONLY <1>3, <1>4, <2>1, <2>2, <2>3
    <2>5. k * u1 <= d * (d - 1)
      <3>1. u1 * k <= u1 * d /\ d * u1 <= d * (d - 1)
        BY ONLY <1>1, ProductOrder
      <3> QED
        BY ONLY <1>1, <3>1
    <2>6. u0 * g <= (b - 1) * g
      <3>1. g * u0 <= g * (b - 1)
        BY ONLY <1>1, <1>2, ProductOrder
      <3> QED
        BY ONLY <1>1, <1>2, <3>1
    <2>7. d * (d - 1) + (b - 1) * g - d * b = g * g - b
      BY ONLY <1>1, <1>2
    <2>8. d * (d - 1) \in Int /\ (b - 1) * g \in Int
      BY ONLY <1>1, <1>2
    <2> QED
      BY ONLY <1>1, <1>4, <2>3, <2>4, <2>5, <2>6, <2>7, <2>8
  <1>8. r < g \/ r < q0
    BY ONLY <1>1, <1>2, <1>7
  <1> QED
    BY ONLY <1>1, <1>5, <1>6, <1>8 DEF g

LEMMA SingleCorrects ==
  ASSUME NEW b, NEW d, NEW v, NEW k, Single(b, d, v, k),
         NEW u1, NEW u0, SingleDividend(b, d, u1, u0),
         NEW q1, NEW q0, NEW r, SingleEstimate(b, d, v, u1, u0, q1, q0, r),
         NEW w, NEW rc, NEW qc, NEW q, NEW rem, OneCorrection(b, d, q1, q0, r, w, rc, qc, q, rem)
  PROVE  Division(b, d, u1 * b + u0, q, rem)
  <1>1. /\ b \in Nat \ {0} /\ b >= 2 /\ d \in Nat /\ d < b /\ d >= 1 /\ b <= 2 * d
        /\ u1 \in Nat /\ u1 <= d - 1 /\ u0 \in Nat /\ u0 <= b - 1
        /\ q1 \in Int /\ q0 \in Nat /\ q0 <= b - 1 /\ r = u1 * b + u0 - q1 * d
    BY DEF Single, SingleDividend, SingleEstimate
  <1>2. r \in Int /\ r >= -d /\ r > q0 - b /\ (r < b - d \/ r < q0)
    BY ONLY SingleNear, Single(b, d, v, k), SingleDividend(b, d, u1, u0),
            SingleEstimate(b, d, v, u1, u0, q1, q0, r)
  <1>3. /\ w = r % b
        /\ w > q0 => rc = (w + d) % b /\ qc = (q1 - 1) % b
        /\ w <= q0 => rc = w /\ qc = q1 % b
        /\ rc >= d => q = (qc + 1) % b /\ rem = rc - d
        /\ rc < d => q = qc /\ rem = rc
    BY DEF OneCorrection
  <1> DEFINE u == u1 * b + u0
  <1>4. u = q1 * d + r /\ u \in Nat /\ q1 * d \in Int
    <2>1. q1 * d \in Int /\ u1 * b \in Nat
      BY ONLY <1>1
    <2> QED
      BY ONLY <1>1, <2>1
  <1>5. u < d * b
    <2>1. b * u1 <= b * (d - 1) /\ b * (d - 1) = d * b - b /\ b * u1 = u1 * b /\ u1 * b \in Int /\ d * b \in Int
      BY ONLY <1>1, ProductOrder
    <2> QED
      BY ONLY <1>1, <2>1
  <1> HIDE DEF u
  <1>6. \A t \in Int : \A e \in Int : u = t * d + e /\ 0 <= e /\ e < d => t \in 0 .. b - 1
    <2> SUFFICES ASSUME NEW t \in Int, NEW e \in Int, u = t * d + e, 0 <= e, e < d PROVE t \in 0 .. b - 1
      OBVIOUS
    <2>1. t * d = d * t /\ d * t \in Int /\ d * b \in Int /\ d * (-1) = -d
      BY ONLY <1>1, t \in Int
    <2>2. d * t < d * b /\ d * (-1) < d * t
      BY ONLY <1>1, <1>4, <1>5, <2>1, e \in Int, u = t * d + e, 0 <= e, e < d
    <2>3. -1 \in Int /\ d > 0 /\ b \in Int
      BY ONLY <1>1
    <2>4. t < b /\ -1 < t
      BY ONLY <1>1, <2>2, <2>3, t \in Int, ProductOrder
    <2> QED
      BY ONLY <1>1, <2>4, t \in Int
  <1>7. \A t \in Int : t \in 0 .. b - 1 => t % b = t
    BY ONLY <1>1, ModSmall
  <1>8. ASSUME r < 0 PROVE Division(b, d, u, q, rem)
    <2>1. w = r + b
      <3>1. r = b * (-1) + (r + b) /\ r + b \in 0 .. b - 1 /\ -1 \in Int
        BY ONLY <1>1, <1>2, <1>8
      <3>2. r % b = r + b
        BY ONLY <1>1, <3>1, DivisionIs
      <3> QED
        BY ONLY <1>3, <3>2
    <2>2. rc = (w + d) % b /\ qc = (q1 - 1) % b
      BY ONLY <1>1, <1>2, <1>3, <2>1
    <2>3. rc = r + d
      <3>1. w + d = b * 1 + (r + d) /\ r + d \in 0 .. b - 1 /\ 1 \in Int
        BY ONLY <1>1, <1>2, <1>8, <2>1
      <3> QED
        BY ONLY <1>1, <2>2, <3>1, DivisionIs
    <2>4. u = (q1 - 1) * d + (r + d) /\ q1 - 1 \in Int /\ r + d \in Int /\ 0 <= r + d /\ r + d < d
      BY ONLY <1>1, <1>2, <1>4, <1>8
    <2>5. q1 - 1 \in 0 .. b - 1
      BY ONLY <1>6, <2>4
    <2>6. qc = q1 - 1
      BY ONLY <1>7, <2>2, <2>4, <2>5
    <2>7. q = q1 - 1 /\ rem = r + d
      BY ONLY <1>3, <2>3, <2>4, <2>6
    <2>8. r + d \in 0 .. d - 1
      BY ONLY <1>1, <2>4
    <2> QED
      BY ONLY <2>4, <2>5, <2>7, <2>8 DEF Division
  <1>9. ASSUME r >= 0 PROVE Division(b, d, u, q, rem)
    <2>1. w = r /\ r < b
      <3>1. r < b /\ r \in 0 .. b - 1
        BY ONLY <1>1, <1>2, <1>9
      <3> QED
        BY ONLY <1>1, <1>3, <3>1, ModSmall
    <2>2. ASSUME r > q0 PROVE Division(b, d, u, q, rem)
      <3>1. r < b - d
        BY ONLY <1>1, <1>2, <2>2
      <3>2. rc = r + d
        <4>1. w + d \in 0 .. b - 1 /\ w + d = r + d
          BY ONLY <1>1, <1>2, <1>9, <2>1, <3>1
        <4>2. (w + d) % b = w + d
          BY ONLY <1>1, <4>1, ModSmall
        <4> QED
          BY ONLY <1>3, <2>1, <2>2, <4>2
      <3>3. q = (qc + 1) % b /\ rem = r
        BY ONLY <1>1, <1>2, <1>3, <1>9, <3>2
      <3>4. r < d
        BY ONLY <1>1, <1>2, <3>1
      <3>5. q1 \in 0 .. b - 1
        BY ONLY <1>1, <1>2, <1>4, <1>6, <1>9, <3>4
      <3>6. (qc + 1) % b = q1
        <4>1. qc = (q1 - 1) % b
          BY ONLY <1>3, <2>1, <2>2
        <4>2. CASE q1 = 0
          <5>1. q1 - 1 = b * (-1) + (b - 1) /\ b - 1 \in 0 .. b - 1 /\ -1 \in Int
            BY ONLY <1>1, <4>2
          <5>2. qc = b - 1
            BY ONLY <1>1, <4>1, <5>1, DivisionIs
          <5>3. qc + 1 = b * 1 + 0 /\ 0 \in 0 .. b - 1 /\ 1 \in Int
            BY ONLY <1>1, <5>2
          <5> QED
            BY ONLY <1>1, <4>2, <5>3, DivisionIs
        <4>3. CASE q1 # 0
          <5>1. q1 - 1 \in 0 .. b - 1 /\ q1 - 1 \in Int
            BY ONLY <1>1, <3>5, <4>3
          <5>2. qc = q1 - 1
            BY ONLY <1>7, <4>1, <5>1
          <5>3. qc + 1 = q1
            BY ONLY <1>1, <5>2
          <5> QED
            BY ONLY <1>1, <1>7, <3>5, <5>3
        <4> QED
          BY ONLY <4>2, <4>3
      <3>7. r \in 0 .. d - 1
        BY ONLY <1>1, <1>2, <1>9, <3>4
      <3> QED
        BY ONLY <1>4, <3>3, <3>5, <3>6, <3>7 DEF Division
    <2>3. ASSUME r <= q0 PROVE Division(b, d, u, q, rem)
      <3>1. rc = r /\ qc = q1 % b
        BY ONLY <1>3, <2>1, <2>3
      <3>2. ASSUME r < d PROVE Division(b, d, u, q, rem)
        <4>1. q1 \in 0 .. b - 1
          BY ONLY <1>1, <1>2, <1>4, <1>6, <1>9, <3>2
        <4>2. q = q1 /\ rem = r
          BY ONLY <1>1, <1>3, <1>7, <3>1, <3>2, <4>1
        <4>3. r \in 0 .. d - 1
          BY ONLY <1>1, <1>2, <1>9, <3>2
        <4> QED
          BY ONLY <1>4, <4>1, <4>2, <4>3 DEF Division
      <3>3. ASSUME r >= d PROVE Division(b, d, u, q, rem)
        <4>1. u = (q1 + 1) * d + (r - d) /\ q1 + 1 \in Int /\ r - d \in Int /\ 0 <= r - d /\ r - d < d
          BY ONLY <1>1, <1>2, <1>4, <2>1, <3>3
        <4>2. q1 + 1 \in 0 .. b - 1
          BY ONLY <1>6, <4>1
        <4>3. q1 # -1 => q1 % b = q1
          <5>1. q1 # -1 => q1 \in 0 .. b - 1
            BY ONLY <1>1, <4>2
          <5> QED
            BY ONLY <1>1, <1>7, <5>1
        <4>4. (qc + 1) % b = q1 + 1
          <5>1. CASE q1 # -1
            <6>1. qc + 1 = q1 + 1
              BY ONLY <3>1, <4>3, <5>1
            <6> QED
              BY ONLY <1>7, <4>1, <4>2, <6>1
          <5>2. CASE q1 = -1
            <6>1. q1 = b * (-1) + (b - 1) /\ b - 1 \in 0 .. b - 1 /\ -1 \in Int
              BY ONLY <1>1, <5>2
            <6>2. qc = b - 1
              BY ONLY <1>1, <3>1, <6>1, DivisionIs
            <6>3. qc + 1 = b * 1 + 0 /\ 0 \in 0 .. b - 1 /\ 1 \in Int
              BY ONLY <1>1, <6>2
            <6>4. q1 + 1 = 0
              BY ONLY <5>2
            <6> QED
              BY ONLY <1>1, <6>3, <6>4, DivisionIs
          <5> QED
            BY ONLY <5>1, <5>2
        <4>5. q = q1 + 1 /\ rem = r - d
          BY ONLY <1>3, <3>1, <3>3, <4>4
        <4>6. r - d \in 0 .. d - 1
          BY ONLY <1>1, <4>1
        <4> QED
          BY ONLY <4>1, <4>2, <4>5, <4>6 DEF Division
      <3> QED
        BY ONLY <1>1, <1>2, <3>2, <3>3
    <2> QED
      BY ONLY <1>1, <1>2, <2>2, <2>3
  <1>10. Division(b, d, u, q, rem)
    BY ONLY <1>2, <1>8, <1>9
  <1> QED
    BY <1>10 DEF u

\* The divisors of a power of two are powers of two.
LEMMA DivisorsOfPower ==
  \A n \in Nat : \A c \in Nat : \A d \in Nat : c * d = Pow(2, n) => \E j \in 0 .. n : d = Pow(2, j)
  <1> DEFINE OK(n) == \A c \in Nat : \A d \in Nat : c * d = Pow(2, n) => \E j \in 0 .. n : d = Pow(2, j)
             S == {n \in Nat : OK(n)}
  <1>0. Pow(2, 0) = 1
    BY PowRec, 2 \in Int
  <1>1. 0 \in S
    <2> SUFFICES ASSUME NEW c \in Nat, NEW d \in Nat, c * d = Pow(2, 0) PROVE \E j \in 0 .. 0 : d = Pow(2, j)
      OBVIOUS
    <2>1. c * d = 1
      BY <1>0
    <2>2. d = 1
      <3>1. c >= 1 /\ d >= 1
        <4>1. (c = 0 => c * d = 0) /\ (d = 0 => c * d = 0)
          OBVIOUS
        <4> QED
          BY <2>1, <4>1
      <3>2. d <= c * d
        <4>1. d * 1 <= d * c
          BY ONLY <3>1, c \in Nat, d \in Nat, ProductOrder
        <4> QED
          BY <4>1
      <3> QED
        BY <2>1, <3>1, <3>2
    <2> QED
      BY <1>0, <2>2
  <1>2. ASSUME NEW n \in Nat, n \in S PROVE n + 1 \in S
    <2>0. OK(n)
      BY <1>2
    <2>1. Pow(2, n + 1) = 2 * Pow(2, n) /\ Pow(2, n) \in Nat
      BY TwoPow
    <2>2. ASSUME NEW c \in Nat, NEW d \in Nat, c * d = Pow(2, n + 1) PROVE \E j \in 0 .. n + 1 : d = Pow(2, j)
      <3> DEFINE p == Pow(2, n)
                 c2 == c \div 2
                 d2 == d \div 2
      <3>1. c * d = 2 * p /\ p \in Nat
        BY <2>1, <2>2
      <3>2. c2 \in Nat /\ d2 \in Nat /\ (c = 2 * c2 \/ c = 2 * c2 + 1) /\ (d = 2 * d2 \/ d = 2 * d2 + 1)
        BY c \in Nat, d \in Nat
      <3> HIDE DEF p, c2, d2
      <3>3. CASE c = 2 * c2
        <4>1. c * d = 2 * (c2 * d) /\ c2 * d \in Int
          BY ONLY <3>2, <3>3, d \in Nat
        <4>2. c2 * d = p
          <5> DEFINE e == c2 * d
          <5>1. 2 * e = 2 * p /\ e \in Int /\ p \in Int
            BY ONLY <3>1, <4>1
          <5> HIDE DEF e
          <5>2. e = p
            BY ONLY <5>1
          <5> QED
            BY <5>2 DEF e
        <4>3. PICK j \in 0 .. n : d = Pow(2, j)
          BY <2>0, <3>2, <4>2 DEF p
        <4>4. j \in 0 .. n + 1
          OBVIOUS
        <4> QED
          BY <4>3, <4>4
      <3>4. CASE d = 2 * d2
        <4>1. c * d = 2 * (c * d2) /\ c * d2 \in Int
          BY ONLY <3>2, <3>4, c \in Nat
        <4>2. c * d2 = p
          <5> DEFINE e == c * d2
          <5>1. 2 * e = 2 * p /\ e \in Int /\ p \in Int
            BY ONLY <3>1, <4>1
          <5> HIDE DEF e
          <5>2. e = p
            BY ONLY <5>1
          <5> QED
            BY <5>2 DEF e
        <4>3. PICK j \in 0 .. n : d2 = Pow(2, j)
          BY <2>0, <3>2, <4>2 DEF p
        <4>4. j + 1 \in 0 .. n + 1 /\ j \in Nat
          OBVIOUS
        <4>5. Pow(2, j + 1) = 2 * Pow(2, j)
          BY ONLY <4>4, TwoPow
        <4> QED
          BY <3>4, <4>3, <4>4, <4>5
      <3>5. CASE c = 2 * c2 + 1 /\ d = 2 * d2 + 1
        <4>1. c * d = 2 * (2 * (c2 * d2) + c2 + d2) + 1 /\ c2 * d2 \in Int
          BY ONLY <3>2, <3>5
        <4> DEFINE e == 2 * (c2 * d2) + c2 + d2
        <4>2. e \in Int
          BY ONLY <3>2, <4>1
        <4> HIDE DEF e
        <4>3. 2 * p = 2 * e + 1
          BY <3>1, <4>1 DEF e
        <4>4. FALSE
          BY ONLY <3>1, <4>2, <4>3
        <4> QED
          BY <4>4
      <3> QED
        BY ONLY <3>2, <3>3, <3>4, <3>5
    <2> QED
      BY <2>2
  <1>3. \A n \in Nat : n \in S
    <2> HIDE DEF S
    <2> QED
      BY ONLY <1>1, <1>2, Induction
  <1> QED
    BY <1>3

----------------------------------------------------------------------------
(* Loops over limbs.                                                       *)

\* The limbs of a chain and what is handed on: c[i] leaves limb i.
Run(p, n, c0, e) ==
    p = [i \in 0 .. n |-> IF i = 0 THEN [r |-> <<>>, cy |-> c0]
                          ELSE [r |-> Append(p[i - 1].r, e[i][1]), cy |-> e[i][2]]]
Chained(t, n, R, C, c0, c, e) ==
    /\ t.r \in Seq(R) /\ Len(t.r) = n /\ t.cy = c[n]
    /\ c \in [0 .. n -> C] /\ c[0] = c0
    /\ \A i \in 1 .. n : e[i] \in R \X C /\ t.r[i] = e[i][1] /\ c[i] = e[i][2]

RunsBy(n, C, c0, g) ==
    \E p, e : Run(p, n, c0, e) /\ \A i \in 1 .. n : p[i - 1].cy \in C /\ e[i] = g[<<i, p[i - 1].cy>>]

LEMMA ChainExists ==
  ASSUME NEW n \in Nat, NEW R, NEW C, NEW c0 \in C, NEW g \in [(1 .. n) \X C -> R \X C]
  PROVE  RunsBy(n, C, c0, g)
  <1> DEFINE D == [r : Seq(R), cy : C]
             a == [r |-> <<>>, cy |-> c0]
             h == [q \in (1 .. n) \X D |-> [r |-> Append(q[2].r, g[<<q[1], q[2].cy>>][1]),
                                            cy |-> g[<<q[1], q[2].cy>>][2]]]
  <1>1. a \in D
    BY EmptySeq
  <1>2. h \in [(1 .. n) \X D -> D]
    <2>1. ASSUME NEW i \in 1 .. n, NEW d \in D
          PROVE  [r |-> Append(d.r, g[<<i, d.cy>>][1]), cy |-> g[<<i, d.cy>>][2]] \in D
      <3>1. g[<<i, d.cy>>] \in R \X C
        BY <2>1
      <3>2. g[<<i, d.cy>>][1] \in R /\ g[<<i, d.cy>>][2] \in C /\ d.r \in Seq(R)
        BY <3>1
      <3> QED
        BY <3>2, AppendProperties
    <2> HIDE DEF D
    <2> QED
      BY <2>1
  <1>3. PICK p \in [0 .. n -> D] : Steps(p, n, a, h)
    <2> HIDE DEF a, h, D
    <2> QED
      BY <1>1, <1>2, StepsExist
  <1>4. p[0] = a /\ \A i \in 1 .. n : p[i] = [r |-> Append(p[i - 1].r, g[<<i, p[i - 1].cy>>][1]),
                                             cy |-> g[<<i, p[i - 1].cy>>][2]]
    <2>1. p[0] = a /\ \A i \in 1 .. n : p[i] = h[<<i, p[i - 1]>>]
      BY <1>3 DEF Steps
    <2>2. ASSUME NEW i \in 1 .. n PROVE <<i, p[i - 1]>> \in (1 .. n) \X D
      <3>1. i - 1 \in 0 .. n
        OBVIOUS
      <3> HIDE DEF D
      <3> QED
        BY <3>1
    <2> HIDE DEF a, D
    <2> QED
      BY <2>1, <2>2
  <1>5. \A i \in 0 .. n : p[i].cy \in C
    OBVIOUS
  <1>6. Run(p, n, c0, [i \in 1 .. n |-> g[<<i, p[i - 1].cy>>]])
    <2> DEFINE e == [i \in 1 .. n |-> g[<<i, p[i - 1].cy>>]]
    <2>1. \A i \in 1 .. n : e[i] = g[<<i, p[i - 1].cy>>]
      OBVIOUS
    <2>2. \A i \in 0 .. n : i # 0 => i \in 1 .. n
      OBVIOUS
    <2>3. DOMAIN p = 0 .. n /\ p = [i \in 0 .. n |-> p[i]]
      OBVIOUS
    <2> HIDE DEF e
    <2>4. ASSUME NEW i \in 0 .. n
          PROVE  p[i] = IF i = 0 THEN [r |-> <<>>, cy |-> c0]
                        ELSE [r |-> Append(p[i - 1].r, e[i][1]), cy |-> e[i][2]]
      BY <1>4, <2>1, <2>2
    <2>5. Run(p, n, c0, e)
      BY <2>3, <2>4 DEF Run
    <2> QED
      BY <2>5 DEF e
  <1>7. \A i \in 1 .. n : p[i - 1].cy \in C /\ [k \in 1 .. n |-> g[<<k, p[k - 1].cy>>]][i] = g[<<i, p[i - 1].cy>>]
    <2>1. \A i \in 1 .. n : i - 1 \in 0 .. n
      OBVIOUS
    <2> QED
      BY <1>5, <2>1
  <1> QED
    BY <1>6, <1>7 DEF RunsBy

LEMMA ChainResult ==
  ASSUME NEW n \in Nat, NEW R, NEW C, NEW c0 \in C, NEW p, NEW e, Run(p, n, c0, e),
         \A i \in 1 .. n : p[i - 1].cy \in C => e[i] \in R \X C
  PROVE  Chained(p[n], n, R, C, c0, [i \in 0 .. n |-> p[i].cy], e)
  <1>1. /\ p[0] = [r |-> <<>>, cy |-> c0]
        /\ \A i \in 1 .. n : p[i] = [r |-> Append(p[i - 1].r, e[i][1]), cy |-> e[i][2]]
    <2>1. 0 \in 0 .. n /\ \A i \in 1 .. n : i \in 0 .. n /\ i # 0
      OBVIOUS
    <2> QED
      BY <2>1 DEF Run
  <1> DEFINE Good(k) == /\ p[k].r \in Seq(R) /\ Len(p[k].r) = k /\ p[k].cy \in C
                        /\ \A i \in 1 .. k : e[i] \in R \X C /\ p[k].r[i] = e[i][1]
             S == {k \in Nat : k <= n => Good(k)}
  <1>2. \A k \in Nat : k \in S
    <2>1. 0 \in S
      <3>1. p[0].r = <<>> /\ p[0].cy = c0
        BY <1>1
      <3>2. p[0].r \in Seq(R) /\ Len(p[0].r) = 0
        BY <3>1, EmptySeq
      <3>3. Good(0)
        BY <3>1, <3>2
      <3> HIDE DEF Good
      <3> QED
        BY <3>3
    <2>2. ASSUME NEW k \in Nat, k \in S PROVE k + 1 \in S
      <3>1. SUFFICES ASSUME k + 1 <= n PROVE Good(k + 1)
        OBVIOUS
      <3>2. k + 1 \in 1 .. n /\ (k + 1) - 1 = k /\ k <= n
        BY <3>1
      <3>3. Good(k)
        BY <2>2, <3>2
      <3>4. e[k + 1] \in R \X C
        BY <3>2, <3>3
      <3>5. p[k + 1] = [r |-> Append(p[k].r, e[k + 1][1]), cy |-> e[k + 1][2]]
        BY <1>1, <3>2
      <3> DEFINE s == p[k].r
                 b == e[k + 1][1]
      <3>6. s \in Seq(R) /\ Len(s) = k /\ b \in R /\ e[k + 1][2] \in C
        BY <3>3, <3>4
      <3>7. /\ Append(s, b) \in Seq(R) /\ Len(Append(s, b)) = k + 1
            /\ \A i \in 1 .. k : Append(s, b)[i] = s[i]
            /\ Append(s, b)[k + 1] = b
        <4> HIDE DEF s, b
        <4> QED
          BY <3>6, AppendProperties
      <3>8. ASSUME NEW i \in 1 .. k + 1 PROVE e[i] \in R \X C /\ p[k + 1].r[i] = e[i][1]
        <4>1. CASE i = k + 1
          BY <3>4, <3>5, <3>7, <4>1
        <4>2. CASE i # k + 1
          <5>1. i \in 1 .. k
            BY <4>2
          <5> QED
            BY <3>3, <3>5, <3>7, <5>1
        <4> QED
          BY <4>1, <4>2
      <3> QED
        BY <3>5, <3>6, <3>7, <3>8
    <2> HIDE DEF S
    <2> QED
      BY <2>1, <2>2, Induction
  <1>3. ASSUME NEW i \in 0 .. n PROVE Good(i)
    <2>1. i \in Nat /\ i <= n
      OBVIOUS
    <2> QED
      BY <1>2, <2>1
  <1> DEFINE c == [i \in 0 .. n |-> p[i].cy]
  <1>4. n \in 0 .. n /\ 0 \in 0 .. n /\ \A i \in 1 .. n : i \in 0 .. n
    OBVIOUS
  <1>5. c \in [0 .. n -> C] /\ c[0] = c0 /\ c[n] = p[n].cy /\ \A i \in 1 .. n : c[i] = e[i][2]
    <2>1. \A i \in 0 .. n : p[i].cy \in C
      BY <1>3
    <2>3. p[0].cy = c0
      BY <1>1
    <2>4. ASSUME NEW i \in 1 .. n PROVE p[i].cy = e[i][2]
      <3>1. p[i] = [r |-> Append(p[i - 1].r, e[i][1]), cy |-> e[i][2]]
        BY <1>1
      <3> QED
        BY <3>1
    <2>2. p[0].cy = c0 /\ \A i \in 1 .. n : p[i].cy = e[i][2]
      BY <2>3, <2>4
    <2> HIDE DEF Good
    <2> QED
      BY <1>4, <2>1, <2>2
  <1> HIDE DEF c
  <1>6. Good(n)
    BY <1>3, <1>4
  <1> HIDE DEF Good
  <1>7. Chained(p[n], n, R, C, c0, c, e)
    BY <1>5, <1>6 DEF Chained, Good
  <1> QED
    BY <1>7 DEF c

\* Chain, with a step that stays in C.
StepsIn(step, n, R, C) == \A i \in 1 .. n : \A c \in C : step[i][c] \in R \X C
Follows(e, step, c, n) == \A i \in 1 .. n : e[i] = step[i][c[i - 1]]
ChainIs(t, step, n, R, C, c0) ==
    \E c, e : Chained(t, n, R, C, c0, c, e) /\ Follows(e, step, c, n)

LEMMA ChainRuns ==
  ASSUME NEW n \in Nat, NEW R, NEW C, NEW c0 \in C, NEW step, StepsIn(step, n, R, C)
  PROVE  ChainIs(Chain(step, n, c0), step, n, R, C, c0)
  <1>0. \A i \in 1 .. n : \A c \in C : step[i][c] \in R \X C
    BY DEF StepsIn
  <1> DEFINE Def(p) == p = [i \in 0 .. n |->
                              IF i = 0 THEN [r |-> <<>>, cy |-> c0]
                              ELSE LET q == p[i - 1]
                                       s == step[i][q.cy]
                                   IN  [r |-> Append(q.r, s[1]), cy |-> s[2]]]
             P == CHOOSE p : Def(p)
             g == [q \in (1 .. n) \X C |-> step[q[1]][q[2]]]
  <1>1. Chain(step, n, c0) = P[n]
    BY DEF Chain
  <1>4. ASSUME NEW p, NEW e, \A i \in 1 .. n : e[i] = step[i][p[i - 1].cy]
        PROVE  Run(p, n, c0, e) <=> Def(p)
    <2>1. ASSUME NEW i \in 0 .. n, i # 0
          PROVE  [r |-> Append(p[i - 1].r, e[i][1]), cy |-> e[i][2]] =
                 [r |-> Append(p[i - 1].r, step[i][p[i - 1].cy][1]), cy |-> step[i][p[i - 1].cy][2]]
      <3>1. i \in 1 .. n
        BY <2>1
      <3> QED
        BY <1>4, <3>1
    <2> QED
      BY <2>1 DEF Run
  <1>5. Def(P)
    <2>1. RunsBy(n, C, c0, g)
      <3>1. g \in [(1 .. n) \X C -> R \X C]
        BY <1>0
      <3> HIDE DEF g
      <3> QED
        BY <3>1, ChainExists
    <2>2. PICK f, e : Run(f, n, c0, e) /\ \A i \in 1 .. n : f[i - 1].cy \in C /\ e[i] = g[<<i, f[i - 1].cy>>]
      BY <2>1 DEF RunsBy
    <2>3. \A i \in 1 .. n : e[i] = step[i][f[i - 1].cy]
      BY <2>2
    <2>4. Def(f)
      <3> HIDE DEF Def
      <3> QED
        BY <1>4, <2>2, <2>3
    <2> HIDE DEF Def
    <2> QED
      BY <2>4
  <1> DEFINE e == [i \in 1 .. n |-> step[i][P[i - 1].cy]]
             c == [i \in 0 .. n |-> P[i].cy]
  <1> HIDE DEF P
  <1>6. \A i \in 1 .. n : e[i] = step[i][P[i - 1].cy] /\ c[i - 1] = P[i - 1].cy
    <2>1. \A i \in 1 .. n : i - 1 \in 0 .. n
      OBVIOUS
    <2> QED
      BY <2>1
  <1> HIDE DEF e, Def
  <1>7. Run(P, n, c0, e)
    BY <1>4, <1>5, <1>6
  <1>8. Chained(P[n], n, R, C, c0, c, e)
    <2>1. \A i \in 1 .. n : P[i - 1].cy \in C => e[i] \in R \X C
      BY <1>0, <1>6
    <2> QED
      BY <1>7, <2>1, ChainResult
  <1>9. \A i \in 1 .. n : e[i] = step[i][c[i - 1]]
    BY <1>6
  <1> QED
    BY <1>1, <1>8, <1>9 DEF ChainIs, Follows

\* What ChainDown does to the limbs it has.
Prepend(a, s) == <<a>> \o s

LEMMA Prepended ==
  ASSUME NEW R, NEW a \in R, NEW s \in Seq(R)
  PROVE  /\ Prepend(a, s) \in Seq(R) /\ Len(Prepend(a, s)) = Len(s) + 1
         /\ Prepend(a, s)[1] = a /\ \A i \in 1 .. Len(s) : Prepend(a, s)[i + 1] = s[i]
  <1>1. <<a>> \in Seq(R) /\ Len(<<a>>) = 1 /\ <<a>>[1] = a
    OBVIOUS
  <1>2. /\ <<a>> \o s \in Seq(R) /\ Len(<<a>> \o s) = 1 + Len(s)
        /\ \A i \in 1 .. 1 + Len(s) : (<<a>> \o s)[i] = IF i <= 1 THEN <<a>>[i] ELSE s[i - 1]
    BY <1>1, ConcatProperties
  <1>3. Len(s) \in Nat /\ \A i \in 1 .. Len(s) : i + 1 \in 1 .. 1 + Len(s) /\ ~(i + 1 <= 1) /\ (i + 1) - 1 = i
    OBVIOUS
  <1>4. 1 \in 1 .. 1 + Len(s)
    BY <1>3
  <1> QED
    BY <1>1, <1>2, <1>3, <1>4 DEF Prepend

\* The same from the last limb down: limb n + 1 - i is made in turn i.
RunDown(p, n, c0, e) ==
    p = [i \in 0 .. n |-> IF i = 0 THEN [r |-> <<>>, cy |-> c0]
                          ELSE [r |-> Prepend(e[i][1], p[i - 1].r), cy |-> e[i][2]]]
RunsDownBy(n, C, c0, g) ==
    \E p, e : RunDown(p, n, c0, e) /\ \A i \in 1 .. n : p[i - 1].cy \in C /\ e[i] = g[<<i, p[i - 1].cy>>]
Downward(t, n, R, C, c0, c, e) ==
    /\ t.r \in Seq(R) /\ Len(t.r) = n /\ t.cy = c[n]
    /\ c \in [0 .. n -> C] /\ c[0] = c0
    /\ \A i \in 1 .. n : e[i] \in R \X C /\ t.r[n + 1 - i] = e[i][1] /\ c[i] = e[i][2]

LEMMA ChainDownExists ==
  ASSUME NEW n \in Nat, NEW R, NEW C, NEW c0 \in C, NEW g \in [(1 .. n) \X C -> R \X C]
  PROVE  RunsDownBy(n, C, c0, g)
  <1> DEFINE D == [r : Seq(R), cy : C]
             a == [r |-> <<>>, cy |-> c0]
             h == [q \in (1 .. n) \X D |-> [r |-> Prepend(g[<<q[1], q[2].cy>>][1], q[2].r),
                                            cy |-> g[<<q[1], q[2].cy>>][2]]]
  <1>1. a \in D
    BY EmptySeq
  <1>2. h \in [(1 .. n) \X D -> D]
    <2>1. ASSUME NEW i \in 1 .. n, NEW d \in D
          PROVE  [r |-> Prepend(g[<<i, d.cy>>][1], d.r), cy |-> g[<<i, d.cy>>][2]] \in D
      <3>1. g[<<i, d.cy>>] \in R \X C
        BY <2>1
      <3>2. g[<<i, d.cy>>][1] \in R /\ g[<<i, d.cy>>][2] \in C /\ d.r \in Seq(R)
        BY <3>1
      <3> QED
        BY <3>2, Prepended
    <2> HIDE DEF D
    <2> QED
      BY <2>1
  <1>3. PICK p \in [0 .. n -> D] : Steps(p, n, a, h)
    <2> HIDE DEF a, h, D
    <2> QED
      BY <1>1, <1>2, StepsExist
  <1>4. p[0] = a /\ \A i \in 1 .. n : p[i] = [r |-> Prepend(g[<<i, p[i - 1].cy>>][1], p[i - 1].r),
                                             cy |-> g[<<i, p[i - 1].cy>>][2]]
    <2>1. p[0] = a /\ \A i \in 1 .. n : p[i] = h[<<i, p[i - 1]>>]
      BY <1>3 DEF Steps
    <2>2. ASSUME NEW i \in 1 .. n PROVE <<i, p[i - 1]>> \in (1 .. n) \X D
      <3>1. i - 1 \in 0 .. n
        OBVIOUS
      <3> HIDE DEF D
      <3> QED
        BY <3>1
    <2> HIDE DEF a, D
    <2> QED
      BY <2>1, <2>2
  <1>5. \A i \in 0 .. n : p[i].cy \in C
    OBVIOUS
  <1>6. RunDown(p, n, c0, [i \in 1 .. n |-> g[<<i, p[i - 1].cy>>]])
    <2> DEFINE e == [i \in 1 .. n |-> g[<<i, p[i - 1].cy>>]]
    <2>1. \A i \in 1 .. n : e[i] = g[<<i, p[i - 1].cy>>]
      OBVIOUS
    <2>2. \A i \in 0 .. n : i # 0 => i \in 1 .. n
      OBVIOUS
    <2>3. DOMAIN p = 0 .. n /\ p = [i \in 0 .. n |-> p[i]]
      OBVIOUS
    <2> HIDE DEF e
    <2>4. ASSUME NEW i \in 0 .. n
          PROVE  p[i] = IF i = 0 THEN [r |-> <<>>, cy |-> c0]
                        ELSE [r |-> Prepend(e[i][1], p[i - 1].r), cy |-> e[i][2]]
      BY <1>4, <2>1, <2>2
    <2>5. RunDown(p, n, c0, e)
      BY <2>3, <2>4 DEF RunDown
    <2> QED
      BY <2>5 DEF e
  <1>7. \A i \in 1 .. n : p[i - 1].cy \in C /\ [k \in 1 .. n |-> g[<<k, p[k - 1].cy>>]][i] = g[<<i, p[i - 1].cy>>]
    <2>1. \A i \in 1 .. n : i - 1 \in 0 .. n
      OBVIOUS
    <2> QED
      BY <1>5, <2>1
  <1> QED
    BY <1>6, <1>7 DEF RunsDownBy

LEMMA ChainDownResult ==
  ASSUME NEW n \in Nat, NEW R, NEW C, NEW c0 \in C, NEW p, NEW e, RunDown(p, n, c0, e),
         \A i \in 1 .. n : p[i - 1].cy \in C => e[i] \in R \X C
  PROVE  Downward(p[n], n, R, C, c0, [i \in 0 .. n |-> p[i].cy], e)
  <1>1. /\ p[0] = [r |-> <<>>, cy |-> c0]
        /\ \A i \in 1 .. n : p[i] = [r |-> Prepend(e[i][1], p[i - 1].r), cy |-> e[i][2]]
    <2>1. 0 \in 0 .. n /\ \A i \in 1 .. n : i \in 0 .. n /\ i # 0
      OBVIOUS
    <2> QED
      BY <2>1 DEF RunDown
  <1> DEFINE Good(k) == /\ p[k].r \in Seq(R) /\ Len(p[k].r) = k /\ p[k].cy \in C
                        /\ \A i \in 1 .. k : e[i] \in R \X C /\ p[k].r[k + 1 - i] = e[i][1]
             S == {k \in Nat : k <= n => Good(k)}
  <1>2. \A k \in Nat : k \in S
    <2>1. 0 \in S
      <3>1. p[0].r = <<>> /\ p[0].cy = c0
        BY <1>1
      <3>2. p[0].r \in Seq(R) /\ Len(p[0].r) = 0
        BY <3>1, EmptySeq
      <3>3. Good(0)
        BY <3>1, <3>2
      <3> HIDE DEF Good
      <3> QED
        BY <3>3
    <2>2. ASSUME NEW k \in Nat, k \in S PROVE k + 1 \in S
      <3>1. SUFFICES ASSUME k + 1 <= n PROVE Good(k + 1)
        <4> HIDE DEF Good
        <4> QED
          OBVIOUS
      <3>2. k + 1 \in 1 .. n /\ (k + 1) - 1 = k /\ k <= n
        BY <3>1
      <3>3. Good(k)
        BY <2>2, <3>2
      <3>4. e[k + 1] \in R \X C
        BY <3>2, <3>3
      <3>5. p[k + 1] = [r |-> Prepend(e[k + 1][1], p[k].r), cy |-> e[k + 1][2]]
        BY <1>1, <3>2
      <3> DEFINE s == p[k].r
                 b == e[k + 1][1]
      <3>6. s \in Seq(R) /\ Len(s) = k /\ b \in R /\ e[k + 1][2] \in C
        BY <3>3, <3>4
      <3>7. /\ Prepend(b, s) \in Seq(R) /\ Len(Prepend(b, s)) = k + 1
            /\ \A i \in 1 .. k : Prepend(b, s)[i + 1] = s[i]
            /\ Prepend(b, s)[1] = b
        <4> HIDE DEF s, b
        <4>1. s \in Seq(R) /\ Len(s) = k /\ b \in R
          BY <3>6
        <4>2. /\ Prepend(b, s) \in Seq(R) /\ Len(Prepend(b, s)) = Len(s) + 1
              /\ Prepend(b, s)[1] = b /\ \A i \in 1 .. Len(s) : Prepend(b, s)[i + 1] = s[i]
          <5>1. b \in R /\ s \in Seq(R)
            BY <4>1
          <5> QED
            BY ONLY <5>1, Prepended
        <4> QED
          BY <4>1, <4>2
      <3>8. ASSUME NEW i \in 1 .. k + 1 PROVE e[i] \in R \X C /\ p[k + 1].r[(k + 1) + 1 - i] = e[i][1]
        <4>1. CASE i = k + 1
          <5>1. (k + 1) + 1 - i = 1
            BY <4>1
          <5> QED
            BY <3>4, <3>5, <3>7, <4>1, <5>1
        <4>2. CASE i # k + 1
          <5>1. i \in 1 .. k /\ k + 1 - i \in 1 .. k /\ (k + 1) + 1 - i = (k + 1 - i) + 1
            BY <4>2
          <5> QED
            BY <3>3, <3>5, <3>7, <5>1
        <4> QED
          BY <4>1, <4>2
      <3> QED
        BY <3>5, <3>6, <3>7, <3>8
    <2> HIDE DEF S
    <2> QED
      BY <2>1, <2>2, Induction
  <1>3. ASSUME NEW i \in 0 .. n PROVE Good(i)
    <2>1. i \in Nat /\ i <= n
      OBVIOUS
    <2> QED
      BY <1>2, <2>1
  <1> DEFINE c == [i \in 0 .. n |-> p[i].cy]
  <1>4. n \in 0 .. n /\ 0 \in 0 .. n /\ \A i \in 1 .. n : i \in 0 .. n
    OBVIOUS
  <1>5. c \in [0 .. n -> C] /\ c[0] = c0 /\ c[n] = p[n].cy /\ \A i \in 1 .. n : c[i] = e[i][2]
    <2>1. \A i \in 0 .. n : p[i].cy \in C
      BY <1>3
    <2>3. p[0].cy = c0
      BY <1>1
    <2>4. ASSUME NEW i \in 1 .. n PROVE p[i].cy = e[i][2]
      <3>1. p[i] = [r |-> Prepend(e[i][1], p[i - 1].r), cy |-> e[i][2]]
        BY <1>1
      <3> QED
        BY <3>1
    <2>2. p[0].cy = c0 /\ \A i \in 1 .. n : p[i].cy = e[i][2]
      BY <2>3, <2>4
    <2> HIDE DEF Good
    <2> QED
      BY <1>4, <2>1, <2>2
  <1> HIDE DEF c
  <1>6. Good(n)
    BY <1>3, <1>4
  <1> HIDE DEF Good
  <1>7. Downward(p[n], n, R, C, c0, c, e)
    BY <1>5, <1>6 DEF Downward, Good
  <1> QED
    BY <1>7 DEF c

\* Counted by limbs: c[i - 1] leaves limb i.
ChainedDown(t, n, R, C, c0, c, e) ==
    /\ t.r \in Seq(R) /\ Len(t.r) = n /\ t.cy = c[0]
    /\ c \in [0 .. n -> C] /\ c[n] = c0
    /\ \A i \in 1 .. n : e[i] \in R \X C /\ t.r[i] = e[i][1] /\ c[i - 1] = e[i][2]

LEMMA TurnedRound ==
  ASSUME NEW n \in Nat, NEW R, NEW C, NEW c0, NEW t, NEW c, NEW e, Downward(t, n, R, C, c0, c, e)
  PROVE  ChainedDown(t, n, R, C, c0, [i \in 0 .. n |-> c[n - i]], [i \in 1 .. n |-> e[n + 1 - i]])
  <1> DEFINE d == [i \in 0 .. n |-> c[n - i]]
             f == [i \in 1 .. n |-> e[n + 1 - i]]
  <1>1. \A i \in 0 .. n : d[i] = c[n - i] /\ n - i \in 0 .. n
    OBVIOUS
  <1>2. \A i \in 1 .. n : f[i] = e[n + 1 - i]
    OBVIOUS
  <1>3. d \in [0 .. n -> C] /\ d[n] = c0 /\ d[0] = c[n]
    <2>1. n \in 0 .. n /\ 0 \in 0 .. n /\ n - n = 0 /\ n - 0 = n
      OBVIOUS
    <2>2. c \in [0 .. n -> C] /\ c[0] = c0
      BY DEF Downward
    <2> QED
      BY <1>1, <2>1, <2>2
  <1>4. ASSUME NEW i \in 1 .. n
        PROVE  f[i] \in R \X C /\ t.r[i] = f[i][1] /\ d[i - 1] = f[i][2]
    <2> DEFINE j == n + 1 - i
    <2>1. j \in 1 .. n /\ n + 1 - j = i /\ i - 1 \in 0 .. n /\ n - (i - 1) = j
      OBVIOUS
    <2>2. f[i] = e[j] /\ d[i - 1] = c[j]
      BY <1>1, <1>2, <2>1
    <2> HIDE DEF j
    <2> QED
      BY <2>1, <2>2 DEF Downward
  <1> HIDE DEF d, f
  <1>5. ChainedDown(t, n, R, C, c0, d, f)
    BY <1>3, <1>4 DEF ChainedDown, Downward
  <1> QED
    BY <1>5 DEF d, f

\* ChainDown, with a step that stays in C.
FollowsDown(e, step, c, n) == \A i \in 1 .. n : e[i] = step[i][c[i]]
ChainDownIs(t, step, n, R, C, c0) ==
    \E c, e : ChainedDown(t, n, R, C, c0, c, e) /\ FollowsDown(e, step, c, n)

LEMMA ChainDownRuns ==
  ASSUME NEW n \in Nat, NEW R, NEW C, NEW c0 \in C, NEW step, StepsIn(step, n, R, C)
  PROVE  ChainDownIs(ChainDown(step, n, c0), step, n, R, C, c0)
  <1> DEFINE Def(p) == p = [i \in 0 .. n |->
                              IF i = 0 THEN [r |-> <<>>, cy |-> c0]
                              ELSE LET q == p[i - 1]
                                       s == step[n + 1 - i][q.cy]
                                   IN  [r |-> Prepend(s[1], q.r), cy |-> s[2]]]
             P == CHOOSE p : Def(p)
             g == [q \in (1 .. n) \X C |-> step[n + 1 - q[1]][q[2]]]
  <1>1. ChainDown(step, n, c0) = P[n]
    BY DEF ChainDown, Prepend
  <1>4. ASSUME NEW p, NEW e, \A i \in 1 .. n : e[i] = step[n + 1 - i][p[i - 1].cy]
        PROVE  RunDown(p, n, c0, e) <=> Def(p)
    <2>1. ASSUME NEW i \in 0 .. n, i # 0
          PROVE  [r |-> Prepend(e[i][1], p[i - 1].r), cy |-> e[i][2]] =
                 [r |-> Prepend(step[n + 1 - i][p[i - 1].cy][1], p[i - 1].r),
                  cy |-> step[n + 1 - i][p[i - 1].cy][2]]
      <3>1. i \in 1 .. n
        BY <2>1
      <3> QED
        BY <1>4, <3>1
    <2> QED
      BY <2>1 DEF RunDown
  <1>3. ASSUME NEW i \in 1 .. n, NEW c \in C PROVE step[n + 1 - i][c] \in R \X C
    <2>1. n + 1 - i \in 1 .. n
      OBVIOUS
    <2> QED
      BY <2>1 DEF StepsIn
  <1>5. Def(P)
    <2>1. RunsDownBy(n, C, c0, g)
      <3>1. g \in [(1 .. n) \X C -> R \X C]
        BY <1>3
      <3> HIDE DEF g
      <3> QED
        BY <3>1, ChainDownExists
    <2>2. PICK f, e : /\ RunDown(f, n, c0, e)
                      /\ \A i \in 1 .. n : f[i - 1].cy \in C /\ e[i] = g[<<i, f[i - 1].cy>>]
      BY <2>1 DEF RunsDownBy
    <2>3. \A i \in 1 .. n : e[i] = step[n + 1 - i][f[i - 1].cy]
      BY <2>2
    <2>4. Def(f)
      <3> HIDE DEF Def
      <3> QED
        BY <1>4, <2>2, <2>3
    <2> HIDE DEF Def
    <2> QED
      BY <2>4
  <1> DEFINE e == [i \in 1 .. n |-> step[n + 1 - i][P[i - 1].cy]]
             c == [i \in 0 .. n |-> P[i].cy]
             d == [i \in 0 .. n |-> c[n - i]]
             f == [i \in 1 .. n |-> e[n + 1 - i]]
  <1> HIDE DEF P
  <1>6. \A i \in 1 .. n : e[i] = step[n + 1 - i][P[i - 1].cy]
    OBVIOUS
  <1>7. RunDown(P, n, c0, e)
    <2> HIDE DEF e, Def
    <2> QED
      BY <1>4, <1>5, <1>6
  <1>8. Downward(P[n], n, R, C, c0, c, e)
    <2>1. \A i \in 1 .. n : P[i - 1].cy \in C => e[i] \in R \X C
      BY <1>3, <1>6
    <2> HIDE DEF e
    <2> QED
      BY <1>7, <2>1, ChainDownResult
  <1>9. ChainedDown(P[n], n, R, C, c0, d, f)
    <2> HIDE DEF c, e
    <2> QED
      BY <1>8, TurnedRound
  <1>10. ASSUME NEW i \in 1 .. n PROVE f[i] = step[i][d[i]]
    <2> DEFINE j == n + 1 - i
    <2>1. j \in 1 .. n /\ n + 1 - j = i /\ j - 1 \in 0 .. n /\ j - 1 = n - i /\ i \in 0 .. n
      OBVIOUS
    <2>2. f[i] = e[j] /\ e[j] = step[n + 1 - j][P[j - 1].cy]
      BY <2>1
    <2>3. d[i] = c[n - i] /\ c[n - i] = P[n - i].cy
      BY <2>1
    <2> QED
      BY <2>1, <2>2, <2>3
  <1> HIDE DEF d, f
  <1> QED
    BY <1>1, <1>9, <1>10 DEF ChainDownIs, FollowsDown

----------------------------------------------------------------------------
(* Limbs.                                                                  *)

LEMMA LimbsAre ==
  /\ HalfBits \in Nat \ {0} /\ LimbBits \in Nat \ {0}
  /\ H \in Nat \ {0} /\ B \in Nat \ {0} /\ H >= 2 /\ B >= 4 /\ B = H * H
  /\ HighBit \in Nat \ {0} /\ B = 2 * HighBit /\ B = Pow(2, LimbBits) /\ H = Pow(2, HalfBits)
  /\ Limb = 0 .. B - 1 /\ 0 \in Limb /\ 1 \in Limb /\ Limb \subseteq Nat
  /\ \A n \in Int : Wrap(n) = n % B
  <1>1. HalfBits \in Nat \ {0} /\ LimbBits = HalfBits + HalfBits /\ LimbBits \in Nat \ {0} /\ HalfBits \in Nat
    BY SizesAssumption DEF LimbBits
  <1>2. /\ H = Pow(2, HalfBits) /\ H \in Nat \ {0}
        /\ H = 2 * Pow(2, HalfBits - 1) /\ Pow(2, HalfBits - 1) \in Nat \ {0}
    BY <1>1, TwoPow DEF H
  <1>3. Pow(2, LimbBits) = H * H
    <2>1. 2 \in Int
      OBVIOUS
    <2> QED
      BY <1>1, <1>2, <2>1, PowSum
  <1> DEFINE h == Pow(2, HalfBits - 1)
  <1>4. H = 2 * h /\ h \in Nat \ {0} /\ B = H * H
    BY <1>2 DEF B
  <1> HIDE DEF h
  <1>5. B = 2 * (H * h) /\ H * h \in Nat \ {0}
    BY <1>4
  <1>6. HighBit = H * h
    BY <1>5 DEF HighBit
  <1>7. H >= 2 /\ B >= 4
    <2>1. \A a \in Nat \ {0} : 2 * a >= 2 /\ (2 * a) * (2 * a) = 4 * (a * a) /\ a * a >= 1
      OBVIOUS
    <2> QED
      BY <1>4, <2>1
  <1> QED
    BY <1>1, <1>2, <1>3, <1>4, <1>5, <1>6, <1>7 DEF Limb, Wrap

LEMMA LimbIs ==
  ASSUME NEW a \in Limb
  PROVE  a \in Nat /\ a \in Int /\ a < B /\ a \in 0 .. B - 1
  <1>1. Limb = 0 .. B - 1 /\ B \in Nat \ {0}
    BY LimbsAre
  <1>2. a \in 0 .. B - 1
    BY <1>1
  <1> QED
    BY <1>1, <1>2

LEMMA SumModulo ==
  ASSUME NEW n \in Nat \ {0}, NEW a \in 0 .. n - 1, NEW c \in 0 .. n - 1
  PROVE  /\ (a + c) % n \in 0 .. n - 1
         /\ ((a + c) % n) + n * (IF (a + c) % n < c THEN 1 ELSE 0) = a + c
         /\ ((a + c) % n) + n * (IF (a + c) % n < a THEN 1 ELSE 0) = a + c
  <1>1. CASE a + c < n
    <2>1. (a + c) % n = a + c
      BY <1>1
    <2> QED
      BY <1>1, <2>1
  <1>2. CASE ~(a + c < n)
    <2>1. (a + c) % n = a + c - n
      BY <1>2
    <2> QED
      BY <1>2, <2>1
  <1> QED
    BY <1>1, <1>2

LEMMA DifferenceModulo ==
  ASSUME NEW n \in Nat \ {0}, NEW a \in 0 .. n - 1, NEW c \in 0 .. n - 1
  PROVE  /\ (a - c) % n \in 0 .. n - 1
         /\ ((a - c) % n) - n * (IF a < c THEN 1 ELSE 0) = a - c
         /\ ((a - c) % n) - n * (IF (a - c) % n > a THEN 1 ELSE 0) = a - c
  <1>1. CASE a >= c
    <2>1. (a - c) % n = a - c
      BY <1>1
    <2> QED
      BY <1>1, <2>1
  <1>2. CASE ~(a >= c)
    <2>1. (a - c) % n = a - c + n
      BY <1>2
    <2> QED
      BY <1>2, <2>1
  <1> QED
    BY <1>1, <1>2

\* What is left of a sum of two limbs, and its carry.
LEMMA LimbSum ==
  ASSUME NEW a \in Limb, NEW c \in Limb
  PROVE  /\ Wrap(a + c) \in Limb
         /\ Wrap(a + c) + B * Bit(Wrap(a + c) < c) = a + c
         /\ Wrap(a + c) + B * Bit(Wrap(a + c) < a) = a + c
  <1>1. a \in 0 .. B - 1 /\ c \in 0 .. B - 1 /\ B \in Nat \ {0} /\ Limb = 0 .. B - 1
    BY LimbIs, LimbsAre
  <1> QED
    BY <1>1, SumModulo DEF Wrap, Bit

LEMMA LimbDifference ==
  ASSUME NEW a \in Limb, NEW c \in Limb
  PROVE  /\ Wrap(a - c) \in Limb
         /\ Wrap(a - c) - B * Bit(a < c) = a - c
         /\ Wrap(a - c) - B * Bit(Wrap(a - c) > a) = a - c
  <1>1. a \in 0 .. B - 1 /\ c \in 0 .. B - 1 /\ B \in Nat \ {0} /\ Limb = 0 .. B - 1
    BY LimbIs, LimbsAre
  <1> QED
    BY <1>1, DifferenceModulo DEF Wrap, Bit

----------------------------------------------------------------------------
(* Numbers from their digits.                                              *)

Ints(d, n) == \A i \in 1 .. n : d[i] \in Int

\* A digit-wise combination combines the numbers.
Combined(d, n, p, u, q, v) == \A i \in 1 .. n : d[i] = p * u[i] + q * v[i]

LEMMA NumberCombined ==
  ASSUME NEW b \in Int, NEW n \in Nat, NEW d, NEW u, NEW v, NEW p \in Int, NEW q \in Int,
         Ints(u, n), Ints(v, n), Combined(d, n, p, u, q, v)
  PROVE  Number(b, d, n) = p * Number(b, u, n) + q * Number(b, v, n)
  <1>1. Ints(d, n)
    BY DEF Ints, Combined
  <1>2. /\ Number(b, d, 0) = 0 /\ Number(b, u, 0) = 0 /\ Number(b, v, 0) = 0
        /\ \A i \in 0 .. n : Number(b, d, i) \in Int /\ Number(b, u, i) \in Int /\ Number(b, v, i) \in Int
        /\ \A i \in 1 .. n : /\ Number(b, d, i) = Number(b, d, i - 1) + d[i] * Pow(b, i - 1)
                             /\ Number(b, u, i) = Number(b, u, i - 1) + u[i] * Pow(b, i - 1)
                             /\ Number(b, v, i) = Number(b, v, i - 1) + v[i] * Pow(b, i - 1)
    BY <1>1, NumberRec DEF Ints
  <1> DEFINE S == {k \in Nat : k <= n => Number(b, d, k) = p * Number(b, u, k) + q * Number(b, v, k)}
  <1>3. n \in S
    <2>1. 0 \in S
      BY <1>2
    <2>2. ASSUME NEW k \in Nat, k \in S PROVE k + 1 \in S
      <3>1. SUFFICES ASSUME k + 1 <= n
                     PROVE  Number(b, d, k + 1) = p * Number(b, u, k + 1) + q * Number(b, v, k + 1)
        OBVIOUS
      <3>2. k + 1 \in 1 .. n /\ (k + 1) - 1 = k /\ k <= n /\ k \in 0 .. n
        BY <3>1
      <3>3. /\ Number(b, d, k + 1) = Number(b, d, k) + d[k + 1] * Pow(b, k)
            /\ Number(b, u, k + 1) = Number(b, u, k) + u[k + 1] * Pow(b, k)
            /\ Number(b, v, k + 1) = Number(b, v, k) + v[k + 1] * Pow(b, k)
        BY <1>2, <3>2
      <3>4. d[k + 1] = p * u[k + 1] + q * v[k + 1] /\ u[k + 1] \in Int /\ v[k + 1] \in Int
        BY <3>2 DEF Ints, Combined
      <3>5. Number(b, d, k) = p * Number(b, u, k) + q * Number(b, v, k)
        BY <2>2, <3>2
      <3>6. Pow(b, k) \in Int /\ Number(b, u, k) \in Int /\ Number(b, v, k) \in Int
        BY <1>2, <3>2, PowRec
      <3>7. \A e, f, g, h, z \in Int :
              (p * e + q * f) + (p * g + q * h) * z = p * (e + g * z) + q * (f + h * z)
        OBVIOUS
      <3> QED
        BY <3>3, <3>4, <3>5, <3>6, <3>7
    <2> HIDE DEF S
    <2> QED
      BY <2>1, <2>2, Induction
  <1> QED
    BY <1>3

\* The digits of two numbers one after the other.
LEMMA NumberConcat ==
  ASSUME NEW b \in Int, NEW m \in Nat, NEW n \in Nat, NEW f, NEW d, NEW e,
         Ints(d, m), Ints(e, n),
         \A i \in 1 .. m : f[i] = d[i], \A i \in 1 .. n : f[m + i] = e[i]
  PROVE  Number(b, f, m + n) = Number(b, d, m) + Pow(b, m) * Number(b, e, n)
  <1>1. ASSUME NEW i \in 1 .. m + n PROVE f[i] \in Int
    <2>1. CASE i <= m
      <3>1. i \in 1 .. m
        BY <2>1
      <3> QED
        BY <3>1 DEF Ints
    <2>2. CASE ~(i <= m)
      <3>1. i - m \in 1 .. n /\ m + (i - m) = i
        BY <2>2
      <3>2. f[m + (i - m)] = e[i - m] /\ e[i - m] \in Int
        BY <3>1 DEF Ints
      <3> QED
        BY <3>1, <3>2
    <2> QED
      BY <2>1, <2>2
  <1>2. /\ \A i \in 0 .. m + n : Number(b, f, i) \in Int
        /\ \A i \in 1 .. m + n : Number(b, f, i) = Number(b, f, i - 1) + f[i] * Pow(b, i - 1)
    <2> DEFINE k == m + n
    <2>1. k \in Nat /\ \A i \in 1 .. k : f[i] \in Int
      BY <1>1
    <2> HIDE DEF k
    <2>2. /\ \A i \in 0 .. k : Number(b, f, i) \in Int
          /\ \A i \in 1 .. k : Number(b, f, i) = Number(b, f, i - 1) + f[i] * Pow(b, i - 1)
      BY <2>1, NumberRec
    <2> QED
      BY <2>2 DEF k
  <1>3. /\ Number(b, e, 0) = 0 /\ \A i \in 0 .. n : Number(b, e, i) \in Int
        /\ \A i \in 1 .. n : Number(b, e, i) = Number(b, e, i - 1) + e[i] * Pow(b, i - 1)
    BY NumberRec DEF Ints
  <1>4. Number(b, f, m) = Number(b, d, m) /\ Number(b, d, m) \in Int
    <2>1. \A i \in 1 .. m : d[i] \in Int /\ f[i] = d[i]
      BY DEF Ints
    <2>2. Number(b, d, m) = Number(b, f, m)
      BY <2>1, NumberSame
    <2>3. m \in 0 .. m + n
      OBVIOUS
    <2> QED
      BY <1>2, <2>2, <2>3
  <1> DEFINE S == {k \in Nat : k <= n => Number(b, f, m + k) = Number(b, d, m) + Pow(b, m) * Number(b, e, k)}
  <1>5. n \in S
    <2>1. 0 \in S
      <3>1. Pow(b, m) \in Int /\ m + 0 = m
        BY PowRec
      <3> QED
        BY <1>3, <1>4, <3>1
    <2>2. ASSUME NEW k \in Nat, k \in S PROVE k + 1 \in S
      <3>1. SUFFICES ASSUME k + 1 <= n
                     PROVE  Number(b, f, m + (k + 1)) = Number(b, d, m) + Pow(b, m) * Number(b, e, k + 1)
        OBVIOUS
      <3>2. k + 1 \in 1 .. n /\ (k + 1) - 1 = k /\ k <= n /\ k \in 0 .. n
            /\ m + (k + 1) \in 1 .. m + n /\ (m + (k + 1)) - 1 = m + k
        BY <3>1
      <3>3. /\ Number(b, f, m + (k + 1)) = Number(b, f, m + k) + f[m + (k + 1)] * Pow(b, m + k)
            /\ Number(b, e, k + 1) = Number(b, e, k) + e[k + 1] * Pow(b, k)
        BY <1>2, <1>3, <3>2
      <3>4. f[m + (k + 1)] = e[k + 1] /\ e[k + 1] \in Int
        BY <3>2 DEF Ints
      <3>5. Number(b, f, m + k) = Number(b, d, m) + Pow(b, m) * Number(b, e, k)
        BY <2>2, <3>2
      <3>6. Pow(b, m + k) = Pow(b, m) * Pow(b, k) /\ Pow(b, m) \in Int /\ Pow(b, k) \in Int
            /\ Number(b, e, k) \in Int
        BY <1>3, <3>2, PowRec, PowSum
      <3>7. \A g, h, i, j, z \in Int : (g + i * h) + z * (i * j) = g + i * (h + z * j)
        OBVIOUS
      <3> QED
        BY <1>4, <3>3, <3>4, <3>5, <3>6, <3>7
    <2> HIDE DEF S
    <2> QED
      BY <2>1, <2>2, Induction
  <1> QED
    BY <1>5

Joined(f, m, d, n, e) == (\A i \in 1 .. m : f[i] = d[i]) /\ (\A i \in 1 .. n : f[m + i] = e[i])

LEMMA NumberJoined ==
  ASSUME NEW b \in Int, NEW m \in Nat, NEW n \in Nat, NEW f, NEW d, NEW e, NEW k, k = m + n,
         Ints(d, m), Ints(e, n), Joined(f, m, d, n, e)
  PROVE  Number(b, f, k) = Number(b, d, m) + Pow(b, m) * Number(b, e, n)
  BY NumberConcat DEF Joined

\* What every digit hands on is in the end only what the last one hands out.
LEMMA NumberCarried ==
  ASSUME NEW b \in Int, NEW n \in Nat, NEW d, NEW t, NEW c, Ints(d, n), Ints(t, n),
         \A i \in 0 .. n : c[i] \in Int,
         \A i \in 1 .. n : d[i] + b * c[i] = t[i] + c[i - 1]
  PROVE  Number(b, d, n) + Pow(b, n) * c[n] = Number(b, t, n) + c[0]
  <1>2. /\ Number(b, d, 0) = 0 /\ Number(b, t, 0) = 0
        /\ \A i \in 0 .. n : Number(b, d, i) \in Int /\ Number(b, t, i) \in Int
        /\ \A i \in 1 .. n : /\ Number(b, d, i) = Number(b, d, i - 1) + d[i] * Pow(b, i - 1)
                             /\ Number(b, t, i) = Number(b, t, i - 1) + t[i] * Pow(b, i - 1)
    BY NumberRec DEF Ints
  <1> DEFINE S == {k \in Nat : k <= n => Number(b, d, k) + Pow(b, k) * c[k] = Number(b, t, k) + c[0]}
  <1>3. n \in S
    <2>1. 0 \in S
      <3>1. Pow(b, 0) = 1 /\ c[0] \in Int
        BY PowRec
      <3> QED
        BY <1>2, <3>1
    <2>2. ASSUME NEW k \in Nat, k \in S PROVE k + 1 \in S
      <3>1. SUFFICES ASSUME k + 1 <= n
                     PROVE  Number(b, d, k + 1) + Pow(b, k + 1) * c[k + 1] = Number(b, t, k + 1) + c[0]
        OBVIOUS
      <3>2. k + 1 \in 1 .. n /\ (k + 1) - 1 = k /\ k <= n /\ k \in 0 .. n /\ k + 1 \in 0 .. n /\ 0 \in 0 .. n
        BY <3>1
      <3>3. /\ Number(b, d, k + 1) = Number(b, d, k) + d[k + 1] * Pow(b, k)
            /\ Number(b, t, k + 1) = Number(b, t, k) + t[k + 1] * Pow(b, k)
        BY <1>2, <3>2
      <3>4. d[k + 1] + b * c[k + 1] = t[k + 1] + c[k] /\ d[k + 1] \in Int /\ t[k + 1] \in Int
            /\ c[k] \in Int /\ c[k + 1] \in Int /\ c[0] \in Int
        BY <3>2 DEF Ints
      <3>5. Number(b, d, k) + Pow(b, k) * c[k] = Number(b, t, k) + c[0]
        BY <2>2, <3>2
      <3>6. Pow(b, k) \in Int /\ Pow(b, k + 1) = b * Pow(b, k) /\ Number(b, d, k) \in Int /\ Number(b, t, k) \in Int
        BY <1>2, <3>2, PowRec
      <3>7. ASSUME NEW u \in Int, NEW v \in Int, NEW z \in Int, NEW g \in Int, NEW h \in Int,
                   NEW ck \in Int, NEW cn \in Int, NEW c0 \in Int,
                   u + z * ck = v + c0, g + b * cn = h + ck
            PROVE  (u + g * z) + (b * z) * cn = (v + h * z) + c0
        <4>1. z * (g + b * cn) = z * (h + ck)
          BY <3>7
        <4>2. z * (g + b * cn) = g * z + (b * z) * cn /\ z * (h + ck) = h * z + z * ck
          OBVIOUS
        <4> QED
          BY <3>7, <4>1, <4>2
      <3> QED
        BY <3>3, <3>4, <3>5, <3>6, <3>7
    <2> HIDE DEF S
    <2> QED
      BY <2>1, <2>2, Induction
  <1> QED
    BY <1>3

\* A division digit by digit: c[i] is the remainder handed down to digit i.
LEMMA NumberCarriedDown ==
  ASSUME NEW b \in Int, NEW n \in Nat, NEW d, NEW t, NEW c, NEW q \in Int, Ints(d, n), Ints(t, n),
         \A i \in 0 .. n : c[i] \in Int,
         \A i \in 1 .. n : q * d[i] + c[i - 1] = b * c[i] + t[i]
  PROVE  q * Number(b, d, n) + c[0] = Pow(b, n) * c[n] + Number(b, t, n)
  <1>2. /\ Number(b, d, 0) = 0 /\ Number(b, t, 0) = 0
        /\ \A i \in 0 .. n : Number(b, d, i) \in Int /\ Number(b, t, i) \in Int
        /\ \A i \in 1 .. n : /\ Number(b, d, i) = Number(b, d, i - 1) + d[i] * Pow(b, i - 1)
                             /\ Number(b, t, i) = Number(b, t, i - 1) + t[i] * Pow(b, i - 1)
    BY NumberRec DEF Ints
  <1> DEFINE S == {k \in Nat : k <= n => q * Number(b, d, k) + c[0] = Pow(b, k) * c[k] + Number(b, t, k)}
  <1>3. n \in S
    <2>1. 0 \in S
      <3>1. Pow(b, 0) = 1 /\ c[0] \in Int
        BY PowRec
      <3> QED
        BY <1>2, <3>1
    <2>2. ASSUME NEW k \in Nat, k \in S PROVE k + 1 \in S
      <3>1. SUFFICES ASSUME k + 1 <= n
                     PROVE  q * Number(b, d, k + 1) + c[0] = Pow(b, k + 1) * c[k + 1] + Number(b, t, k + 1)
        OBVIOUS
      <3>2. k + 1 \in 1 .. n /\ (k + 1) - 1 = k /\ k <= n /\ k \in 0 .. n /\ k + 1 \in 0 .. n /\ 0 \in 0 .. n
        BY <3>1
      <3>3. /\ Number(b, d, k + 1) = Number(b, d, k) + d[k + 1] * Pow(b, k)
            /\ Number(b, t, k + 1) = Number(b, t, k) + t[k + 1] * Pow(b, k)
        BY <1>2, <3>2
      <3>4. q * d[k + 1] + c[k] = b * c[k + 1] + t[k + 1] /\ d[k + 1] \in Int /\ t[k + 1] \in Int
            /\ c[k] \in Int /\ c[k + 1] \in Int /\ c[0] \in Int
        BY <3>2 DEF Ints
      <3>5. q * Number(b, d, k) + c[0] = Pow(b, k) * c[k] + Number(b, t, k)
        BY <2>2, <3>2
      <3>6. Pow(b, k) \in Int /\ Pow(b, k + 1) = b * Pow(b, k) /\ Number(b, d, k) \in Int /\ Number(b, t, k) \in Int
        BY <1>2, <3>2, PowRec
      <3> DEFINE u == Number(b, d, k)
                 v == Number(b, t, k)
                 z == Pow(b, k)
                 g == d[k + 1]
                 h == t[k + 1]
      <3>7. /\ u \in Int /\ v \in Int /\ z \in Int /\ g \in Int /\ h \in Int
            /\ c[k] \in Int /\ c[k + 1] \in Int /\ c[0] \in Int
            /\ q * u + c[0] = z * c[k] + v /\ q * g + c[k] = b * c[k + 1] + h
        BY <3>4, <3>5, <3>6
      <3> HIDE DEF u, v, z, g, h
      <3>8. q * (u + g * z) + c[0] = (b * z) * c[k + 1] + (v + h * z)
        <4>1. z * (q * g + c[k]) = z * (b * c[k + 1] + h)
          BY <3>7
        <4>2. z * (q * g + c[k]) = q * (g * z) + z * c[k] /\ z * (b * c[k + 1] + h) = (b * z) * c[k + 1] + h * z
          BY <3>7
        <4>3. q * (u + g * z) = q * u + q * (g * z)
          BY <3>7
        <4>4. q * u \in Int /\ q * (g * z) \in Int /\ z * c[k] \in Int /\ h * z \in Int /\ (b * z) * c[k + 1] \in Int
          BY <3>7
        <4> QED
          BY <3>7, <4>1, <4>2, <4>3, <4>4
      <3> QED
        BY <3>3, <3>6, <3>8 DEF u, v, z, g, h
    <2> HIDE DEF S
    <2> QED
      BY <2>1, <2>2, Induction
  <1> QED
    BY <1>3

----------------------------------------------------------------------------
(* Sequences of limbs.                                                     *)

LEMMA NatOfIs ==
  ASSUME NEW d \in Seq(Limb)
  PROVE  /\ NatOf(d) = Number(B, d, Len(d)) /\ Ints(d, Len(d)) /\ Len(d) \in Nat
         /\ NatOf(d) \in Nat /\ NatOf(d) < Pow(B, Len(d)) /\ Pow(B, Len(d)) \in Nat \ {0}
         /\ \A i \in 1 .. Len(d) : d[i] \in Limb /\ d[i] \in Int
  <1>1. B \in Nat \ {0} /\ Len(d) \in Nat
    BY LimbsAre
  <1>2. \A i \in 1 .. Len(d) : d[i] \in Limb /\ d[i] \in Int /\ d[i] \in 0 .. B - 1
    BY LimbIs
  <1>3. Number(B, d, Len(d)) \in 0 .. Pow(B, Len(d)) - 1 /\ Pow(B, Len(d)) \in Nat \ {0}
    BY <1>1, <1>2, NumberBounds, PowPositive DEF IsDigits
  <1> QED
    BY <1>1, <1>2, <1>3 DEF NatOf, Ints

LEMMA NatOfSame ==
  ASSUME NEW d \in Seq(Limb), NEW f, NEW n, n = Len(d), \A i \in 1 .. n : f[i] = d[i]
  PROVE  Number(B, f, n) = NatOf(d)
  <1>1. B \in Int /\ n \in Nat /\ \A i \in 1 .. n : d[i] \in Int /\ f[i] = d[i]
    <2>1. Len(d) \in Nat /\ \A i \in 1 .. Len(d) : d[i] \in Int
      BY NatOfIs
    <2> QED
      BY <2>1, LimbsAre
  <1>2. Number(B, d, n) = Number(B, f, n)
    BY ONLY <1>1, NumberSame
  <1> QED
    BY <1>2 DEF NatOf

LEMMA NatOfConcat ==
  ASSUME NEW d \in Seq(Limb), NEW e \in Seq(Limb)
  PROVE  /\ d \o e \in Seq(Limb) /\ Len(d \o e) = Len(d) + Len(e)
         /\ NatOf(d \o e) = NatOf(d) + Pow(B, Len(d)) * NatOf(e)
  <1> DEFINE f == d \o e
             m == Len(d)
             n == Len(e)
  <1>1. /\ f \in Seq(Limb) /\ Len(f) = m + n
        /\ \A i \in 1 .. m + n : f[i] = IF i <= m THEN d[i] ELSE e[i - m]
    BY ConcatProperties
  <1>2. m \in Nat /\ n \in Nat /\ B \in Int /\ Ints(d, m) /\ Ints(e, n)
    BY LimbsAre, NatOfIs
  <1> DEFINE k == m + n
  <1> HIDE DEF m, n, f
  <1>3. \A i \in 1 .. m : f[i] = d[i]
    <2>1. \A i \in 1 .. m : i \in 1 .. m + n /\ i <= m
      BY <1>2
    <2> QED
      BY <1>1, <2>1
  <1>4. \A i \in 1 .. n : f[m + i] = e[i]
    <2>1. \A i \in 1 .. n : m + i \in 1 .. m + n /\ ~(m + i <= m) /\ (m + i) - m = i
      BY <1>2
    <2> QED
      BY <1>1, <2>1
  <1>5. Number(B, f, k) = Number(B, d, m) + Pow(B, m) * Number(B, e, n)
    <2>1. Joined(f, m, d, n, e) /\ k = m + n
      BY <1>3, <1>4 DEF Joined
    <2> HIDE DEF k
    <2> QED
      BY <1>2, <2>1, NumberJoined
  <1> QED
    BY <1>1, <1>5 DEF NatOf, m, n, f

LEMMA NatOfShort ==
  /\ <<>> \in Seq(Limb) /\ NatOf(<<>>) = 0
  /\ \A a \in Limb : <<a>> \in Seq(Limb) /\ Len(<<a>>) = 1 /\ NatOf(<<a>>) = a
  <1>1. <<>> \in Seq(Limb) /\ Len(<<>>) = 0
    BY EmptySeq
  <1>2. NatOf(<<>>) = 0
    <2> DEFINE d == <<>>
    <2>1. B \in Int /\ \A i \in 1 .. 0 : d[i] \in Int
      BY LimbsAre
    <2> HIDE DEF d
    <2>2. Number(B, d, 0) = 0
      BY <2>1, NumberRec
    <2> QED
      BY <1>1, <2>2 DEF NatOf, d
  <1>3. ASSUME NEW a \in Limb PROVE <<a>> \in Seq(Limb) /\ Len(<<a>>) = 1 /\ NatOf(<<a>>) = a
    <2> DEFINE d == <<a>>
    <2>1. d \in Seq(Limb) /\ Len(d) = 1 /\ d[1] = a
      OBVIOUS
    <2>2. B \in Int /\ a \in Int
      BY LimbsAre, LimbIs
    <2> HIDE DEF d
    <2>3. \A i \in 1 .. 1 : d[i] \in Int
      BY <2>1, <2>2
    <2>4. /\ Number(B, d, 0) = 0
          /\ \A i \in 1 .. 1 : Number(B, d, i) = Number(B, d, i - 1) + d[i] * Pow(B, i - 1)
      BY <2>2, <2>3, NumberRec
    <2>5. Number(B, d, 1) = 0 + a * Pow(B, 0) /\ Pow(B, 0) = 1
      BY <2>1, <2>2, <2>4, PowRec
    <2>6. NatOf(d) = a
      BY <2>1, <2>2, <2>5 DEF NatOf
    <2> QED
      BY <2>1, <2>6 DEF d
  <1> QED
    BY <1>1, <1>2, <1>3

LEMMA NatOfAppend ==
  ASSUME NEW d \in Seq(Limb), NEW a \in Limb
  PROVE  /\ Append(d, a) \in Seq(Limb) /\ Len(Append(d, a)) = Len(d) + 1
         /\ Append(d, a)[Len(Append(d, a))] = a
         /\ NatOf(Append(d, a)) = NatOf(d) + Pow(B, Len(d)) * a
  <1>1. Append(d, a) \in Seq(Limb) /\ Len(Append(d, a)) = Len(d) + 1 /\ Append(d, a)[Len(d) + 1] = a
    BY AppendProperties
  <1>2. Append(d, a) = d \o <<a>>
    BY AppendIsConcat
  <1>3. <<a>> \in Seq(Limb) /\ NatOf(<<a>>) = a
    BY NatOfShort
  <1>4. NatOf(d \o <<a>>) = NatOf(d) + Pow(B, Len(d)) * NatOf(<<a>>)
    <2> DEFINE e == <<a>>
    <2>1. e \in Seq(Limb)
      BY <1>3
    <2> HIDE DEF e
    <2>2. NatOf(d \o e) = NatOf(d) + Pow(B, Len(d)) * NatOf(e)
      BY <2>1, NatOfConcat
    <2> QED
      BY <2>2 DEF e
  <1> QED
    BY <1>1, <1>2, <1>3, <1>4

LEMMA Piece ==
  ASSUME NEW R, NEW d \in Seq(R), NEW j \in Int, NEW k \in Int, 1 <= j, j <= k + 1, k <= Len(d)
  PROVE  /\ SubSeq(d, j, k) \in Seq(R) /\ Len(SubSeq(d, j, k)) = k + 1 - j
         /\ \A i \in 1 .. k + 1 - j : SubSeq(d, j, k)[i] = d[j + i - 1]
  <1>1. \A i \in j .. k : d[i] \in R
    <2>1. \A i \in j .. k : i \in 1 .. Len(d)
      OBVIOUS
    <2> QED
      BY <2>1
  <1>2. /\ SubSeq(d, j, k) \in Seq(R)
        /\ Len(SubSeq(d, j, k)) = IF j <= k THEN k - j + 1 ELSE 0
        /\ \A i \in 1 .. k - j + 1 : SubSeq(d, j, k)[i] = d[j + i - 1]
    BY <1>1, SubSeqProperties
  <1>3. k - j + 1 = k + 1 - j /\ (~(j <= k) => k + 1 - j = 0)
    OBVIOUS
  <1> QED
    BY <1>2, <1>3

LEMMA NatOfPieces ==
  ASSUME NEW d \in Seq(Limb), NEW k \in 0 .. Len(d)
  PROVE  /\ SubSeq(d, 1, k) \in Seq(Limb) /\ Len(SubSeq(d, 1, k)) = k
         /\ \A i \in 1 .. k : SubSeq(d, 1, k)[i] = d[i]
         /\ SubSeq(d, k + 1, Len(d)) \in Seq(Limb) /\ Len(SubSeq(d, k + 1, Len(d))) = Len(d) - k
         /\ \A i \in 1 .. Len(d) - k : SubSeq(d, k + 1, Len(d))[i] = d[k + i]
         /\ NatOf(d) = NatOf(SubSeq(d, 1, k)) + Pow(B, k) * NatOf(SubSeq(d, k + 1, Len(d)))
  <1> DEFINE n == Len(d)
             f == SubSeq(d, 1, k)
             e == SubSeq(d, k + 1, n)
  <1>1. n \in Nat /\ k \in Nat /\ k <= n
    OBVIOUS
  <1>2. f \in Seq(Limb) /\ Len(f) = k /\ \A i \in 1 .. k : f[i] = d[i]
    <2>1. /\ f \in Seq(Limb) /\ Len(f) = k + 1 - 1
          /\ \A i \in 1 .. k + 1 - 1 : f[i] = d[1 + i - 1]
      BY <1>1, Piece
    <2>2. k + 1 - 1 = k /\ \A i \in 1 .. k : 1 + i - 1 = i
      BY <1>1
    <2> HIDE DEF f
    <2> QED
      BY <2>1, <2>2
  <1>3. e \in Seq(Limb) /\ Len(e) = n - k /\ \A i \in 1 .. n - k : e[i] = d[k + i]
    <2>1. k + 1 \in Int /\ 1 <= k + 1 /\ k + 1 <= n + 1
      BY <1>1
    <2>2. /\ e \in Seq(Limb) /\ Len(e) = n + 1 - (k + 1)
          /\ \A i \in 1 .. n + 1 - (k + 1) : e[i] = d[k + 1 + i - 1]
      BY <1>1, <2>1, Piece
    <2>3. n + 1 - (k + 1) = n - k /\ \A i \in 1 .. n - k : k + 1 + i - 1 = k + i
      BY <1>1
    <2> HIDE DEF e, n
    <2> QED
      BY <2>2, <2>3
  <1>4. Number(B, d, k + (n - k)) = Number(B, f, k) + Pow(B, k) * Number(B, e, n - k)
    <2> DEFINE m == n - k
    <2>1. B \in Int /\ m \in Nat /\ k \in Nat /\ Ints(f, k) /\ Ints(e, m)
      <3>1. Ints(f, Len(f)) /\ Ints(e, Len(e))
        BY <1>2, <1>3, NatOfIs
      <3> HIDE DEF e, f, n
      <3> QED
        BY <1>1, <1>2, <1>3, <3>1, LimbsAre
    <2>2. (\A i \in 1 .. k : d[i] = f[i]) /\ (\A i \in 1 .. m : d[k + i] = e[i])
      BY <1>2, <1>3
    <2> HIDE DEF m, e, f, n
    <2> DEFINE j == k + m
    <2>3. Joined(d, k, f, m, e) /\ j = k + m
      BY <2>2 DEF Joined
    <2> HIDE DEF j
    <2>4. Number(B, d, j) = Number(B, f, k) + Pow(B, k) * Number(B, e, m)
      BY <2>1, <2>3, NumberJoined
    <2> QED
      BY <2>4 DEF m, j
  <1> HIDE DEF f, e
  <1>5. NatOf(d) = NatOf(f) + Pow(B, k) * NatOf(e)
    <2>1. k + (n - k) = n
      BY <1>1
    <2>2. NatOf(d) = Number(B, d, k + (n - k)) /\ NatOf(f) = Number(B, f, k) /\ NatOf(e) = Number(B, e, n - k)
      BY <1>2, <1>3, <2>1 DEF NatOf
    <2> QED
      BY <1>4, <2>2
  <1> QED
    BY <1>2, <1>3, <1>5 DEF f, e, n

----------------------------------------------------------------------------
(* The natural numbers of mini-gmp: mpn_.                                   *)

\* A chain of additions or of subtractions on numbers of n limbs.
Adding(e, c, u, n) == \A i \in 1 .. n : e[i][1] + B * e[i][2] = u[i] + c[i - 1]
Taking(e, c, u, n) == \A i \in 1 .. n : e[i][1] - B * e[i][2] = u[i] - c[i - 1]

LEMMA ChainAdds ==
  ASSUME NEW n \in Nat, NEW C \in SUBSET Int, NEW c0, NEW t, NEW c, NEW e, NEW u,
         Chained(t, n, Limb, C, c0, c, e), Ints(u, n), Adding(e, c, u, n)
  PROVE  Number(B, t.r, n) + Pow(B, n) * t.cy = Number(B, u, n) + c0
  <1>1. B \in Int /\ \A a \in Limb : a \in Int
    BY LimbsAre
  <1>2. \A i \in 0 .. n : c[i] \in Int
    BY DEF Chained
  <1>3. \A i \in 1 .. n : t.r[i] = e[i][1] /\ c[i] = e[i][2] /\ t.r[i] \in Int
    <2> TAKE i \in 1 .. n
    <2>1. e[i] \in Limb \X C /\ t.r[i] = e[i][1] /\ c[i] = e[i][2]
      BY DEF Chained
    <2> QED
      BY <1>1, <2>1
  <1> DEFINE d == t.r
  <1>4. Ints(d, n) /\ \A i \in 1 .. n : d[i] + B * c[i] = u[i] + c[i - 1]
    BY <1>3 DEF Ints, Adding
  <1> HIDE DEF d
  <1>5. Number(B, d, n) + Pow(B, n) * c[n] = Number(B, u, n) + c[0]
    BY <1>1, <1>2, <1>4, NumberCarried
  <1> QED
    BY <1>5 DEF d, Chained

LEMMA ChainSubtracts ==
  ASSUME NEW n \in Nat, NEW C \in SUBSET Int, NEW c0, NEW t, NEW c, NEW e, NEW u,
         Chained(t, n, Limb, C, c0, c, e), Ints(u, n), Taking(e, c, u, n)
  PROVE  Number(B, t.r, n) - Pow(B, n) * t.cy = Number(B, u, n) - c0
  <1>1. B \in Int /\ \A a \in Limb : a \in Int
    BY LimbsAre
  <1>2. \A i \in 0 .. n : c[i] \in Int
    BY DEF Chained
  <1>3. \A i \in 1 .. n : t.r[i] = e[i][1] /\ c[i] = e[i][2] /\ t.r[i] \in Int
    <2> TAKE i \in 1 .. n
    <2>1. e[i] \in Limb \X C /\ t.r[i] = e[i][1] /\ c[i] = e[i][2]
      BY DEF Chained
    <2> QED
      BY <1>1, <2>1
  <1> DEFINE d == t.r
             m == [i \in 0 .. n |-> -c[i]]
  <1>4. Ints(d, n) /\ \A i \in 1 .. n : d[i] - B * c[i] = u[i] - c[i - 1]
    BY <1>3 DEF Ints, Taking
  <1>5. \A i \in 0 .. n : m[i] = -c[i] /\ m[i] \in Int
    BY <1>2
  <1> HIDE DEF d, m
  <1>6. ASSUME NEW i \in 1 .. n PROVE d[i] + B * m[i] = u[i] + m[i - 1]
    <2>1. i - 1 \in 0 .. n /\ i \in 0 .. n
      OBVIOUS
    <2>2. d[i] \in Int /\ u[i] \in Int /\ c[i] \in Int /\ c[i - 1] \in Int
          /\ m[i] = -c[i] /\ m[i - 1] = -c[i - 1]
      BY <1>2, <1>4, <1>5, <2>1 DEF Ints
    <2>3. B * (-c[i]) = -(B * c[i]) /\ B * c[i] \in Int
      BY <1>1, <2>2
    <2> QED
      BY <1>4, <2>2, <2>3
  <1>7. Number(B, d, n) + Pow(B, n) * m[n] = Number(B, u, n) + m[0]
    <2>1. Ints(d, n) /\ Ints(u, n) /\ B \in Int
      BY <1>1, <1>4
    <2>2. \A i \in 0 .. n : m[i] \in Int
      BY <1>5
    <2> QED
      BY ONLY <2>1, <2>2, <1>6, n \in Nat, NumberCarried
  <1>8. /\ Number(B, d, n) \in Int /\ Number(B, u, n) \in Int /\ Pow(B, n) \in Int
        /\ c[n] \in Int /\ c[0] \in Int /\ m[n] = -c[n] /\ m[0] = -c[0]
    <2>1. n \in 0 .. n /\ 0 \in 0 .. n
      OBVIOUS
    <2> QED
      BY <1>1, <1>2, <1>4, <1>5, <2>1, NumberRec, PowRec DEF Ints
  <1>9. Pow(B, n) * (-c[n]) = -(Pow(B, n) * c[n]) /\ Pow(B, n) * c[n] \in Int
    BY <1>8
  <1>10. Number(B, d, n) - Pow(B, n) * c[n] = Number(B, u, n) - c[0]
    BY <1>7, <1>8, <1>9
  <1> QED
    BY <1>10 DEF d, Chained

LEMMA OneStep ==
  ASSUME NEW a \in Limb, NEW c \in Limb
  PROVE  /\ AddOne(a, c) \in Limb \X Limb /\ TakeOne(a, c) \in Limb \X Limb
         /\ AddOne(a, c)[2] \in {0, 1} /\ TakeOne(a, c)[2] \in {0, 1}
         /\ AddOne(a, c)[1] + B * AddOne(a, c)[2] = a + c
         /\ TakeOne(a, c)[1] - B * TakeOne(a, c)[2] = a - c
  <1>1. Wrap(a + c) \in Limb /\ Wrap(a - c) \in Limb
    BY LimbSum, LimbDifference
  <1>2. Bit(Wrap(a + c) < c) \in {0, 1} /\ Bit(a < c) \in {0, 1} /\ {0, 1} \subseteq Limb
    BY LimbsAre DEF Bit
  <1> QED
    BY <1>1, <1>2, LimbSum, LimbDifference DEF AddOne, TakeOne

LEMMA TwoStep ==
  ASSUME NEW a \in Limb, NEW b \in Limb, NEW c \in {0, 1}
  PROVE  /\ AddTwo(a, b, c) \in Limb \X {0, 1} /\ TakeTwo(a, b, c) \in Limb \X {0, 1}
         /\ AddTwo(a, b, c)[1] + B * AddTwo(a, b, c)[2] = (a + b) + c
         /\ TakeTwo(a, b, c)[1] - B * TakeTwo(a, b, c)[2] = (a - b) - c
  <1> DEFINE r == Wrap(a + c)
             s == Wrap(r + b)
             t == Wrap(b + c)
             d == Wrap(a - t)
             r1 == Bit(r < c)
             s1 == Bit(s < b)
             t1 == Bit(t < c)
             d1 == Bit(a < t)
  <1>0. c \in Limb /\ B \in Nat \ {0} /\ B >= 4 /\ a \in 0 .. B - 1 /\ b \in 0 .. B - 1
    BY LimbIs, LimbsAre
  <1>1. r \in Limb /\ r + B * r1 = a + c /\ t \in Limb /\ t + B * t1 = b + c
    BY <1>0, LimbSum
  <1>2. s \in Limb /\ s + B * s1 = r + b /\ d \in Limb /\ d - B * d1 = a - t
    BY <1>0, <1>1, LimbSum, LimbDifference
  <1>3. r1 \in {0, 1} /\ s1 \in {0, 1} /\ t1 \in {0, 1} /\ d1 \in {0, 1}
    BY DEF Bit
  <1>4. AddTwo(a, b, c) = <<s, r1 + s1>> /\ TakeTwo(a, b, c) = <<d, t1 + d1>>
    BY DEF AddTwo, TakeTwo
  <1>5. /\ r \in 0 .. B - 1 /\ s \in 0 .. B - 1 /\ t \in 0 .. B - 1 /\ d \in 0 .. B - 1
    BY <1>1, <1>2, LimbIs
  <1> HIDE DEF r, s, t, d, r1, s1, t1, d1
  <1>6. r1 + s1 \in {0, 1} /\ t1 + d1 \in {0, 1}
    <2>1. ~(r1 = 1 /\ s1 = 1)
      BY <1>0, <1>1, <1>2, <1>5
    <2>2. ~(t1 = 1 /\ d1 = 1)
      BY <1>0, <1>1, <1>2, <1>5
    <2> QED
      BY <1>3, <2>1, <2>2
  <1>7. s + B * (r1 + s1) = (a + b) + c
    <2>1. B * (r1 + s1) = B * r1 + B * s1 /\ B * r1 \in Int /\ B * s1 \in Int
      BY <1>0, <1>3
    <2>2. r + B * r1 = a + c /\ s + B * s1 = r + b /\ r \in Int /\ s \in Int /\ a \in Int /\ b \in Int /\ c \in Int
            /\ r1 \in Int /\ s1 \in Int /\ B \in Int
      BY <1>0, <1>1, <1>2, <1>3, <1>5
    <2> QED
      BY ONLY <2>1, <2>2
  <1>8. d - B * (t1 + d1) = (a - b) - c
    <2>1. B * (t1 + d1) = B * t1 + B * d1 /\ B * t1 \in Int /\ B * d1 \in Int
      BY <1>0, <1>3
    <2>2. t + B * t1 = b + c /\ d - B * d1 = a - t /\ t \in Int /\ d \in Int /\ a \in Int /\ b \in Int /\ c \in Int
            /\ t1 \in Int /\ d1 \in Int /\ B \in Int
      BY <1>0, <1>1, <1>2, <1>3, <1>5
    <2> QED
      BY ONLY <2>1, <2>2
  <1> QED
    BY <1>2, <1>4, <1>6, <1>7, <1>8

----------------------------------------------------------------------------
(* Sums and differences: mpn_add_1, mpn_add_n, mpn_add and their likes.    *)

\* The n limbs of t and what leaves them are v.
Sum(t, n, v) ==
    /\ t.r \in Seq(Limb) /\ Len(t.r) = n
    /\ NatOf(t.r) + Pow(B, n) * t.cy = v
Difference(t, n, v) ==
    /\ t.r \in Seq(Limb) /\ Len(t.r) = n
    /\ NatOf(t.r) - Pow(B, n) * t.cy = v

StepsAdd(step, n, C, u) ==
    \A i \in 1 .. n : \A c \in C : step[i][c][1] + B * step[i][c][2] = u[i] + c
StepsTake(step, n, C, u) ==
    \A i \in 1 .. n : \A c \in C : step[i][c][1] - B * step[i][c][2] = u[i] - c

LEMMA ChainIsSum ==
  ASSUME NEW n \in Nat, NEW C \in SUBSET Int, NEW c0 \in C, NEW step, NEW u, NEW v \in Int, Ints(u, n),
         StepsIn(step, n, Limb, C), StepsAdd(step, n, C, u),
         Number(B, u, n) = v
  PROVE  Sum(Chain(step, n, c0), n, v + c0) /\ Chain(step, n, c0).cy \in C
  <1> DEFINE t == Chain(step, n, c0)
  <1>1. PICK c, e : Chained(t, n, Limb, C, c0, c, e) /\ Follows(e, step, c, n)
    <2>1. ChainIs(t, step, n, Limb, C, c0)
      BY ChainRuns
    <2> QED
      BY <2>1 DEF ChainIs
  <1> HIDE DEF t
  <1>2. \A i \in 1 .. n : i - 1 \in 0 .. n
    OBVIOUS
  <1>3. c \in [0 .. n -> C] /\ n \in 0 .. n
    BY <1>1 DEF Chained
  <1>4. Adding(e, c, u, n)
    <2>1. ASSUME NEW i \in 1 .. n PROVE e[i][1] + B * e[i][2] = u[i] + c[i - 1]
      <3>1. c[i - 1] \in C /\ e[i] = step[i][c[i - 1]]
        BY <1>1, <1>2, <1>3 DEF Follows
      <3> QED
        BY <3>1 DEF StepsAdd
    <2> QED
      BY <2>1 DEF Adding
  <1>5. Number(B, t.r, n) + Pow(B, n) * t.cy = Number(B, u, n) + c0
    <2>1. Chained(t, n, Limb, C, c0, c, e)
      BY <1>1
    <2> QED
      BY <1>4, <2>1, ChainAdds
  <1>6. t.r \in Seq(Limb) /\ Len(t.r) = n /\ t.cy \in C
    BY <1>1, <1>3 DEF Chained
  <1>7. Sum(t, n, v + c0) /\ t.cy \in C
    BY <1>5, <1>6 DEF Sum, NatOf
  <1> QED
    BY <1>7 DEF t

LEMMA ChainIsDifference ==
  ASSUME NEW n \in Nat, NEW C \in SUBSET Int, NEW c0 \in C, NEW step, NEW u, NEW v \in Int, Ints(u, n),
         StepsIn(step, n, Limb, C), StepsTake(step, n, C, u),
         Number(B, u, n) = v
  PROVE  Difference(Chain(step, n, c0), n, v - c0) /\ Chain(step, n, c0).cy \in C
  <1> DEFINE t == Chain(step, n, c0)
  <1>1. PICK c, e : Chained(t, n, Limb, C, c0, c, e) /\ Follows(e, step, c, n)
    <2>1. ChainIs(t, step, n, Limb, C, c0)
      BY ChainRuns
    <2> QED
      BY <2>1 DEF ChainIs
  <1> HIDE DEF t
  <1>2. \A i \in 1 .. n : i - 1 \in 0 .. n
    OBVIOUS
  <1>3. c \in [0 .. n -> C] /\ n \in 0 .. n
    BY <1>1 DEF Chained
  <1>4. Taking(e, c, u, n)
    <2>1. ASSUME NEW i \in 1 .. n PROVE e[i][1] - B * e[i][2] = u[i] - c[i - 1]
      <3>1. c[i - 1] \in C /\ e[i] = step[i][c[i - 1]]
        BY <1>1, <1>2, <1>3 DEF Follows
      <3> QED
        BY <3>1 DEF StepsTake
    <2> QED
      BY <2>1 DEF Taking
  <1>5. Number(B, t.r, n) - Pow(B, n) * t.cy = Number(B, u, n) - c0
    <2>1. Chained(t, n, Limb, C, c0, c, e)
      BY <1>1
    <2> QED
      BY <1>4, <2>1, ChainSubtracts
  <1>6. t.r \in Seq(Limb) /\ Len(t.r) = n /\ t.cy \in C
    BY <1>1, <1>3 DEF Chained
  <1>7. Difference(t, n, v - c0) /\ t.cy \in C
    BY <1>5, <1>6 DEF Difference, NatOf
  <1> QED
    BY <1>7 DEF t

LEMMA AddOneSum ==
  ASSUME NEW ap \in Seq(Limb), NEW b \in Limb
  PROVE  Sum(mpn_add_1(ap, b), Len(ap), NatOf(ap) + b) /\ mpn_add_1(ap, b).cy \in Limb
  <1> DEFINE n == Len(ap)
             step == [i \in DOMAIN ap |-> [c \in Limb |-> AddOne(ap[i], c)]]
  <1>1. mpn_add_1(ap, b) = Chain(step, n, b)
    BY DEF mpn_add_1
  <1>2. n \in Nat /\ DOMAIN ap = 1 .. n /\ Ints(ap, n) /\ Number(B, ap, n) = NatOf(ap) /\ NatOf(ap) \in Int
    BY NatOfIs, SeqIsFunction
  <1>3. \A i \in 1 .. n : \A c \in Limb : step[i][c] = AddOne(ap[i], c) /\ ap[i] \in Limb
    BY <1>2
  <1> HIDE DEF step, n
  <1>4. StepsIn(step, n, Limb, Limb) /\ StepsAdd(step, n, Limb, ap)
    <2>1. ASSUME NEW i \in 1 .. n, NEW c \in Limb
          PROVE  step[i][c] \in Limb \X Limb /\ step[i][c][1] + B * step[i][c][2] = ap[i] + c
      <3>1. step[i][c] = AddOne(ap[i], c) /\ ap[i] \in Limb
        BY <1>3
      <3> QED
        BY <3>1, OneStep
    <2> QED
      BY <2>1 DEF StepsIn, StepsAdd
  <1>5. Limb \in SUBSET Int
    BY LimbIs
  <1>6. Sum(Chain(step, n, b), n, NatOf(ap) + b) /\ Chain(step, n, b).cy \in Limb
    BY <1>2, <1>4, <1>5, ChainIsSum
  <1> QED
    BY <1>1, <1>6 DEF n

LEMMA TakeOneDifference ==
  ASSUME NEW ap \in Seq(Limb), NEW b \in Limb
  PROVE  Difference(mpn_sub_1(ap, b), Len(ap), NatOf(ap) - b) /\ mpn_sub_1(ap, b).cy \in Limb
  <1> DEFINE n == Len(ap)
             step == [i \in DOMAIN ap |-> [c \in Limb |-> TakeOne(ap[i], c)]]
  <1>1. mpn_sub_1(ap, b) = Chain(step, n, b)
    BY DEF mpn_sub_1
  <1>2. n \in Nat /\ DOMAIN ap = 1 .. n /\ Ints(ap, n) /\ Number(B, ap, n) = NatOf(ap) /\ NatOf(ap) \in Int
    BY NatOfIs, SeqIsFunction
  <1>3. \A i \in 1 .. n : \A c \in Limb : step[i][c] = TakeOne(ap[i], c) /\ ap[i] \in Limb
    BY <1>2
  <1> HIDE DEF step, n
  <1>4. StepsIn(step, n, Limb, Limb) /\ StepsTake(step, n, Limb, ap)
    <2>1. ASSUME NEW i \in 1 .. n, NEW c \in Limb
          PROVE  step[i][c] \in Limb \X Limb /\ step[i][c][1] - B * step[i][c][2] = ap[i] - c
      <3>1. step[i][c] = TakeOne(ap[i], c) /\ ap[i] \in Limb
        BY <1>3
      <3> QED
        BY <3>1, OneStep
    <2> QED
      BY <2>1 DEF StepsIn, StepsTake
  <1>5. Limb \in SUBSET Int
    BY LimbIs
  <1>6. Difference(Chain(step, n, b), n, NatOf(ap) - b) /\ Chain(step, n, b).cy \in Limb
    BY <1>2, <1>4, <1>5, ChainIsDifference
  <1> QED
    BY <1>1, <1>6 DEF n

LEMMA AddTwoSum ==
  ASSUME NEW ap \in Seq(Limb), NEW bp \in Seq(Limb), Len(ap) = Len(bp)
  PROVE  Sum(mpn_add_n(ap, bp), Len(ap), NatOf(ap) + NatOf(bp)) /\ mpn_add_n(ap, bp).cy \in {0, 1}
  <1> DEFINE n == Len(ap)
             step == [i \in DOMAIN ap |-> [c \in {0, 1} |-> AddTwo(ap[i], bp[i], c)]]
             u == [i \in 1 .. n |-> ap[i] + bp[i]]
  <1>1. mpn_add_n(ap, bp) = Chain(step, n, 0)
    BY DEF mpn_add_n
  <1>2. n \in Nat /\ DOMAIN ap = 1 .. n /\ Ints(ap, n) /\ Number(B, ap, n) = NatOf(ap) /\ NatOf(ap) \in Int
    BY NatOfIs, SeqIsFunction
  <1>3. n = Len(bp) /\ Ints(bp, n) /\ Number(B, bp, n) = NatOf(bp) /\ NatOf(bp) \in Int /\ B \in Int
    BY NatOfIs, LimbsAre
  <1>4. \A i \in 1 .. n : ap[i] \in Limb /\ bp[i] \in Limb /\ u[i] = ap[i] + bp[i]
    BY <1>2, <1>3, NatOfIs
  <1>5. \A i \in 1 .. n : \A c \in {0, 1} : step[i][c] = AddTwo(ap[i], bp[i], c)
    BY <1>2
  <1> HIDE DEF step, n, u
  <1>6. Ints(u, n) /\ Combined(u, n, 1, ap, 1, bp)
    BY <1>2, <1>3, <1>4 DEF Ints, Combined
  <1>7. Number(B, u, n) = 1 * Number(B, ap, n) + 1 * Number(B, bp, n)
    <2>1. 1 \in Int
      OBVIOUS
    <2> QED
      BY <1>2, <1>3, <1>6, <2>1, NumberCombined
  <1>8. StepsIn(step, n, Limb, {0, 1}) /\ StepsAdd(step, n, {0, 1}, u)
    <2>1. ASSUME NEW i \in 1 .. n, NEW c \in {0, 1}
          PROVE  step[i][c] \in Limb \X {0, 1} /\ step[i][c][1] + B * step[i][c][2] = u[i] + c
      <3>1. step[i][c] = AddTwo(ap[i], bp[i], c) /\ ap[i] \in Limb /\ bp[i] \in Limb /\ u[i] = ap[i] + bp[i]
        BY <1>4, <1>5
      <3> QED
        BY <3>1, TwoStep
    <2> QED
      BY <2>1 DEF StepsIn, StepsAdd
  <1> DEFINE v == NatOf(ap) + NatOf(bp)
  <1>9. v \in Int /\ Number(B, u, n) = v /\ v + 0 = v
    BY <1>2, <1>3, <1>7
  <1> HIDE DEF v
  <1>10. Sum(Chain(step, n, 0), n, v + 0) /\ Chain(step, n, 0).cy \in {0, 1}
    <2>1. {0, 1} \in SUBSET Int /\ 0 \in {0, 1}
      OBVIOUS
    <2> QED
      BY <1>2, <1>6, <1>8, <1>9, <2>1, ChainIsSum
  <1> QED
    BY <1>1, <1>9, <1>10 DEF n, v

LEMMA TakeTwoDifference ==
  ASSUME NEW ap \in Seq(Limb), NEW bp \in Seq(Limb), Len(ap) = Len(bp)
  PROVE  Difference(mpn_sub_n(ap, bp), Len(ap), NatOf(ap) - NatOf(bp)) /\ mpn_sub_n(ap, bp).cy \in {0, 1}
  <1> DEFINE n == Len(ap)
             step == [i \in DOMAIN ap |-> [c \in {0, 1} |-> TakeTwo(ap[i], bp[i], c)]]
             u == [i \in 1 .. n |-> ap[i] - bp[i]]
  <1>1. mpn_sub_n(ap, bp) = Chain(step, n, 0)
    BY DEF mpn_sub_n
  <1>2. n \in Nat /\ DOMAIN ap = 1 .. n /\ Ints(ap, n) /\ Number(B, ap, n) = NatOf(ap) /\ NatOf(ap) \in Int
    BY NatOfIs, SeqIsFunction
  <1>3. n = Len(bp) /\ Ints(bp, n) /\ Number(B, bp, n) = NatOf(bp) /\ NatOf(bp) \in Int /\ B \in Int
    BY NatOfIs, LimbsAre
  <1>4. \A i \in 1 .. n : ap[i] \in Limb /\ bp[i] \in Limb /\ u[i] = ap[i] - bp[i]
    BY <1>2, <1>3, NatOfIs
  <1>5. \A i \in 1 .. n : \A c \in {0, 1} : step[i][c] = TakeTwo(ap[i], bp[i], c)
    BY <1>2
  <1> HIDE DEF step, n, u
  <1>6. Ints(u, n) /\ Combined(u, n, 1, ap, -1, bp)
    <2>1. ASSUME NEW i \in 1 .. n PROVE u[i] \in Int /\ u[i] = 1 * ap[i] + (-1) * bp[i]
      <3>1. ap[i] \in Int /\ bp[i] \in Int /\ u[i] = ap[i] - bp[i]
        BY <1>2, <1>3, <1>4 DEF Ints
      <3> QED
        BY <3>1
    <2> QED
      BY <2>1 DEF Ints, Combined
  <1>7. Number(B, u, n) = 1 * Number(B, ap, n) + (-1) * Number(B, bp, n)
    <2>1. 1 \in Int /\ -1 \in Int
      OBVIOUS
    <2> QED
      BY <1>2, <1>3, <1>6, <2>1, NumberCombined
  <1>8. StepsIn(step, n, Limb, {0, 1}) /\ StepsTake(step, n, {0, 1}, u)
    <2>1. ASSUME NEW i \in 1 .. n, NEW c \in {0, 1}
          PROVE  step[i][c] \in Limb \X {0, 1} /\ step[i][c][1] - B * step[i][c][2] = u[i] - c
      <3>1. step[i][c] = TakeTwo(ap[i], bp[i], c) /\ ap[i] \in Limb /\ bp[i] \in Limb /\ u[i] = ap[i] - bp[i]
        BY <1>4, <1>5
      <3> QED
        BY <3>1, TwoStep
    <2> QED
      BY <2>1 DEF StepsIn, StepsTake
  <1> DEFINE v == NatOf(ap) - NatOf(bp)
  <1>9. v \in Int /\ Number(B, u, n) = v /\ v - 0 = v
    BY <1>2, <1>3, <1>7
  <1> HIDE DEF v
  <1>10. Difference(Chain(step, n, 0), n, v - 0) /\ Chain(step, n, 0).cy \in {0, 1}
    <2>1. {0, 1} \in SUBSET Int /\ 0 \in {0, 1}
      OBVIOUS
    <2> QED
      BY <1>2, <1>6, <1>8, <1>9, <2>1, ChainIsDifference
  <1> QED
    BY <1>1, <1>9, <1>10 DEF n, v

Mixed(s, a, b, c, p, q, u, v, w) ==
    a + p * c = u + w /\ b + q * s = v + c => (a + p * b) + (p * q) * s = (u + p * v) + w

LEMMA MixedHolds ==
  ASSUME NEW s \in Int, NEW a \in Int, NEW b \in Int, NEW c \in Int, NEW p \in Int, NEW q \in Int,
         NEW u \in Int, NEW v \in Int, NEW w \in Int
  PROVE  Mixed(s, a, b, c, p, q, u, v, w)
  <1>1. SUFFICES ASSUME a + p * c = u + w, b + q * s = v + c
                 PROVE  (a + p * b) + (p * q) * s = (u + p * v) + w
    BY DEF Mixed
  <1>2. p * (b + q * s) = p * (v + c)
    BY <1>1
  <1>3. p * (b + q * s) = p * b + (p * q) * s /\ p * (v + c) = p * v + p * c
    OBVIOUS
  <1> QED
    BY <1>1, <1>2, <1>3

MixedLess(s, a, b, c, p, q, u, v, w) ==
    a - p * c = u - w /\ b - q * s = v - c => (a + p * b) - (p * q) * s = (u + p * v) - w

LEMMA MixedLessHolds ==
  ASSUME NEW s \in Int, NEW a \in Int, NEW b \in Int, NEW c \in Int, NEW p \in Int, NEW q \in Int,
         NEW u \in Int, NEW v \in Int, NEW w \in Int
  PROVE  MixedLess(s, a, b, c, p, q, u, v, w)
  <1>1. SUFFICES ASSUME a - p * c = u - w, b - q * s = v - c
                 PROVE  (a + p * b) - (p * q) * s = (u + p * v) - w
    BY DEF MixedLess
  <1>2. p * (b - q * s) = p * (v - c)
    BY <1>1
  <1>3. p * (b - q * s) = p * b - (p * q) * s /\ p * (v - c) = p * v - p * c
    OBVIOUS
  <1> QED
    BY <1>1, <1>2, <1>3

SumPieces(r, s, k, m, c, d, lo, hi, w) ==
    /\ k \in Nat /\ m \in Nat /\ lo \in Seq(Limb) /\ hi \in Seq(Limb)
    /\ r \in Seq(Limb) /\ s \in Seq(Limb) /\ c \in Int /\ d \in Int /\ w \in Int
    /\ Len(lo) = k /\ Len(hi) = m /\ Len(r) = k /\ Len(s) = m
    /\ NatOf(r) + Pow(B, k) * c = NatOf(lo) + w
    /\ NatOf(s) + Pow(B, m) * d = NatOf(hi) + c

LEMMA SumJoined ==
  ASSUME NEW k, NEW m, NEW lo, NEW hi, NEW r, NEW s, NEW c, NEW d, NEW w,
         SumPieces(r, s, k, m, c, d, lo, hi, w)
  PROVE  /\ r \o s \in Seq(Limb) /\ Len(r \o s) = k + m
         /\ NatOf(r \o s) + Pow(B, k + m) * d = (NatOf(lo) + Pow(B, k) * NatOf(hi)) + w
  <1> USE DEF SumPieces
  <1>1. /\ r \o s \in Seq(Limb) /\ Len(r \o s) = k + m
        /\ NatOf(r \o s) = NatOf(r) + Pow(B, k) * NatOf(s)
    <2>1. /\ r \o s \in Seq(Limb) /\ Len(r \o s) = Len(r) + Len(s)
          /\ NatOf(r \o s) = NatOf(r) + Pow(B, Len(r)) * NatOf(s)
      BY NatOfConcat
    <2> QED
      BY <2>1
  <1>2. Pow(B, k + m) = Pow(B, k) * Pow(B, m) /\ Pow(B, k) \in Int /\ Pow(B, m) \in Int
    BY LimbsAre, PowSum, PowRec
  <1>3. NatOf(r) \in Int /\ NatOf(s) \in Int /\ NatOf(lo) \in Int /\ NatOf(hi) \in Int
    BY NatOfIs
  <1>4. Mixed(d, NatOf(r), NatOf(s), c, Pow(B, k), Pow(B, m), NatOf(lo), NatOf(hi), w)
    BY <1>2, <1>3, MixedHolds
  <1> QED
    BY <1>1, <1>2, <1>4 DEF Mixed, SumPieces

LEMMA AddSum ==
  ASSUME NEW ap \in Seq(Limb), NEW bp \in Seq(Limb), Len(bp) <= Len(ap)
  PROVE  Sum(mpn_add(ap, bp), Len(ap), NatOf(ap) + NatOf(bp)) /\ mpn_add(ap, bp).cy \in Limb
  <1> DEFINE n == Len(ap)
             k == Len(bp)
             lo == SubSeq(ap, 1, k)
             hi == SubSeq(ap, k + 1, n)
             low == mpn_add_n(lo, bp)
             high == mpn_add_1(hi, low.cy)
  <1>1. mpn_add(ap, bp).r = low.r \o high.r /\ mpn_add(ap, bp).cy = high.cy
    BY DEF mpn_add
  <1>2. n \in Nat /\ k \in Nat /\ k \in 0 .. n /\ NatOf(ap) \in Int /\ NatOf(bp) \in Int
    BY NatOfIs
  <1>3. /\ lo \in Seq(Limb) /\ Len(lo) = k /\ hi \in Seq(Limb) /\ Len(hi) = n - k
        /\ NatOf(ap) = NatOf(lo) + Pow(B, k) * NatOf(hi)
    BY <1>2, NatOfPieces
  <1> HIDE DEF lo, hi
  <1>4. Sum(low, k, NatOf(lo) + NatOf(bp)) /\ low.cy \in {0, 1}
    BY <1>3, AddTwoSum
  <1>5. low.cy \in Limb /\ low.cy \in Int
    <2>1. {0, 1} \subseteq Limb
      BY LimbsAre
    <2> QED
      BY <1>4, <2>1, LimbIs
  <1> DEFINE c == low.cy
             r == low.r
  <1> HIDE DEF low
  <1>6. Sum(high, n - k, NatOf(hi) + c) /\ high.cy \in Limb
    BY <1>3, <1>5, AddOneSum
  <1> DEFINE d == high.cy
             s == high.r
  <1> HIDE DEF high
  <1>7. /\ r \in Seq(Limb) /\ Len(r) = k /\ s \in Seq(Limb) /\ Len(s) = n - k
        /\ NatOf(r) + Pow(B, k) * c = NatOf(lo) + NatOf(bp)
        /\ NatOf(s) + Pow(B, n - k) * d = NatOf(hi) + c
        /\ c \in Int /\ d \in Int /\ d \in Limb
    <2>1. d \in Limb
      BY <1>6
    <2> QED
      BY <1>4, <1>5, <1>6, <2>1, LimbIs DEF Sum
  <1>8. mpn_add(ap, bp).r = r \o s /\ mpn_add(ap, bp).cy = d
    BY <1>1
  <1> DEFINE m == n - k
             w == NatOf(bp)
  <1>9. m \in Nat /\ k + m = n /\ w \in Int
    BY <1>2
  <1> HIDE DEF c, d, r, s, k, n, m, w
  <1>10. r \o s \in Seq(Limb) /\ Len(r \o s) = k + m
         /\ NatOf(r \o s) + Pow(B, k + m) * d = (NatOf(lo) + Pow(B, k) * NatOf(hi)) + w
    <2>1. SumPieces(r, s, k, m, c, d, lo, hi, w)
      BY <1>2, <1>3, <1>7, <1>9 DEF m, w, SumPieces
    <2>2. /\ r \o s \in Seq(Limb) /\ Len(r \o s) = k + m
          /\ NatOf(r \o s) + Pow(B, k + m) * d = (NatOf(lo) + Pow(B, k) * NatOf(hi)) + w
      BY ONLY <2>1, SumJoined
    <2> QED
      BY <2>2
  <1> QED
    BY <1>3, <1>7, <1>8, <1>9, <1>10 DEF Sum, n, w

DifferencePieces(r, s, k, m, c, d, lo, hi, w) ==
    /\ k \in Nat /\ m \in Nat /\ lo \in Seq(Limb) /\ hi \in Seq(Limb)
    /\ r \in Seq(Limb) /\ s \in Seq(Limb) /\ c \in Int /\ d \in Int /\ w \in Int
    /\ Len(lo) = k /\ Len(hi) = m /\ Len(r) = k /\ Len(s) = m
    /\ NatOf(r) - Pow(B, k) * c = NatOf(lo) - w
    /\ NatOf(s) - Pow(B, m) * d = NatOf(hi) - c

LEMMA DifferenceJoined ==
  ASSUME NEW k, NEW m, NEW lo, NEW hi, NEW r, NEW s, NEW c, NEW d, NEW w,
         DifferencePieces(r, s, k, m, c, d, lo, hi, w)
  PROVE  /\ r \o s \in Seq(Limb) /\ Len(r \o s) = k + m
         /\ NatOf(r \o s) - Pow(B, k + m) * d = (NatOf(lo) + Pow(B, k) * NatOf(hi)) - w
  <1> USE DEF DifferencePieces
  <1>1. /\ r \o s \in Seq(Limb) /\ Len(r \o s) = k + m
        /\ NatOf(r \o s) = NatOf(r) + Pow(B, k) * NatOf(s)
    <2>1. /\ r \o s \in Seq(Limb) /\ Len(r \o s) = Len(r) + Len(s)
          /\ NatOf(r \o s) = NatOf(r) + Pow(B, Len(r)) * NatOf(s)
      BY NatOfConcat
    <2> QED
      BY <2>1
  <1>2. Pow(B, k + m) = Pow(B, k) * Pow(B, m) /\ Pow(B, k) \in Int /\ Pow(B, m) \in Int
    BY LimbsAre, PowSum, PowRec
  <1>3. NatOf(r) \in Int /\ NatOf(s) \in Int /\ NatOf(lo) \in Int /\ NatOf(hi) \in Int
    BY NatOfIs
  <1>4. MixedLess(d, NatOf(r), NatOf(s), c, Pow(B, k), Pow(B, m), NatOf(lo), NatOf(hi), w)
    BY <1>2, <1>3, MixedLessHolds
  <1> QED
    BY <1>1, <1>2, <1>4 DEF MixedLess, DifferencePieces

LEMMA SubDifference ==
  ASSUME NEW ap \in Seq(Limb), NEW bp \in Seq(Limb), Len(bp) <= Len(ap)
  PROVE  Difference(mpn_sub(ap, bp), Len(ap), NatOf(ap) - NatOf(bp)) /\ mpn_sub(ap, bp).cy \in Limb
  <1> DEFINE n == Len(ap)
             k == Len(bp)
             lo == SubSeq(ap, 1, k)
             hi == SubSeq(ap, k + 1, n)
             low == mpn_sub_n(lo, bp)
             high == mpn_sub_1(hi, low.cy)
  <1>1. mpn_sub(ap, bp).r = low.r \o high.r /\ mpn_sub(ap, bp).cy = high.cy
    BY DEF mpn_sub
  <1>2. n \in Nat /\ k \in Nat /\ k \in 0 .. n /\ NatOf(ap) \in Int /\ NatOf(bp) \in Int
    BY NatOfIs
  <1>3. /\ lo \in Seq(Limb) /\ Len(lo) = k /\ hi \in Seq(Limb) /\ Len(hi) = n - k
        /\ NatOf(ap) = NatOf(lo) + Pow(B, k) * NatOf(hi)
    BY <1>2, NatOfPieces
  <1> HIDE DEF lo, hi
  <1>4. Difference(low, k, NatOf(lo) - NatOf(bp)) /\ low.cy \in {0, 1}
    BY <1>3, TakeTwoDifference
  <1>5. low.cy \in Limb /\ low.cy \in Int
    <2>1. {0, 1} \subseteq Limb
      BY LimbsAre
    <2> QED
      BY <1>4, <2>1, LimbIs
  <1> DEFINE c == low.cy
             r == low.r
  <1> HIDE DEF low
  <1>6. Difference(high, n - k, NatOf(hi) - c) /\ high.cy \in Limb
    BY <1>3, <1>5, TakeOneDifference
  <1> DEFINE d == high.cy
             s == high.r
  <1> HIDE DEF high
  <1>7. /\ r \in Seq(Limb) /\ Len(r) = k /\ s \in Seq(Limb) /\ Len(s) = n - k
        /\ NatOf(r) - Pow(B, k) * c = NatOf(lo) - NatOf(bp)
        /\ NatOf(s) - Pow(B, n - k) * d = NatOf(hi) - c
        /\ c \in Int /\ d \in Int /\ d \in Limb
    <2>1. d \in Limb
      BY <1>6
    <2> QED
      BY <1>4, <1>5, <1>6, <2>1, LimbIs DEF Difference
  <1>8. mpn_sub(ap, bp).r = r \o s /\ mpn_sub(ap, bp).cy = d
    BY <1>1
  <1> DEFINE m == n - k
             w == NatOf(bp)
  <1>9. m \in Nat /\ k + m = n /\ w \in Int
    BY <1>2
  <1> HIDE DEF c, d, r, s, k, n, m, w
  <1>10. r \o s \in Seq(Limb) /\ Len(r \o s) = k + m
         /\ NatOf(r \o s) - Pow(B, k + m) * d = (NatOf(lo) + Pow(B, k) * NatOf(hi)) - w
    <2>1. DifferencePieces(r, s, k, m, c, d, lo, hi, w)
      BY <1>2, <1>3, <1>7, <1>9 DEF m, w, DifferencePieces
    <2>2. /\ r \o s \in Seq(Limb) /\ Len(r \o s) = k + m
          /\ NatOf(r \o s) - Pow(B, k + m) * d = (NatOf(lo) + Pow(B, k) * NatOf(hi)) - w
      BY ONLY <2>1, DifferenceJoined
    <2> QED
      BY <2>2
  <1> QED
    BY <1>3, <1>7, <1>8, <1>9, <1>10 DEF Difference, n, w

\* When it is not negative, the limbs of a difference are all of it.
LEMMA NoBorrow ==
  ASSUME NEW n \in Nat, NEW t, NEW v \in Nat, Difference(t, n, v), t.cy \in Limb, v < Pow(B, n)
  PROVE  t.r \in Seq(Limb) /\ Len(t.r) = n /\ NatOf(t.r) = v /\ t.cy = 0
  <1>1. /\ t.r \in Seq(Limb) /\ Len(t.r) = n /\ NatOf(t.r) - Pow(B, n) * t.cy = v
        /\ t.cy \in Nat
    BY LimbIs DEF Difference
  <1>2. NatOf(t.r) \in Nat /\ NatOf(t.r) < Pow(B, n) /\ Pow(B, n) \in Nat \ {0}
    BY <1>1, NatOfIs
  <1>3. ASSUME NEW a \in Nat, NEW p \in Nat \ {0}, NEW c \in Nat, a < p, a - p * c = v PROVE c = 0
    <2>1. c >= 1 => p * c >= p
      OBVIOUS
    <2> QED
      BY <1>3, <2>1
  <1>4. t.cy = 0
    BY <1>1, <1>2, <1>3
  <1> QED
    BY <1>1, <1>2, <1>4

\* The top limb of a number tells whether it needs all its limbs.
LEMMA TopLimb ==
  ASSUME NEW d \in Seq(Limb), d # <<>>
  PROVE  /\ Len(d) \in Nat \ {0} /\ Len(d) - 1 \in Nat /\ d[Len(d)] \in Limb
         /\ SubSeq(d, 1, Len(d) - 1) \in Seq(Limb) /\ Len(SubSeq(d, 1, Len(d) - 1)) = Len(d) - 1
         /\ NatOf(d) = NatOf(SubSeq(d, 1, Len(d) - 1)) + Pow(B, Len(d) - 1) * d[Len(d)]
         /\ d[Len(d)] # 0 <=> NatOf(d) >= Pow(B, Len(d) - 1)
  <1> DEFINE n == Len(d)
             m == n - 1
             lo == SubSeq(d, 1, m)
             hi == SubSeq(d, m + 1, n)
             a == d[n]
  <1>1. n \in Nat \ {0} /\ m \in Nat /\ m \in 0 .. n /\ n - m = 1 /\ m + 1 = n /\ n \in 1 .. n
    <2>1. n # 0
      BY EmptySeq
    <2> QED
      BY <2>1
  <1>2. /\ lo \in Seq(Limb) /\ Len(lo) = m /\ hi \in Seq(Limb) /\ Len(hi) = n - m
        /\ \A i \in 1 .. n - m : hi[i] = d[m + i]
        /\ NatOf(d) = NatOf(lo) + Pow(B, m) * NatOf(hi)
    BY <1>1, NatOfPieces
  <1>3. a \in Limb /\ a \in Nat
    <2>1. d[n] \in Limb
      BY <1>1
    <2> QED
      BY <2>1, LimbIs
  <1> HIDE DEF hi, lo
  <1>4. NatOf(hi) = a
    <2>1. Len(hi) = 1 /\ hi[1] = a
      BY <1>1, <1>2
    <2>2. hi = <<a>>
      BY <1>2, <2>1
    <2> QED
      BY <1>3, <2>2, NatOfShort
  <1>5. NatOf(lo) \in Nat /\ NatOf(lo) < Pow(B, m) /\ Pow(B, m) \in Nat \ {0}
    BY <1>2, NatOfIs
  <1> HIDE DEF a, m, n
  <1>6. a # 0 <=> NatOf(d) >= Pow(B, m)
    <2>1. CASE a = 0
      BY <1>2, <1>4, <1>5, <2>1
    <2>2. CASE a # 0
      <3>1. a >= 1
        BY <1>3, <2>2
      <3>2. Pow(B, m) * a >= Pow(B, m)
        BY <1>3, <1>5, <3>1
      <3>3. Pow(B, m) * a \in Int
        BY <1>3, <1>5
      <3> QED
        BY <1>2, <1>4, <1>5, <2>2, <3>2, <3>3
    <2> QED
      BY <2>1, <2>2
  <1> QED
    BY <1>1, <1>2, <1>3, <1>4, <1>6 DEF n, m, a, lo

----------------------------------------------------------------------------
(* The top limb is not zero: Normalized and WithoutZero.                   *)

Trimmed(d) == d # <<>> => d[Len(d)] # 0

\* A number of so many limbs, the upper ones of which are zero.
ZeroAbove(d, k) == \A i \in 1 .. Len(d) : i > k => d[i] = 0

LEMMA NoLimbs ==
  ASSUME NEW d, NEW n \in Nat, \A i \in 1 .. n : d[i] = 0
  PROVE  Number(B, d, n) = 0
  <1> DEFINE z == [i \in 1 .. n |-> 0]
  <1>1. B \in Int /\ Ints(z, n) /\ Combined(d, n, 0, z, 0, z)
    BY LimbsAre DEF Ints, Combined
  <1>2. Number(B, z, n) \in Int
    <2>1. (\A i \in 1 .. n : z[i] \in Int) /\ n \in 0 .. n
      OBVIOUS
    <2> HIDE DEF z
    <2> QED
      BY <1>1, <2>1, NumberRec
  <1> HIDE DEF z
  <1>3. Number(B, d, n) = 0 * Number(B, z, n) + 0 * Number(B, z, n)
    BY <1>1, NumberCombined
  <1> QED
    BY <1>2, <1>3

LEMMA ZerosDropped ==
  ASSUME NEW d \in Seq(Limb), NEW k \in 0 .. Len(d), ZeroAbove(d, k)
  PROVE  SubSeq(d, 1, k) \in Seq(Limb) /\ Len(SubSeq(d, 1, k)) = k /\ NatOf(SubSeq(d, 1, k)) = NatOf(d)
         /\ \A i \in 1 .. k : SubSeq(d, 1, k)[i] = d[i]
  <1> DEFINE lo == SubSeq(d, 1, k)
             hi == SubSeq(d, k + 1, Len(d))
             m == Len(d) - k
  <1>1. /\ lo \in Seq(Limb) /\ Len(lo) = k /\ hi \in Seq(Limb) /\ Len(hi) = m
        /\ \A i \in 1 .. k : lo[i] = d[i]
        /\ \A i \in 1 .. m : hi[i] = d[k + i]
        /\ NatOf(d) = NatOf(lo) + Pow(B, k) * NatOf(hi)
    BY NatOfPieces
  <1>2. Len(d) \in Nat /\ m \in Nat
    OBVIOUS
  <1>3. \A i \in 1 .. m : hi[i] = 0
    <2>1. \A i \in 1 .. m : k + i \in 1 .. Len(d) /\ k + i > k
      BY <1>2
    <2> QED
      BY <1>1, <2>1 DEF ZeroAbove
  <1> HIDE DEF lo, hi, m
  <1>4. NatOf(hi) = 0
    BY <1>1, <1>2, <1>3, NoLimbs DEF NatOf
  <1>5. NatOf(lo) \in Int /\ Pow(B, k) \in Int
    BY <1>1, NatOfIs, LimbsAre, PowRec
  <1>6. NatOf(lo) = NatOf(d)
    BY <1>1, <1>4, <1>5
  <1> QED
    BY <1>1, <1>6 DEF lo

LEMMA NormalizedKeeps ==
  ASSUME NEW d \in Seq(Limb)
  PROVE  /\ Normalized(d) \in Seq(Limb) /\ NatOf(Normalized(d)) = NatOf(d)
         /\ Len(Normalized(d)) <= Len(d) /\ Trimmed(Normalized(d))
  <1> DEFINE used == {i \in 1 .. Len(d) : d[i] # 0}
             k == mpn_normalized_size(d)
  <1>1. Len(d) \in Nat
    OBVIOUS
  <1>2. k \in 0 .. Len(d) /\ ZeroAbove(d, k) /\ (k # 0 => d[k] # 0)
    <2>1. CASE used = {}
      BY <1>1, <2>1 DEF mpn_normalized_size, ZeroAbove
    <2>2. CASE used # {}
      <3>1. \E i \in used : \A j \in used : j <= i
        <4>1. used \subseteq Nat /\ \A m \in used : m <= Len(d)
          BY <1>1
        <4> HIDE DEF used
        <4> QED
          BY <1>1, <2>2, <4>1, GreatestNumber
      <3>2. k = CHOOSE i \in used : \A j \in used : j <= i
        BY <2>2 DEF mpn_normalized_size
      <3>3. k \in used /\ \A j \in used : j <= k
        <4> HIDE DEF used, k
        <4> QED
          BY <3>1, <3>2
      <3> QED
        BY <1>1, <3>3 DEF ZeroAbove
    <2> QED
      BY <2>1, <2>2
  <1> HIDE DEF k
  <1>3. /\ SubSeq(d, 1, k) \in Seq(Limb) /\ Len(SubSeq(d, 1, k)) = k /\ NatOf(SubSeq(d, 1, k)) = NatOf(d)
        /\ \A i \in 1 .. k : SubSeq(d, 1, k)[i] = d[i]
    BY <1>2, ZerosDropped
  <1>4. Normalized(d) = SubSeq(d, 1, k)
    BY DEF Normalized, k
  <1>5. Trimmed(SubSeq(d, 1, k))
    <2>1. k # 0 => SubSeq(d, 1, k)[k] # 0
      BY <1>1, <1>2, <1>3
    <2>2. k = 0 => SubSeq(d, 1, k) = <<>>
      BY <1>3, EmptySeq
    <2> QED
      BY <1>3, <2>1, <2>2 DEF Trimmed
  <1> QED
    BY <1>1, <1>2, <1>3, <1>4, <1>5

\* A number that is not much smaller than its limbs allow has at most one zero
\* at the top.
LEMMA WithoutZeroKeeps ==
  ASSUME NEW d \in Seq(Limb), d # <<>>, Len(d) = 1 \/ NatOf(d) >= Pow(B, Len(d) - 2)
  PROVE  /\ WithoutZero(d) \in Seq(Limb) /\ NatOf(WithoutZero(d)) = NatOf(d)
         /\ Trimmed(WithoutZero(d))
  <1> DEFINE n == Len(d)
             k == n - Bit(d[n] = 0)
             e == SubSeq(d, 1, k)
  <1>1. n \in Nat \ {0} /\ n - 1 \in Nat /\ d[n] \in Limb /\ (d[n] # 0 <=> NatOf(d) >= Pow(B, n - 1))
    BY TopLimb
  <1>2. WithoutZero(d) = e
    BY DEF WithoutZero
  <1>3. /\ k \in 0 .. n /\ ZeroAbove(d, k)
        /\ d[n] # 0 => k = n
        /\ d[n] = 0 => k = n - 1
    BY <1>1 DEF Bit, ZeroAbove
  <1> HIDE DEF k
  <1>4. e \in Seq(Limb) /\ Len(e) = k /\ NatOf(e) = NatOf(d) /\ \A i \in 1 .. k : e[i] = d[i]
    BY <1>3, ZerosDropped
  <1> HIDE DEF e
  <1>5. Trimmed(e)
    <2>1. CASE d[n] # 0
      BY <1>1, <1>3, <1>4, <2>1 DEF Trimmed
    <2>2. CASE d[n] = 0 /\ n = 1
      <3>1. e = <<>>
        BY <1>3, <1>4, <2>2, EmptySeq
      <3> QED
        BY <3>1 DEF Trimmed
    <2>3. CASE d[n] = 0 /\ n # 1
      <3>1. k = n - 1 /\ k \in Nat \ {0} /\ k - 1 = n - 2
        BY <1>1, <1>3, <2>3
      <3>2. e # <<>>
        BY <1>4, <3>1, EmptySeq
      <3>3. e[Len(e)] # 0 <=> NatOf(e) >= Pow(B, Len(e) - 1)
        BY <1>4, <3>2, TopLimb
      <3>4. NatOf(d) >= Pow(B, n - 2)
        BY <2>3
      <3> QED
        BY <1>4, <3>1, <3>3, <3>4 DEF Trimmed
    <2> QED
      BY <2>1, <2>2, <2>3
  <1> QED
    BY <1>2, <1>4, <1>5

----------------------------------------------------------------------------
(* Signed numbers: what an mpz_t stands for.                               *)

LEMMA NumberOf ==
  ASSUME NEW d \in Seq(Limb), Trimmed(d), NEW neg \in BOOLEAN
  PROVE  /\ IsMpz(Mpz(neg, d)) /\ Mpz(neg, d).d = d
         /\ IntOf(Mpz(neg, d)) = IF neg THEN -NatOf(d) ELSE NatOf(d)
         /\ Mpz(neg, d).size = IF neg THEN -Len(d) ELSE Len(d)
  <1>1. /\ Mpz(neg, d).d = d /\ Mpz(neg, d).size = IF neg THEN -Len(d) ELSE Len(d)
    BY DEF Mpz
  <1>2. IsMpz(Mpz(neg, d))
    BY <1>1 DEF IsMpz, Trimmed
  <1>3. Len(d) \in Nat /\ NatOf(d) \in Nat /\ (Len(d) = 0 => NatOf(d) = 0)
    <2>1. Len(d) = 0 => d = <<>>
      BY EmptySeq
    <2> QED
      BY <2>1, NatOfIs, NatOfShort
  <1> QED
    BY <1>1, <1>2, <1>3 DEF IntOf

LEMMA PartsOf ==
  ASSUME NEW z, IsMpz(z)
  PROVE  /\ z.d \in Seq(Limb) /\ Trimmed(z.d) /\ z.size \in Int /\ Len(z.d) \in Nat
         /\ NatOf(z.d) \in Nat /\ IntOf(z) \in Int /\ Abs(z.size) = Len(z.d)
         /\ z.size < 0 => IntOf(z) = -NatOf(z.d) /\ z.size = -Len(z.d)
         /\ z.size >= 0 => IntOf(z) = NatOf(z.d) /\ z.size = Len(z.d)
         /\ z.size = 0 <=> z.d = <<>>
         /\ NatOf(z.d) = 0 <=> z.d = <<>>
         /\ z.size < 0 <=> IntOf(z) < 0
         /\ z.size = 0 <=> IntOf(z) = 0
  <1>1. z.d \in Seq(Limb) /\ z.size \in {Len(z.d), -Len(z.d)} /\ Trimmed(z.d)
    BY DEF IsMpz, Trimmed
  <1>2. Len(z.d) \in Nat /\ NatOf(z.d) \in Nat /\ (Len(z.d) = 0 <=> z.d = <<>>)
    BY <1>1, NatOfIs, EmptySeq
  <1>3. NatOf(z.d) = 0 <=> z.d = <<>>
    <2>1. ASSUME z.d # <<>> PROVE NatOf(z.d) # 0
      <3>1. /\ Len(z.d) - 1 \in Nat
            /\ (z.d[Len(z.d)] # 0 <=> NatOf(z.d) >= Pow(B, Len(z.d) - 1))
        BY <1>1, <2>1, TopLimb
      <3>2. Pow(B, Len(z.d) - 1) \in Nat \ {0}
        BY <3>1, LimbsAre, PowPositive
      <3>3. NatOf(z.d) >= Pow(B, Len(z.d) - 1)
        BY <1>1, <2>1, <3>1 DEF Trimmed
      <3> QED
        BY <1>2, <3>2, <3>3
    <2> QED
      BY <2>1, NatOfShort
  <1> DEFINE n == Len(z.d)
             v == NatOf(z.d)
             sz == z.size
  <1>4. IntOf(z) = IF sz < 0 THEN -v ELSE v
    BY DEF IntOf
  <1>5. n \in Nat /\ v \in Nat /\ sz \in {n, -n} /\ (n = 0 <=> v = 0) /\ (n = 0 <=> z.d = <<>>)
    BY <1>1, <1>2, <1>3
  <1> HIDE DEF n, v, sz
  <1>6. /\ sz \in Int /\ Abs(sz) = n /\ (sz < 0 => sz = -n) /\ (sz >= 0 => sz = n) /\ (sz = 0 <=> n = 0)
    BY <1>5 DEF Abs
  <1>7. /\ IntOf(z) \in Int /\ (sz < 0 => IntOf(z) = -v) /\ (sz >= 0 => IntOf(z) = v)
        /\ (sz < 0 <=> IntOf(z) < 0) /\ (sz = 0 <=> IntOf(z) = 0)
    BY <1>4, <1>5, <1>6
  <1> QED
    BY <1>1, <1>2, <1>3, <1>5, <1>6, <1>7 DEF n, v, sz

\* Magnitudes in the order of their lengths,
LEMMA LongerIsGreater ==
  ASSUME NEW d \in Seq(Limb), NEW e \in Seq(Limb), Trimmed(e), Len(d) < Len(e)
  PROVE  NatOf(d) < NatOf(e)
  <1>1. Len(d) \in Nat /\ NatOf(d) \in Nat /\ NatOf(d) < Pow(B, Len(d)) /\ Pow(B, Len(d)) \in Nat
        /\ NatOf(e) \in Nat
    BY NatOfIs
  <1>2. e # <<>>
    BY <1>1, EmptySeq
  <1>3. Len(e) - 1 \in Nat /\ (e[Len(e)] # 0 <=> NatOf(e) >= Pow(B, Len(e) - 1))
    BY <1>2, TopLimb
  <1>4. NatOf(e) >= Pow(B, Len(e) - 1)
    BY <1>2, <1>3 DEF Trimmed
  <1> DEFINE m == Len(e) - 1
             n == Len(d)
  <1>5. n \in Nat /\ m \in Nat /\ n <= m
    BY <1>1, <1>3
  <1> HIDE DEF m, n
  <1>6. Pow(B, n) <= Pow(B, m) /\ Pow(B, m) \in Int
    <2>1. B \in Nat \ {0}
      BY LimbsAre
    <2>2. Pow(B, m) \in Nat \ {0}
      BY <1>5, <2>1, PowPositive
    <2>3. Pow(B, n) <= Pow(B, m)
      BY ONLY <1>5, <2>1, PowGrows
    <2> QED
      BY <2>2, <2>3
  <1> QED
    BY <1>1, <1>4, <1>6 DEF m, n

\* and of equal length in the order of the highest limb that differs.
LEMMA HighestDiffers ==
  ASSUME NEW n \in Nat, NEW a \in Seq(Limb), NEW b \in Seq(Limb), Len(a) = n, Len(b) = n,
         NEW k \in 1 .. n, a[k] < b[k], \A i \in 1 .. n : i > k => a[i] = b[i]
  PROVE  NatOf(a) < NatOf(b)
  <1> DEFINE alo == SubSeq(a, 1, k)
             blo == SubSeq(b, 1, k)
             ahi == SubSeq(a, k + 1, Len(a))
             bhi == SubSeq(b, k + 1, Len(b))
  <1>1. k \in 0 .. Len(a) /\ k \in 0 .. Len(b) /\ k \in 1 .. k /\ k \in Nat /\ k # 0 /\ k - 1 \in Nat
    OBVIOUS
  <1>2. /\ alo \in Seq(Limb) /\ Len(alo) = k /\ \A i \in 1 .. k : alo[i] = a[i]
        /\ ahi \in Seq(Limb) /\ Len(ahi) = Len(a) - k /\ \A i \in 1 .. Len(a) - k : ahi[i] = a[k + i]
        /\ NatOf(a) = NatOf(alo) + Pow(B, k) * NatOf(ahi)
    BY <1>1, NatOfPieces
  <1>3. /\ blo \in Seq(Limb) /\ Len(blo) = k /\ \A i \in 1 .. k : blo[i] = b[i]
        /\ bhi \in Seq(Limb) /\ Len(bhi) = Len(b) - k /\ \A i \in 1 .. Len(b) - k : bhi[i] = b[k + i]
        /\ NatOf(b) = NatOf(blo) + Pow(B, k) * NatOf(bhi)
    BY <1>1, NatOfPieces
  <1> HIDE DEF alo, blo, ahi, bhi
  <1>4. NatOf(ahi) = NatOf(bhi)
    <2>1. \A i \in 1 .. n - k : k + i \in 1 .. n /\ k + i > k
      BY <1>1
    <2>2. \A i \in 1 .. n - k : ahi[i] = bhi[i]
      BY <1>2, <1>3, <2>1
    <2>3. Number(B, ahi, n - k) = NatOf(bhi)
      BY <1>2, <1>3, <2>2, NatOfSame
    <2> QED
      BY <1>2, <2>3 DEF NatOf
  <1>5. alo # <<>> /\ blo # <<>>
    BY <1>1, <1>2, <1>3, EmptySeq
  <1> DEFINE p == Pow(B, k - 1)
             ar == NatOf(SubSeq(alo, 1, k - 1))
             br == NatOf(SubSeq(blo, 1, k - 1))
  <1>6. /\ NatOf(alo) = ar + p * a[k] /\ NatOf(blo) = br + p * b[k]
        /\ ar \in Nat /\ br \in Nat /\ ar < p
    <2>1. /\ SubSeq(alo, 1, k - 1) \in Seq(Limb) /\ Len(SubSeq(alo, 1, k - 1)) = k - 1
          /\ NatOf(alo) = NatOf(SubSeq(alo, 1, k - 1)) + Pow(B, k - 1) * alo[k]
      BY <1>2, <1>5, TopLimb
    <2>2. /\ SubSeq(blo, 1, k - 1) \in Seq(Limb) /\ Len(SubSeq(blo, 1, k - 1)) = k - 1
          /\ NatOf(blo) = NatOf(SubSeq(blo, 1, k - 1)) + Pow(B, k - 1) * blo[k]
      BY <1>3, <1>5, TopLimb
    <2>3. alo[k] = a[k] /\ blo[k] = b[k]
      BY <1>1, <1>2, <1>3
    <2>4. ar \in Nat /\ ar < p /\ br \in Nat
      BY <2>1, <2>2, NatOfIs
    <2> QED
      BY <2>1, <2>2, <2>3, <2>4
  <1>7. p \in Nat \ {0} /\ a[k] \in Nat /\ b[k] \in Nat
    <2>1. a[k] \in Limb /\ b[k] \in Limb
      OBVIOUS
    <2> QED
      BY <1>1, <2>1, LimbsAre, PowPositive, LimbIs
  <1>8. Pow(B, k) * NatOf(bhi) \in Int
    <2>1. Pow(B, k) \in Nat /\ NatOf(bhi) \in Nat
      BY <1>1, <1>3, NatOfIs, LimbsAre, PowPositive
    <2> QED
      BY <2>1
  <1> DEFINE s == a[k]
             t == b[k]
  <1>9. s < t
    OBVIOUS
  <1> HIDE DEF p, ar, br, s, t
  <1>10. ar + p * s < br + p * t /\ p * s \in Int /\ p * t \in Int
    <2>1. s + 1 <= t /\ s \in Nat /\ t \in Nat
      BY <1>7, <1>9 DEF s, t
    <2>2. p * (s + 1) <= p * t /\ p * (s + 1) = p * s + p /\ p * s \in Int /\ p * t \in Int
      BY <1>7, <2>1
    <2>3. ar \in Int /\ br \in Nat /\ p \in Int /\ ar < p
      BY <1>6, <1>7
    <2> QED
      BY ONLY <2>2, <2>3
  <1>11. NatOf(alo) = ar + p * s /\ NatOf(blo) = br + p * t
    BY <1>6 DEF s, t
  <1> QED
    BY <1>2, <1>3, <1>4, <1>6, <1>8, <1>10, <1>11

\* c tells the order of the numbers p and q.
Compares(c, p, q) == (p < q => c = -1) /\ (p = q => c = 0) /\ (p > q => c = 1)

LEMMA CmpCompares ==
  ASSUME NEW ap \in Seq(Limb), NEW bp \in Seq(Limb), Len(ap) = Len(bp)
  PROVE  Compares(mpn_cmp(ap, bp), NatOf(ap), NatOf(bp))
  <1> DEFINE n == Len(ap)
             differ == {i \in 1 .. n : ap[i] # bp[i]}
  <1>1. n \in Nat /\ NatOf(ap) \in Nat /\ NatOf(bp) \in Nat
    BY NatOfIs
  <1>2. CASE differ = {}
    <2>1. mpn_cmp(ap, bp) = 0
      BY <1>2 DEF mpn_cmp
    <2>2. \A i \in 1 .. n : ap[i] = bp[i]
      BY <1>2
    <2>3. Number(B, ap, n) = NatOf(bp)
      BY <2>2, NatOfSame
    <2>4. NatOf(ap) = NatOf(bp)
      BY <2>3 DEF NatOf
    <2> QED
      BY <1>1, <2>1, <2>4 DEF Compares
  <1>3. CASE differ # {}
    <2> DEFINE top == CHOOSE i \in differ : \A j \in differ : j <= i
    <2>1. \E i \in differ : \A j \in differ : j <= i
      <3>1. differ \subseteq Nat /\ \A m \in differ : m <= n
        BY <1>1
      <3> HIDE DEF differ
      <3> QED
        BY <1>1, <1>3, <3>1, GreatestNumber
    <2>2. top \in differ /\ \A j \in differ : j <= top
      <3> HIDE DEF differ
      <3> QED
        BY <2>1
    <2>3. mpn_cmp(ap, bp) = IF ap[top] > bp[top] THEN 1 ELSE -1
      BY <1>3 DEF mpn_cmp
    <2> HIDE DEF top
    <2>4. top \in 1 .. n /\ ap[top] # bp[top] /\ \A i \in 1 .. n : i > top => ap[i] = bp[i]
      BY <1>1, <2>2
    <2>5. ap[top] \in Nat /\ bp[top] \in Nat
      <3>1. ap[top] \in Limb /\ bp[top] \in Limb
        BY <2>4
      <3> QED
        BY <3>1, LimbIs
    <2>6. CASE ap[top] < bp[top]
      <3>1. NatOf(ap) < NatOf(bp)
        BY <1>1, <2>4, <2>6, HighestDiffers
      <3> QED
        BY <1>1, <2>3, <2>5, <2>6, <3>1 DEF Compares
    <2>7. CASE bp[top] < ap[top]
      <3>1. NatOf(bp) < NatOf(ap)
        BY <1>1, <2>4, <2>7, HighestDiffers
      <3> QED
        BY <1>1, <2>3, <2>5, <2>7, <3>1 DEF Compares
    <2> QED
      BY <2>4, <2>5, <2>6, <2>7
  <1> QED
    BY <1>2, <1>3

LEMMA Cmp4Compares ==
  ASSUME NEW ap \in Seq(Limb), NEW bp \in Seq(Limb), Trimmed(ap), Trimmed(bp)
  PROVE  Compares(mpn_cmp4(ap, bp), NatOf(ap), NatOf(bp))
  <1>1. Len(ap) \in Nat /\ Len(bp) \in Nat /\ NatOf(ap) \in Nat /\ NatOf(bp) \in Nat
    BY NatOfIs
  <1>2. CASE Len(ap) = Len(bp)
    BY <1>2, CmpCompares DEF mpn_cmp4
  <1>3. CASE Len(ap) < Len(bp)
    <2>1. NatOf(ap) < NatOf(bp)
      BY <1>3, LongerIsGreater
    <2> QED
      BY <1>1, <1>3, <2>1 DEF mpn_cmp4, Compares
  <1>4. CASE Len(bp) < Len(ap)
    <2>1. NatOf(bp) < NatOf(ap)
      BY <1>4, LongerIsGreater
    <2> QED
      BY <1>1, <1>4, <2>1 DEF mpn_cmp4, Compares
  <1> QED
    BY <1>1, <1>2, <1>3, <1>4

\* A limb has the value it is set to, and is cut to the length of a limb.
LEMMA SetLimb ==
  ASSUME NEW n \in Limb, NEW neg \in BOOLEAN, n # 0
  PROVE  IsMpz(Mpz(neg, <<n>>)) /\ IntOf(Mpz(neg, <<n>>)) = (IF neg THEN -n ELSE n)
         /\ Mpz(neg, <<n>>).d = <<n>>
  <1>1. <<n>> \in Seq(Limb) /\ Trimmed(<<n>>) /\ NatOf(<<n>>) = n
    BY NatOfShort DEF Trimmed
  <1> QED
    BY <1>1, NumberOf

LEMMA ZeroIsNumber ==
  IsMpz(mpz_init) /\ IntOf(mpz_init) = 0 /\ mpz_init.size = 0 /\ mpz_init.d = <<>>
  <1>1. <<>> \in Seq(Limb) /\ Trimmed(<<>>) /\ NatOf(<<>>) = 0 /\ Len(<<>>) = 0
    BY NatOfShort DEF Trimmed
  <1> QED
    BY <1>1, NumberOf DEF mpz_init

LEMMA SetUnsigned ==
  ASSUME NEW n \in Limb
  PROVE  IsMpz(mpz_set_ui(n)) /\ IntOf(mpz_set_ui(n)) = n /\ (n # 0 => mpz_set_ui(n).d = <<n>>)
  <1>1. n \in Nat
    BY LimbIs
  <1>2. CASE n = 0
    BY <1>2, ZeroIsNumber DEF mpz_set_ui
  <1>3. CASE n > 0
    <2>1. mpz_set_ui(n) = Mpz(FALSE, <<n>>)
      BY <1>3 DEF mpz_set_ui
    <2>2. n # 0 /\ FALSE \in BOOLEAN
      BY <1>3
    <2>3. IsMpz(Mpz(FALSE, <<n>>)) /\ IntOf(Mpz(FALSE, <<n>>)) = n /\ Mpz(FALSE, <<n>>).d = <<n>>
      BY <2>2, SetLimb
    <2> QED
      BY <2>1, <2>3
  <1> QED
    BY <1>1, <1>2, <1>3

\* The integers of a machine word.
MachineInt == -HighBit .. HighBit - 1

LEMMA SetSigned ==
  ASSUME NEW n \in MachineInt
  PROVE  IsMpz(mpz_set_si(n)) /\ IntOf(mpz_set_si(n)) = n
  <1>0. /\ HighBit \in Nat \ {0} /\ B = 2 * HighBit /\ B \in Nat \ {0} /\ Limb = 0 .. B - 1
        /\ \A k \in Int : Wrap(k) = k % B
    BY LimbsAre
  <1>1. n \in Int /\ n >= -HighBit /\ n < HighBit
    BY <1>0 DEF MachineInt
  <1>2. CASE n >= 0
    <2>1. n \in Limb
      BY <1>0, <1>1, <1>2
    <2> QED
      BY <1>2, <2>1, SetUnsigned DEF mpz_set_si
  <1>3. CASE n < 0
    <2> DEFINE k == -n
    <2>1. k \in 0 .. B - 1 /\ k # 0 /\ k \in Int /\ n = -k /\ ~(n >= 0)
      BY <1>0, <1>1, <1>3
    <2>2. mpz_set_si(n) = Mpz(TRUE, <<Wrap(k)>>)
      BY <2>1 DEF mpz_set_si
    <2> HIDE DEF k
    <2>3. Wrap(k) = k
      <3>1. k % B = k
        BY <1>0, <2>1, ModSmall
      <3> QED
        BY <1>0, <2>1, <3>1
    <2>4. IsMpz(Mpz(TRUE, <<k>>)) /\ IntOf(Mpz(TRUE, <<k>>)) = -k
      <3>1. k \in Limb /\ TRUE \in BOOLEAN
        BY <1>0, <2>1
      <3> QED
        BY <2>1, <3>1, SetLimb
    <2> QED
      BY <2>1, <2>2, <2>3, <2>4
  <1> QED
    BY <1>1, <1>2, <1>3

LEMMA FixnumIs ==
  /\ HighBit \div 2 \in Nat \ {0} /\ HighBit = 2 * (HighBit \div 2) /\ B = 4 * (HighBit \div 2)
  /\ Fixnum = -(HighBit \div 2) .. HighBit \div 2 - 1
  /\ Fixnum \subseteq MachineInt /\ Fixnum \subseteq Int
  /\ HighBit \div 2 = Pow(2, LimbBits - 2) /\ LimbBits - 2 \in Nat
  <1>1. LimbBits >= 2 /\ LimbBits - 2 \in Nat
    BY SizesAssumption DEF LimbBits
  <1>2. B = Pow(2, LimbBits) /\ B = 2 * HighBit /\ HighBit \in Nat \ {0}
    BY LimbsAre
  <1> DEFINE q == Pow(2, LimbBits - 2)
             k == LimbBits - 2
  <1>3. q \in Nat \ {0} /\ B = 4 * q
    <2>1. k \in Nat /\ k + 1 \in Nat /\ (k + 1) + 1 = LimbBits
      BY <1>1, LimbsAre
    <2> HIDE DEF k
    <2>2. Pow(2, k) \in Nat \ {0} /\ Pow(2, k + 1) = 2 * Pow(2, k) /\ Pow(2, (k + 1) + 1) = 2 * Pow(2, k + 1)
      BY <2>1, TwoPow
    <2> QED
      BY <1>2, <2>1, <2>2 DEF k
  <1> HIDE DEF q
  <1>4. HighBit = 2 * q /\ HighBit \div 2 = q
    BY <1>2, <1>3
  <1> QED
    BY <1>1, <1>2, <1>3, <1>4 DEF Fixnum, MachineInt, q

\* A fixnum that goes into one comes out of it.
LEMMA FixIsFixnum ==
  ASSUME NEW n \in Int
  PROVE  /\ Fix(n).big = FALSE /\ Fix(n).n \in Fixnum
         /\ n \in Fixnum => Fix(n).n = n
  <1> DEFINE m == n % HighBit
             h == HighBit \div 2
  <1>1. HighBit \in Nat \ {0} /\ h \in Nat \ {0} /\ HighBit = 2 * h /\ Fixnum = -h .. h - 1
    BY LimbsAre, FixnumIs
  <1>2. m \in 0 .. HighBit - 1 /\ n = HighBit * (n \div HighBit) + m /\ n \div HighBit \in Int
    BY <1>1, DivMod
  <1>3. Fix(n) = [big |-> FALSE, n |-> IF 2 * m >= HighBit THEN m - HighBit ELSE m]
    BY DEF Fix
  <1> HIDE DEF m, h
  <1>4. Fix(n).big = FALSE /\ Fix(n).n \in Fixnum
    BY <1>1, <1>2, <1>3
  <1>5. ASSUME n \in Fixnum PROVE Fix(n).n = n
    <2>1. CASE n >= 0
      <3>1. n \in 0 .. HighBit - 1
        BY <1>1, <1>5, <2>1
      <3>2. m = n
        BY <1>1, <3>1, ModSmall DEF m
      <3> QED
        BY <1>1, <1>3, <1>5, <3>2
    <2>2. CASE n < 0
      <3>1. n + HighBit \in 0 .. HighBit - 1 /\ n = HighBit * (-1) + (n + HighBit)
        BY <1>1, <1>5, <2>2
      <3>2. m = n + HighBit
        <4> DEFINE r == n + HighBit
        <4>1. r \in 0 .. HighBit - 1 /\ -1 \in Int
          BY <3>1
        <4> HIDE DEF r
        <4>2. (HighBit * (-1) + r) % HighBit = r
          BY <1>1, <4>1, DivModUnique
        <4> QED
          BY <3>1, <4>2 DEF r, m
      <3> QED
        BY <1>1, <1>3, <1>5, <2>2, <3>2
    <2> QED
      BY <2>1, <2>2
  <1> QED
    BY <1>4, <1>5

\* A value and the big integer that is made of it are the same number.
LEMMA ValueIs ==
  ASSUME NEW v, IsValue(v)
  PROVE  /\ Value(v) \in Int /\ IsMpz(getbig(v)) /\ IntOf(getbig(v)) = Value(v)
         /\ ~v.big => v.n = Value(v) /\ v.n \in Fixnum
         /\ v.big => IsMpz(v.z) /\ getbig(v) = v.z /\ IntOf(v.z) = Value(v)
  <1>1. CASE v.big
    <2>1. IsMpz(v.z) /\ Value(v) = IntOf(v.z) /\ getbig(v) = v.z
      BY <1>1 DEF IsValue, Value, getbig
    <2> QED
      BY <1>1, <2>1, PartsOf
  <1>2. CASE ~v.big
    <2>1. v.n \in Fixnum /\ Value(v) = v.n /\ getbig(v) = mpz_set_si(v.n)
      BY <1>2 DEF IsValue, Value, getbig
    <2>2. v.n \in MachineInt /\ v.n \in Int
      BY <2>1, FixnumIs
    <2> QED
      BY <1>2, <2>1, <2>2, SetSigned
  <1> QED
    BY <1>1, <1>2 DEF IsValue

----------------------------------------------------------------------------
(* Sums of signed numbers: mpz_add and mpz_sub.                            *)

\* z is the number v.
Is(z, v) == IsMpz(z) /\ IntOf(z) = v

LEMMA TrimmedIs ==
  ASSUME NEW d \in Seq(Limb), d # <<>> => NatOf(d) >= Pow(B, Len(d) - 1)
  PROVE  Trimmed(d)
  <1>1. ASSUME d # <<>> PROVE d[Len(d)] # 0
    BY <1>1, TopLimb
  <1> QED
    BY <1>1 DEF Trimmed

LEMMA TrimmedHas ==
  ASSUME NEW d \in Seq(Limb), Trimmed(d), d # <<>>
  PROVE  NatOf(d) >= Pow(B, Len(d) - 1) /\ Len(d) - 1 \in Nat /\ NatOf(d) \in Nat \ {0}
  <1>1. Len(d) - 1 \in Nat /\ NatOf(d) >= Pow(B, Len(d) - 1)
    BY TopLimb DEF Trimmed
  <1>2. Pow(B, Len(d) - 1) \in Nat \ {0} /\ NatOf(d) \in Nat
    BY <1>1, NatOfIs, LimbsAre, PowPositive
  <1> QED
    BY <1>1, <1>2

LEMMA NaturalIs ==
  ASSUME NEW d \in Seq(Limb), Trimmed(d)
  PROVE  Is(Mpz(FALSE, d), NatOf(d)) /\ Is(Mpz(TRUE, d), -NatOf(d))
  BY NumberOf DEF Is

\* The limbs of a sum, with the carry where there is one.
Summed(t) == Mpz(FALSE, IF t.cy > 0 THEN Append(t.r, t.cy) ELSE t.r)

LEMMA WithCarry ==
  ASSUME NEW t, NEW n \in Nat, NEW v \in Nat, Sum(t, n, v), t.cy \in Limb,
         n # 0 => v >= Pow(B, n - 1)
  PROVE  Is(Summed(t), v)
  <1> DEFINE r == t.r
             cy == t.cy
  <1>1. r \in Seq(Limb) /\ Len(r) = n /\ NatOf(r) + Pow(B, n) * cy = v /\ cy \in Limb /\ cy \in Nat
        /\ NatOf(r) \in Nat /\ Pow(B, n) \in Nat
    <2>1. cy \in Limb /\ r \in Seq(Limb) /\ Len(r) = n /\ NatOf(r) + Pow(B, n) * cy = v
      BY DEF Sum
    <2> HIDE DEF r, cy
    <2>2. cy \in Nat /\ NatOf(r) \in Nat /\ Pow(B, n) \in Nat
      BY <2>1, LimbIs, NatOfIs, LimbsAre, PowPositive
    <2> QED
      BY <2>1, <2>2
  <1> HIDE DEF r, cy
  <1>2. CASE cy > 0
    <2>1. /\ Append(r, cy) \in Seq(Limb) /\ Len(Append(r, cy)) = n + 1
          /\ Append(r, cy)[Len(Append(r, cy))] = cy
          /\ NatOf(Append(r, cy)) = NatOf(r) + Pow(B, n) * cy
      <3>1. /\ Append(r, cy) \in Seq(Limb) /\ Len(Append(r, cy)) = Len(r) + 1
            /\ Append(r, cy)[Len(Append(r, cy))] = cy
            /\ NatOf(Append(r, cy)) = NatOf(r) + Pow(B, Len(r)) * cy
        BY <1>1, NatOfAppend
      <3> QED
        BY <1>1, <3>1
    <2> DEFINE e == Append(r, cy)
    <2>2. e \in Seq(Limb) /\ Trimmed(e) /\ NatOf(e) = v
      BY <1>1, <1>2, <2>1 DEF Trimmed
    <2> HIDE DEF e
    <2>3. Is(Mpz(FALSE, e), v)
      BY <2>2, NaturalIs
    <2> QED
      BY <1>2, <2>3 DEF e, r, cy, Summed
  <1>3. CASE cy = 0
    <2>1. NatOf(r) = v
      BY <1>1, <1>3
    <2>2. r # <<>> => NatOf(r) >= Pow(B, Len(r) - 1)
      BY <1>1, <2>1, EmptySeq
    <2>3. Trimmed(r)
      BY <1>1, <2>2, TrimmedIs
    <2>4. Is(Mpz(FALSE, r), v)
      BY <1>1, <2>1, <2>3, NaturalIs
    <2>5. ~(cy > 0)
      BY <1>3
    <2> QED
      BY <2>4, <2>5 DEF r, cy, Summed
  <1>4. cy > 0 \/ cy = 0
    BY <1>1
  <1> QED
    BY <1>2, <1>3, <1>4

LEMMA AbsAddIs ==
  ASSUME NEW a, NEW b, IsMpz(a), IsMpz(b)
  PROVE  Is(mpz_abs_add(a, b), NatOf(a.d) + NatOf(b.d))
  <1>1. a.d \in Seq(Limb) /\ Trimmed(a.d) /\ NatOf(a.d) \in Nat /\ Len(a.d) \in Nat
    BY PartsOf
  <1>2. b.d \in Seq(Limb) /\ Trimmed(b.d) /\ NatOf(b.d) \in Nat /\ Len(b.d) \in Nat
    BY PartsOf
  <1>3. ASSUME NEW d \in Seq(Limb), NEW e \in Seq(Limb), Trimmed(d), Len(e) <= Len(d)
        PROVE  Is(Summed(mpn_add(d, e)), NatOf(d) + NatOf(e))
    <2> DEFINE n == Len(d)
               v == NatOf(d) + NatOf(e)
    <2>1. Sum(mpn_add(d, e), n, v) /\ mpn_add(d, e).cy \in Limb
      BY <1>3, AddSum
    <2>2. n \in Nat /\ v \in Nat /\ NatOf(d) \in Nat /\ NatOf(e) \in Nat
      BY NatOfIs
    <2>3. n # 0 => v >= Pow(B, n - 1)
      <3>1. ASSUME n # 0 PROVE v >= Pow(B, n - 1)
        <4>1. d # <<>>
          BY <3>1, EmptySeq
        <4>2. NatOf(d) >= Pow(B, n - 1) /\ n - 1 \in Nat
          BY <1>3, <4>1, TrimmedHas
        <4>3. Pow(B, n - 1) \in Nat
          BY <4>2, LimbsAre, PowPositive
        <4> QED
          BY <2>2, <4>2, <4>3
      <3> QED
        BY <3>1
    <2> HIDE DEF n, v
    <2>4. Is(Summed(mpn_add(d, e)), v)
      BY <2>1, <2>2, <2>3, WithCarry
    <2> QED
      BY <2>4 DEF v
  <1>4. CASE Len(a.d) < Len(b.d)
    <2>1. Is(Summed(mpn_add(b.d, a.d)), NatOf(b.d) + NatOf(a.d))
      BY <1>1, <1>2, <1>3, <1>4
    <2>2. mpz_abs_add(a, b) = Summed(mpn_add(b.d, a.d))
      BY <1>4 DEF mpz_abs_add, Summed
    <2>3. NatOf(b.d) + NatOf(a.d) = NatOf(a.d) + NatOf(b.d)
      BY <1>1, <1>2
    <2> QED
      BY <2>1, <2>2, <2>3
  <1>5. CASE ~(Len(a.d) < Len(b.d))
    <2>1. Is(Summed(mpn_add(a.d, b.d)), NatOf(a.d) + NatOf(b.d))
      BY <1>1, <1>2, <1>3, <1>5
    <2>2. mpz_abs_add(a, b) = Summed(mpn_add(a.d, b.d))
      BY <1>5 DEF mpz_abs_add, Summed
    <2> QED
      BY <2>1, <2>2
  <1> QED
    BY <1>4, <1>5

LEMMA NegIs ==
  ASSUME NEW z, NEW v \in Int, Is(z, v), z = [size |-> z.size, d |-> z.d]
  PROVE  Is(mpz_neg(z), -v)
  <1>1. /\ z.d \in Seq(Limb) /\ Trimmed(z.d) /\ z.size \in Int /\ Len(z.d) \in Nat /\ NatOf(z.d) \in Nat
        /\ (z.size < 0 => IntOf(z) = -NatOf(z.d) /\ z.size = -Len(z.d))
        /\ (z.size >= 0 => IntOf(z) = NatOf(z.d) /\ z.size = Len(z.d))
        /\ (z.size = 0 <=> IntOf(z) = 0)
    BY PartsOf DEF Is
  <1> DEFINE u == mpz_neg(z)
  <1>2. u.d = z.d /\ u.size = -z.size
    BY <1>1 DEF mpz_neg
  <1> HIDE DEF u
  <1> DEFINE s == z.size
             n == Len(z.d)
             w == NatOf(z.d)
             i == IntOf(z)
  <1>3. IsMpz(u)
    <2>1. s \in Int /\ n \in Nat /\ (s < 0 => s = -n) /\ (s >= 0 => s = n)
      BY <1>1
    <2>2. u.size = -s /\ Len(u.d) = n
      BY <1>2
    <2> HIDE DEF s, n
    <2>3. -s \in {n, -n}
      BY <2>1
    <2> QED
      BY <1>1, <1>2, <2>2, <2>3 DEF IsMpz, Trimmed
  <1>4. IntOf(u) = -v
    <2>1. IntOf(u) = IF -s < 0 THEN -w ELSE w
      BY <1>2 DEF IntOf
    <2>2. s \in Int /\ w \in Nat /\ i = v /\ (s < 0 => i = -w) /\ (s >= 0 => i = w) /\ (s = 0 <=> i = 0)
      BY <1>1 DEF Is
    <2> HIDE DEF s, w, i
    <2> QED
      BY <2>1, <2>2
  <1> QED
    BY <1>3, <1>4 DEF Is, u

LEMMA MpzIsRecord ==
  ASSUME NEW neg, NEW d
  PROVE  Mpz(neg, d) = [size |-> Mpz(neg, d).size, d |-> Mpz(neg, d).d]
  BY DEF Mpz

LEMMA DifferenceIs ==
  ASSUME NEW d \in Seq(Limb), NEW e \in Seq(Limb), Trimmed(d), Trimmed(e), NatOf(e) < NatOf(d)
  PROVE  /\ Is(Mpz(FALSE, Normalized(mpn_sub(d, e).r)), NatOf(d) - NatOf(e))
         /\ Is(Mpz(TRUE, Normalized(mpn_sub(d, e).r)), NatOf(e) - NatOf(d))
  <1> DEFINE n == Len(d)
             v == NatOf(d) - NatOf(e)
             t == mpn_sub(d, e)
  <1>1. NatOf(d) \in Nat /\ NatOf(e) \in Nat /\ NatOf(d) < Pow(B, n) /\ n \in Nat /\ Pow(B, n) \in Nat
        /\ Len(e) \in Nat
    BY NatOfIs
  <1>2. Len(e) <= Len(d)
    <2>1. ~(Len(d) < Len(e))
      <3>1. Len(d) < Len(e) => NatOf(d) < NatOf(e)
        BY LongerIsGreater
      <3> QED
        BY <1>1, <3>1
    <2> QED
      BY <1>1, <2>1
  <1>3. Difference(t, n, v) /\ t.cy \in Limb
    BY <1>2, SubDifference
  <1>4. v \in Nat /\ v < Pow(B, n)
    BY <1>1
  <1> HIDE DEF v, n, t
  <1>5. t.r \in Seq(Limb) /\ NatOf(t.r) = v
    BY <1>1, <1>3, <1>4, NoBorrow
  <1> DEFINE r == Normalized(t.r)
  <1>6. r \in Seq(Limb) /\ NatOf(r) = v /\ Trimmed(r)
    BY <1>5, NormalizedKeeps
  <1> HIDE DEF r
  <1>7. Is(Mpz(FALSE, r), NatOf(r)) /\ Is(Mpz(TRUE, r), -NatOf(r))
    BY <1>6, NaturalIs
  <1>8. -v = NatOf(e) - NatOf(d)
    BY <1>1 DEF v
  <1> QED
    BY <1>6, <1>7, <1>8 DEF r, t, v

LEMMA AbsSubIs ==
  ASSUME NEW a, NEW b, IsMpz(a), IsMpz(b)
  PROVE  Is(mpz_abs_sub(a, b), NatOf(a.d) - NatOf(b.d))
  <1> DEFINE c == mpn_cmp4(a.d, b.d)
             p == NatOf(a.d)
             q == NatOf(b.d)
  <1>1. /\ a.d \in Seq(Limb) /\ Trimmed(a.d) /\ p \in Nat
        /\ b.d \in Seq(Limb) /\ Trimmed(b.d) /\ q \in Nat
    BY PartsOf
  <1>2. Compares(c, p, q)
    BY <1>1, Cmp4Compares
  <1>3. mpz_abs_sub(a, b) = CASE c > 0 -> Mpz(FALSE, Normalized(mpn_sub(a.d, b.d).r))
                              [] c < 0 -> Mpz(TRUE, Normalized(mpn_sub(b.d, a.d).r))
                              [] OTHER -> mpz_init
    BY DEF mpz_abs_sub
  <1>4. CASE p > q
    <2>1. c = 1
      BY <1>2, <1>4 DEF Compares
    <2>2. mpz_abs_sub(a, b) = Mpz(FALSE, Normalized(mpn_sub(a.d, b.d).r))
      BY <1>3, <2>1
    <2>3. q < p
      BY <1>1, <1>4
    <2> QED
      BY <1>1, <2>2, <2>3, DifferenceIs
  <1>5. CASE p < q
    <2>1. c = -1
      BY <1>2, <1>5 DEF Compares
    <2>2. mpz_abs_sub(a, b) = Mpz(TRUE, Normalized(mpn_sub(b.d, a.d).r))
      BY <1>3, <2>1
    <2> QED
      BY <1>1, <1>5, <2>2, DifferenceIs
  <1>6. CASE p = q
    <2>1. c = 0
      BY <1>2, <1>6 DEF Compares
    <2>2. mpz_abs_sub(a, b) = mpz_init
      BY <1>3, <2>1
    <2>3. p - q = 0
      BY <1>1, <1>6
    <2> QED
      BY <2>2, <2>3, ZeroIsNumber DEF Is
  <1> QED
    BY <1>1, <1>4, <1>5, <1>6

LEMMA SumsAreRecords ==
  ASSUME NEW a, NEW b, IsMpz(a), IsMpz(b)
  PROVE  /\ mpz_abs_add(a, b) = [size |-> mpz_abs_add(a, b).size, d |-> mpz_abs_add(a, b).d]
         /\ mpz_abs_sub(a, b) = [size |-> mpz_abs_sub(a, b).size, d |-> mpz_abs_sub(a, b).d]
  <1>1. \E neg, d : mpz_abs_add(a, b) = Mpz(neg, d)
    BY DEF mpz_abs_add
  <1>2. \E neg, d : mpz_abs_sub(a, b) = Mpz(neg, d)
    <2> DEFINE c == mpn_cmp4(a.d, b.d)
    <2>1. c \in {-1, 0, 1}
      <3>1. a.d \in Seq(Limb) /\ Trimmed(a.d) /\ b.d \in Seq(Limb) /\ Trimmed(b.d)
            /\ NatOf(a.d) \in Nat /\ NatOf(b.d) \in Nat
        BY PartsOf
      <3>2. Compares(c, NatOf(a.d), NatOf(b.d))
        BY <3>1, Cmp4Compares
      <3> QED
        BY <3>1, <3>2 DEF Compares
    <2>2. mpz_abs_sub(a, b) = CASE c > 0 -> Mpz(FALSE, Normalized(mpn_sub(a.d, b.d).r))
                                [] c < 0 -> Mpz(TRUE, Normalized(mpn_sub(b.d, a.d).r))
                                [] OTHER -> Mpz(FALSE, <<>>)
      BY DEF mpz_abs_sub, mpz_init
    <2> HIDE DEF c
    <2>3. CASE c = 1
      BY <2>2, <2>3
    <2>4. CASE c = 0
      BY <2>2, <2>4
    <2>5. CASE c = -1
      BY <2>2, <2>5
    <2> QED
      BY <2>1, <2>3, <2>4, <2>5
  <1> QED
    BY <1>1, <1>2, MpzIsRecord

LEMMA AddIs ==
  ASSUME NEW a, NEW b, IsMpz(a), IsMpz(b)
  PROVE  Is(mpz_add(a, b), IntOf(a) + IntOf(b)) /\ Is(mpz_sub(a, b), IntOf(a) - IntOf(b))
  <1> DEFINE p == NatOf(a.d)
             q == NatOf(b.d)
             s == a.size
             t == b.size
             add == mpz_abs_add(a, b)
             sub == mpz_abs_sub(a, b)
             i == IntOf(a)
             j == IntOf(b)
  <1>1. /\ p \in Nat /\ q \in Nat /\ s \in Int /\ t \in Int
        /\ (s < 0 => i = -p) /\ (s >= 0 => i = p) /\ (t < 0 => j = -q) /\ (t >= 0 => j = q)
    BY PartsOf
  <1>2. Is(add, p + q) /\ Is(sub, p - q)
    BY AbsAddIs, AbsSubIs
  <1>3. Is(mpz_neg(add), -(p + q)) /\ Is(mpz_neg(sub), -(p - q))
    <2>1. p + q \in Int /\ p - q \in Int
      BY <1>1
    <2>2. add = [size |-> add.size, d |-> add.d] /\ sub = [size |-> sub.size, d |-> sub.d]
      BY SumsAreRecords
    <2> HIDE DEF add, sub
    <2> QED
      BY <1>2, <2>1, <2>2, NegIs
  <1>4. /\ mpz_add(a, b) = IF s >= 0 THEN IF (s < 0) = (t < 0) THEN add ELSE sub
                           ELSE mpz_neg(IF (s < 0) = (t < 0) THEN add ELSE sub)
        /\ mpz_sub(a, b) = IF s >= 0 THEN IF (s < 0) = (t < 0) THEN sub ELSE add
                           ELSE mpz_neg(IF (s < 0) = (t < 0) THEN sub ELSE add)
    BY DEF mpz_add, mpz_sub, SameSign
  <1> HIDE DEF add, sub, p, q, s, t, i, j
  <1>5. CASE s >= 0 /\ t >= 0
    <2>1. mpz_add(a, b) = add /\ mpz_sub(a, b) = sub /\ i + j = p + q /\ i - j = p - q
      BY <1>1, <1>4, <1>5
    <2> QED
      BY <1>2, <2>1 DEF i, j
  <1>6. CASE s >= 0 /\ t < 0
    <2>1. mpz_add(a, b) = sub /\ mpz_sub(a, b) = add /\ i + j = p - q /\ i - j = p + q
      BY <1>1, <1>4, <1>6
    <2> QED
      BY <1>2, <2>1 DEF i, j
  <1>7. CASE s < 0 /\ t >= 0
    <2>1. mpz_add(a, b) = mpz_neg(sub) /\ mpz_sub(a, b) = mpz_neg(add) /\ i + j = -(p - q) /\ i - j = -(p + q)
      BY <1>1, <1>4, <1>7
    <2> QED
      BY <1>3, <2>1 DEF i, j
  <1>8. CASE s < 0 /\ t < 0
    <2>1. mpz_add(a, b) = mpz_neg(add) /\ mpz_sub(a, b) = mpz_neg(sub) /\ i + j = -(p + q) /\ i - j = -(p - q)
      BY <1>1, <1>4, <1>8
    <2> QED
      BY <1>3, <2>1 DEF i, j
  <1> QED
    BY <1>1, <1>5, <1>6, <1>7, <1>8

----------------------------------------------------------------------------
(* The calls that add and subtract.                                        *)

BigIs(v, n) == IsValue(v) /\ v.big /\ Value(v) = n

LEMMA BigNumber ==
  ASSUME NEW z, NEW n, Is(z, n)
  PROVE  BigIs(Big(z), n)
  BY DEF Is, BigIs, Big, IsValue, Value

LEMMA FixNumber ==
  ASSUME NEW n \in Int
  PROVE  IsValue(Fix(n)) /\ ~Fix(n).big /\ (n \in Fixnum => Value(Fix(n)) = n)
  BY FixIsFixnum DEF IsValue, Value

\* A result that is right when it is big, and when the right one is a fixnum.
Exactly(v, n) == IsValue(v) /\ (v.big \/ n \in Fixnum => Value(v) = n)

LEMMA FixExactly ==
  ASSUME NEW n \in Int
  PROVE  Exactly(Fix(n), n)
  BY FixNumber DEF Exactly

LEMMA BigExactly ==
  ASSUME NEW v, NEW n, BigIs(v, n)
  PROVE  Exactly(v, n)
  BY DEF Exactly, BigIs

\* The short cut of a sum: opposite signs, or a result in half the range.
LEMMA StaysFixnum ==
  ASSUME SmallBits \in Nat, SmallBits <= LimbBits - 2, NEW m \in Fixnum, NEW n \in Fixnum
  PROVE  /\ m <= 0 /\ n >= 0 => m + n \in Fixnum
         /\ m >= 0 /\ n <= 0 => m + n \in Fixnum
         /\ ~Leaves(m + n) => m + n \in Fixnum
  <1> DEFINE h == HighBit \div 2
  <1>1. h \in Nat \ {0} /\ Fixnum = -h .. h - 1 /\ h = Pow(2, LimbBits - 2) /\ LimbBits - 2 \in Nat
    BY FixnumIs
  <1> DEFINE k == LimbBits - 2
  <1>2. Pow(2, SmallBits) \in Nat \ {0} /\ Pow(2, SmallBits) <= h
    <2>1. SmallBits \in Nat /\ k \in Nat /\ SmallBits <= k /\ 2 \in Nat \ {0}
      BY <1>1
    <2>2. h = Pow(2, k)
      BY <1>1
    <2> HIDE DEF k, h
    <2>3. Pow(2, SmallBits) <= Pow(2, k)
      BY <2>1, PowGrows
    <2> QED
      BY <2>1, <2>2, <2>3, PowPositive
  <1> HIDE DEF h, k
  <1>3. m \in -h .. h - 1 /\ n \in -h .. h - 1
    BY <1>1
  <1> DEFINE p == Pow(2, SmallBits)
  <1>4. ASSUME ~Leaves(m + n) PROVE m + n < p /\ m + n > -p
    <2>1. ~(m + n >= p) /\ ~(m + n <= -p)
      BY <1>4 DEF Leaves
    <2>2. p \in Int /\ m + n \in Int
      BY <1>1, <1>2, <1>3
    <2> HIDE DEF p
    <2> QED
      BY <2>1, <2>2
  <1>5. p \in Int /\ p <= h
    BY <1>2
  <1> HIDE DEF p
  <1>6. /\ m <= 0 /\ n >= 0 => m + n \in -h .. h - 1
        /\ m >= 0 /\ n <= 0 => m + n \in -h .. h - 1
        /\ ~Leaves(m + n) => m + n \in -h .. h - 1
    <2>1. h \in Int /\ m \in Int /\ n \in Int /\ m >= -h /\ n >= -h /\ m <= h - 1 /\ n <= h - 1
      BY ONLY <1>1, <1>3
    <2>2. (m <= 0 /\ n >= 0 => m + n \in -h .. h - 1) /\ (m >= 0 /\ n <= 0 => m + n \in -h .. h - 1)
      BY ONLY <2>1
    <2>3. ASSUME ~Leaves(m + n) PROVE m + n \in -h .. h - 1
      <3>1. m + n < p /\ m + n > -p
        BY <1>4, <2>3
      <3> QED
        BY ONLY <1>5, <2>1, <3>1
    <2> QED
      BY <2>2, <2>3
  <1> QED
    BY <1>1, <1>6

LEMMA PlusIs ==
  ASSUME SmallBits \in Nat, SmallBits <= LimbBits - 2, NEW a, NEW b, IsValue(a), IsValue(b)
  PROVE  /\ IsValue(idris_bigPlus(a, b)) /\ Value(idris_bigPlus(a, b)) = Value(a) + Value(b)
         /\ Exactly(idris_bigMinus(a, b), Value(a) - Value(b))
  <1> DEFINE p == Value(a)
             q == Value(b)
  <1>1. /\ p \in Int /\ IsMpz(getbig(a)) /\ IntOf(getbig(a)) = p
        /\ ~a.big => a.n = p /\ a.n \in Fixnum
    BY ValueIs
  <1>2. /\ q \in Int /\ IsMpz(getbig(b)) /\ IntOf(getbig(b)) = q
        /\ ~b.big => b.n = q /\ b.n \in Fixnum
    BY ValueIs
  <1>3. BigIs(bigAdd(a, b), p + q) /\ BigIs(bigSub(a, b), p - q)
    <2>1. Is(mpz_add(getbig(a), getbig(b)), p + q) /\ Is(mpz_sub(getbig(a), getbig(b)), p - q)
      BY <1>1, <1>2, AddIs
    <2> QED
      BY <2>1, BigNumber DEF bigAdd, bigSub
  <1> DEFINE short == BothFix(a, b) /\ \/ a.n <= 0 /\ b.n >= 0
                                       \/ a.n >= 0 /\ b.n <= 0
                                       \/ ~Leaves(a.n + b.n)
  <1>4. IsValue(idris_bigPlus(a, b)) /\ Value(idris_bigPlus(a, b)) = p + q
    <2>1. CASE short
      <3>1. a.n = p /\ b.n = q /\ p \in Fixnum /\ q \in Fixnum
        BY <1>1, <1>2, <2>1 DEF BothFix
      <3>2. p + q \in Fixnum /\ p + q \in Int
        <4>1. /\ p <= 0 /\ q >= 0 => p + q \in Fixnum
              /\ p >= 0 /\ q <= 0 => p + q \in Fixnum
              /\ ~Leaves(p + q) => p + q \in Fixnum
          BY <3>1, StaysFixnum
        <4> QED
          BY <1>1, <1>2, <2>1, <3>1, <4>1
      <3>3. idris_bigPlus(a, b) = Fix(p + q)
        BY <2>1, <3>1 DEF idris_bigPlus
      <3> QED
        BY <3>2, <3>3, FixNumber
    <2>2. CASE ~short
      <3>1. idris_bigPlus(a, b) = bigAdd(a, b)
        BY <2>2 DEF idris_bigPlus
      <3> QED
        BY <1>3, <3>1 DEF BigIs
    <2> QED
      BY <2>1, <2>2
  <1>5. Exactly(idris_bigMinus(a, b), p - q)
    <2>1. CASE idris_bigMinus(a, b) = bigSub(a, b)
      BY <1>3, <2>1, BigExactly
    <2>2. CASE BothFix(a, b) /\ idris_bigMinus(a, b) = Fix(a.n - b.n)
      <3>1. a.n = p /\ b.n = q /\ p - q \in Int
        BY <1>1, <1>2, <2>2 DEF BothFix
      <3> QED
        BY <2>2, <3>1, FixExactly
    <2> QED
      BY <2>1, <2>2 DEF idris_bigMinus
  <1> QED
    BY <1>4, <1>5

----------------------------------------------------------------------------
(* Products: gmp_umul_ppmm, mpn_mul_1, mpn_addmul_1, mpn_submul_1, mpn_mul. *)

\* The product of numbers below m and n has room below m * n, and more.
LEMMA ProductBound ==
  ASSUME NEW m \in Nat \ {0}, NEW u \in 0 .. m - 1, NEW v \in 0 .. m - 1
  PROVE  u * v \in Nat /\ u * v <= (m - 1) * (m - 1) /\ (m - 1) * (m - 1) = (m * m - 2 * m) + 1
  <1>1. u \in Nat /\ v \in Nat /\ u <= m - 1 /\ v <= m - 1 /\ m - 1 \in Nat
    OBVIOUS
  <1> DEFINE k == m - 1
  <1> HIDE DEF k
  <1>2. u * v <= k * v
    BY <1>1 DEF k
  <1>3. k * v <= k * k
    BY <1>1 DEF k
  <1>4. u * v \in Nat /\ k * v \in Nat /\ k * k \in Nat
    BY <1>1 DEF k
  <1>5. u * v <= k * k
    BY <1>2, <1>3, <1>4
  <1>6. (m - 1) * (m - 1) = (m * m - 2 * m) + 1
    BY <1>1
  <1> QED
    BY <1>4, <1>5, <1>6 DEF k

\* From the four products of the halves to the product: what is lost of the
\* middle sum, c, comes back above.
Middle(h, x0, x1, x2, x3, t, c) ==
    /\ (x0 % h) + h * (x1 % h) \in 0 .. h * h - 1
    /\ ((x0 % h) + h * (x1 % h)) + (h * h) * ((x3 + h * c) + x1 \div h) =
       (x0 % h) + h * (x1 + (h * h) * c) + (h * h) * x3

LEMMA MiddleHolds ==
  ASSUME NEW h \in Nat \ {0}, NEW x0 \in Nat, NEW x1 \in Nat, NEW x2 \in Nat, NEW x3 \in Nat,
         NEW t \in Nat, NEW c \in Nat
  PROVE  Middle(h, x0, x1, x2, x3, t, c)
  <1> DEFINE r0 == x0 % h
             r1 == x1 % h
             q1 == x1 \div h
  <1>1. r0 \in 0 .. h - 1 /\ r1 \in 0 .. h - 1 /\ q1 \in Int /\ x1 = h * q1 + r1
    BY DivMod
  <1> HIDE DEF r0, r1, q1
  <1>2. r0 + h * r1 \in 0 .. h * h - 1
    <2>1. h * r1 <= h * (h - 1) /\ h * (h - 1) = h * h - h /\ h * r1 \in Nat /\ h * h \in Nat
      BY <1>1
    <2> QED
      BY <1>1, <2>1
  <1>3. (r0 + h * r1) + (h * h) * ((x3 + h * c) + q1) = r0 + h * (x1 + (h * h) * c) + (h * h) * x3
    <2>1. h * x1 = (h * h) * q1 + h * r1
      BY <1>1
    <2>2. (h * h) * ((x3 + h * c) + q1) = (h * h) * x3 + (h * h) * (h * c) + (h * h) * q1
      BY <1>1
    <2>3. h * (x1 + (h * h) * c) = h * x1 + (h * h) * (h * c)
      BY <1>1
    <2>4. /\ h * x1 \in Int /\ (h * h) * q1 \in Int /\ h * r1 \in Int /\ (h * h) * x3 \in Int
          /\ (h * h) * (h * c) \in Int /\ r0 \in Int
      BY <1>1
    <2> QED
      BY ONLY <2>1, <2>2, <2>3, <2>4
  <1> QED
    BY <1>2, <1>3 DEF Middle, r0, r1, q1

\* The sum of the four is the product.
LEMMA FourProducts ==
  ASSUME NEW h \in Int, NEW ul \in Int, NEW uh \in Int, NEW vl \in Int, NEW vh \in Int,
         NEW r0 \in Int, NEW q0 \in Int, NEW s \in Int,
         ul * vl = h * q0 + r0, s = (ul * vh + q0) + uh * vl
  PROVE  r0 + h * s + (h * h) * (uh * vh) = (h * uh + ul) * (h * vh + vl)
  <1>1. (h * uh + ul) * (h * vh + vl) = (h * h) * (uh * vh) + h * (uh * vl) + h * (ul * vh) + ul * vl
    OBVIOUS
  <1>2. h * s = h * (ul * vh) + h * q0 + h * (uh * vl)
    OBVIOUS
  <1>3. (h * h) * (uh * vh) \in Int /\ h * (uh * vl) \in Int /\ h * (ul * vh) \in Int /\ ul * vl \in Int
        /\ h * q0 \in Int /\ h * s \in Int
    OBVIOUS
  <1> QED
    BY ONLY <1>1, <1>2, <1>3, ul * vl = h * q0 + r0, r0 \in Int

LEMMA BelowSquare ==
  ASSUME NEW b \in Nat \ {0}, NEW lo \in Nat, NEW hi \in Int, NEW p \in Int, lo < b,
         lo + b * hi = p, p < b * b, p >= 0
  PROVE  hi \in 0 .. b - 1
  <1>1. hi < b
    <2>1. SUFFICES ASSUME hi >= b PROVE FALSE
      OBVIOUS
    <2>2. b * hi >= b * b /\ b * hi \in Int /\ b * b \in Int
      BY <2>1
    <2> QED
      BY <2>2
  <1>2. hi >= 0
    <2>1. SUFFICES ASSUME hi <= -1 PROVE FALSE
      OBVIOUS
    <2>2. b * hi <= b * (-1) /\ b * hi \in Int /\ b * (-1) = -b
      BY <2>1
    <2> QED
      BY <2>2
  <1> QED
    BY <1>1, <1>2

\* Halves of a limb.
LEMMA HalvesOf ==
  ASSUME NEW u \in Limb
  PROVE  /\ u % H \in 0 .. H - 1 /\ u \div H \in 0 .. H - 1
         /\ u = H * (u \div H) + (u % H)
  <1>1. H \in Nat \ {0} /\ B = H * H /\ u \in Nat /\ u < B
    BY LimbsAre, LimbIs
  <1> DEFINE l == u % H
             h == u \div H
  <1>2. h \in Int /\ l \in 0 .. H - 1 /\ u = H * h + l
    BY <1>1, DivMod
  <1> HIDE DEF l, h
  <1>3. l \in Nat /\ l < H /\ l + H * h = u
    BY <1>1, <1>2
  <1>4. h \in 0 .. H - 1
    BY ONLY <1>1, <1>2, <1>3, BelowSquare
  <1> QED
    BY <1>2, <1>4 DEF l, h

IsProduct(p, v) == p \in Limb \X Limb /\ p[2] + B * p[1] = v

LEMMA ProductIs ==
  ASSUME NEW u \in Limb, NEW v \in Limb
  PROVE  IsProduct(gmp_umul_ppmm(u, v), u * v) /\ u * v \in Nat /\ u * v <= (B - 1) * (B - 1)
  <1>0. B \in Nat \ {0} /\ H \in Nat \ {0} /\ B = H * H /\ \A n \in 0 .. B - 1 : Wrap(n) = n
    <2>1. B \in Nat \ {0} /\ H \in Nat \ {0} /\ B = H * H /\ \A n \in Int : Wrap(n) = n % B
      BY LimbsAre
    <2>2. \A n \in 0 .. B - 1 : n % B = n /\ n \in Int
      BY <2>1, ModSmall
    <2> QED
      BY <2>1, <2>2
  <1> DEFINE ul == u % H
             uh == u \div H
             vl == v % H
             vh == v \div H
             x0 == ul * vl
             x2 == uh * vl
             x3 == uh * vh
             r0 == x0 % H
             q0 == x0 \div H
             t == ul * vh + q0
             x1 == Wrap(Wrap(ul * vh + x0 \div H) + x2)
             c == Bit(x1 < x2)
             lo == r0 + H * (x1 % H)
             hi == (x3 + H * c) + x1 \div H
  <1>1. H \in Nat \ {0} /\ B = H * H /\ B \in Nat \ {0} /\ H >= 2 /\ Limb = 0 .. B - 1
        /\ \A n \in Int : Wrap(n) = n % B
    BY LimbsAre
  <1>2. ul \in 0 .. H - 1 /\ uh \in 0 .. H - 1 /\ u = H * uh + ul /\ u \in Nat /\ u \in 0 .. B - 1
    BY HalvesOf, LimbIs
  <1>3. vl \in 0 .. H - 1 /\ vh \in 0 .. H - 1 /\ v = H * vh + vl /\ v \in Nat /\ v \in 0 .. B - 1
    BY HalvesOf, LimbIs
  <1> HIDE DEF ul, uh, vl, vh
  <1>4. /\ x0 \in Nat /\ x2 \in Nat /\ x3 \in Nat /\ ul * vh \in Nat
        /\ x0 <= (H - 1) * (H - 1) /\ x2 <= (H - 1) * (H - 1) /\ ul * vh <= (H - 1) * (H - 1)
        /\ (H - 1) * (H - 1) = (H * H - 2 * H) + 1
    BY <1>1, <1>2, <1>3, ProductBound
  <1> DEFINE y0 == ul * vh
  <1>4a. /\ x0 <= (B - 2 * H) + 1 /\ x2 <= (B - 2 * H) + 1 /\ y0 <= (B - 2 * H) + 1
         /\ x0 \in Nat /\ x2 \in Nat /\ x3 \in Nat /\ y0 \in Nat /\ B \in Nat /\ H \in Nat /\ H >= 2
    BY <1>1, <1>4
  <1>5. r0 \in 0 .. H - 1 /\ q0 \in Int /\ x0 = H * q0 + r0
    <2>1. x0 \in Int
      BY <1>4
    <2> HIDE DEF x0
    <2> QED
      BY <1>1, <2>1, DivMod
  <1>6. q0 \in 0 .. H - 1
    <2> HIDE DEF r0, q0, x0, x2, x3, y0
    <2>0. x0 < B /\ x0 >= 0 /\ x0 \in Int
      BY ONLY <1>4a
    <2>1. r0 \in Nat /\ r0 < H /\ r0 + H * q0 = x0 /\ q0 \in Int /\ x0 \in Int /\ x0 < H * H /\ x0 >= 0
      BY <1>1, <1>5, <2>0
    <2> QED
      BY ONLY <1>1, <2>1, BelowSquare
  <1>7. t \in 0 .. B - 1 /\ x2 \in 0 .. B - 1
    <2> DEFINE s == y0 + q0
    <2>1. t = s
      OBVIOUS
    <2>2. s \in 0 .. B - 1 /\ x2 \in 0 .. B - 1
      <3> HIDE DEF q0, x0, x2, x3, y0
      <3> QED
        BY ONLY <1>4a, <1>6 DEF s
    <2> QED
      BY <2>1, <2>2
  <1>8. x1 \in Limb /\ x1 + B * c = t + x2 /\ x1 \in Nat /\ c \in {0, 1}
    <2>1. Wrap(t) = t
      <3>0. t \in 0 .. B - 1
        BY <1>7
      <3> HIDE DEF t
      <3> QED
        BY ONLY <1>0, <3>0
    <2>2. t \in Limb /\ x2 \in Limb
      BY <1>1, <1>7
    <2>3. x1 = Wrap(t + x2)
      BY <2>1
    <2> HIDE DEF t, x2, x1
    <2>4. x1 \in Limb /\ x1 + B * c = t + x2
      BY <2>2, <2>3, LimbSum
    <2> QED
      BY <2>4, LimbIs DEF Bit
  <1> HIDE DEF x1, c
  <1>9. Middle(H, x0, x1, x2, x3, t, c)
    <2>1. x0 \in Nat /\ x1 \in Nat /\ x2 \in Nat /\ x3 \in Nat /\ t \in Nat /\ c \in Nat /\ H \in Nat \ {0}
      BY <1>1, <1>4, <1>7, <1>8
    <2> HIDE DEF x0, x2, x3, t
    <2> QED
      BY ONLY <2>1, MiddleHolds
  <1>10. lo \in 0 .. B - 1 /\ lo + B * hi = r0 + H * (x1 + B * c) + B * x3
    BY <1>1, <1>9 DEF Middle
  <1>11. r0 + H * (t + x2) + B * x3 = u * v
    <2> DEFINE s == t + x2
    <2>1. s = (ul * vh + q0) + uh * vl /\ s \in Int /\ r0 \in Int /\ q0 \in Int /\ ul * vl = H * q0 + r0
      BY <1>5, <1>7
    <2>2. H \in Int /\ ul \in Int /\ uh \in Int /\ vl \in Int /\ vh \in Int
      BY <1>1, <1>2, <1>3
    <2> HIDE DEF s, r0, q0
    <2>3. r0 + H * s + (H * H) * (uh * vh) = (H * uh + ul) * (H * vh + vl)
      BY ONLY <2>1, <2>2, FourProducts
    <2> QED
      BY <1>1, <1>2, <1>3, <2>3 DEF s
  <1>12. lo + B * hi = u * v
    BY <1>8, <1>10, <1>11
  <1>13. u * v \in Nat /\ u * v <= (B - 1) * (B - 1) /\ u * v < B * B
    <2>1. u * v \in Nat /\ u * v <= (B - 1) * (B - 1) /\ (B - 1) * (B - 1) = (B * B - 2 * B) + 1
      BY <1>1, <1>2, <1>3, ProductBound
    <2> DEFINE k == u * v
               q == (B - 1) * (B - 1)
    <2>2. k \in Nat /\ k <= q /\ q = (B * B - 2 * B) + 1
      BY <2>1
    <2>3. B * B \in Nat
      BY <1>1
    <2> HIDE DEF k, q
    <2>4. k < B * B
      BY <1>1, <2>2, <2>3
    <2> QED
      BY <2>1, <2>4 DEF k
  <1>14. x1 \div H \in Int /\ x1 % H \in 0 .. H - 1 /\ x1 = H * (x1 \div H) + (x1 % H)
    <2>1. x1 \in Int /\ H \in Nat \ {0}
      BY <1>1, <1>8
    <2> QED
      BY ONLY <2>1, DivMod
  <1>15. hi \in Int /\ x3 + H * c \in Int /\ x3 + H * c >= 0
    <2>1. x3 \in Nat /\ H \in Nat /\ c \in {0, 1} /\ x1 \div H \in Int
      BY <1>1, <1>4, <1>8, <1>14
    <2> HIDE DEF x3
    <2>2. H * c \in Nat
      BY <2>1
    <2> QED
      BY <2>1, <2>2
  <1>16. hi \in 0 .. B - 1
    <2> DEFINE p == u * v
    <2>1. lo \in Nat /\ lo < B /\ lo + B * hi = p /\ p \in Int /\ p < B * B /\ p >= 0 /\ hi \in Int
      BY <1>1, <1>10, <1>12, <1>13, <1>15
    <2> HIDE DEF lo, hi, p
    <2> QED
      BY ONLY <1>1, <2>1, BelowSquare
  <1>17. gmp_umul_ppmm(u, v) = <<Wrap(Wrap(x3 + IF x1 < x2 THEN H ELSE 0) + x1 \div H), Wrap(x1 * H) + r0>>
    BY DEF gmp_umul_ppmm, Products, Halves, ul, uh, vl, vh, x1
  <1>18. Wrap(Wrap(x3 + IF x1 < x2 THEN H ELSE 0) + x1 \div H) = hi
    <2> DEFINE d == x3 + H * c
               e == x1 \div H
    <2>1. (x3 + IF x1 < x2 THEN H ELSE 0) = d
      BY <1>1, <1>4 DEF c, Bit
    <2>2. e \in 0 .. H - 1 /\ d \in Int /\ hi = d + e
      <3>1. x1 \in Limb
        BY <1>8
      <3> QED
        BY <1>15, <3>1, HalvesOf
    <2>3. d \in 0 .. B - 1
      <3>1. d >= 0
        BY <1>15
      <3> HIDE DEF d, e, hi
      <3> QED
        BY <1>1, <1>16, <2>2, <3>1
    <2>4. Wrap(d) = d /\ Wrap(hi) = hi
      <3> HIDE DEF d, hi
      <3> QED
        BY ONLY <1>0, <1>16, <2>3
    <2> QED
      BY <2>1, <2>2, <2>4
  <1>19. Wrap(x1 * H) + r0 = lo
    <2> DEFINE k == H * (x1 % H)
               e == x1 \div H
    <2>1. x1 * H = k + B * e /\ k \in Int /\ e \in Int
      <3> DEFINE m == x1 % H
      <3>1. x1 = H * e + m /\ H \in Int /\ B = H * H /\ e \in Int /\ m \in Int
        BY ONLY <1>0, <1>14
      <3> HIDE DEF e, m
      <3>2. x1 * H = H * m + B * e /\ H * m \in Int
        BY ONLY <3>1
      <3> QED
        BY <3>1, <3>2 DEF m
    <2>2. k \in 0 .. B - 1
      <3>1. k >= 0 /\ r0 >= 0 /\ lo = r0 + k /\ r0 \in Int
        BY <1>1, <1>5, <1>14
      <3>2. lo \in 0 .. B - 1 /\ k \in Int /\ B \in Int
        BY <1>1, <1>10, <2>1
      <3> HIDE DEF k, lo, r0
      <3> QED
        BY ONLY <3>1, <3>2
    <2> HIDE DEF k, e
    <2>3. (k + B * e) % B = k % B /\ k % B = k
      BY <1>1, <2>1, <2>2, ModAddMultiple, ModSmall
    <2>4. Wrap(x1 * H) = k
      <3>1. x1 * H \in Int
        BY <1>1, <1>8
      <3> QED
        BY <1>1, <2>1, <2>3, <3>1
    <2>5. k + r0 = r0 + k
      BY <1>5, <2>1
    <2> QED
      BY <2>4, <2>5 DEF k
  <1> HIDE DEF lo, hi
  <1>20. gmp_umul_ppmm(u, v) = <<hi, lo>>
    BY <1>17, <1>18, <1>19
  <1>21. hi \in Limb /\ lo \in Limb /\ lo + B * hi = u * v
    BY <1>1, <1>10, <1>12, <1>16
  <1>22. IsProduct(<<hi, lo>>, u * v)
    BY ONLY <1>21 DEF IsProduct
  <1> QED
    BY <1>13, <1>20, <1>22

LEMMA LimbBase ==
  B \in Nat \ {0} /\ B >= 4 /\ Limb = 0 .. B - 1 /\ \A i \in 0 .. B - 1 : Wrap(i) = i
  <1>1. B \in Nat \ {0} /\ B >= 4 /\ Limb = 0 .. B - 1 /\ \A i \in Int : Wrap(i) = i % B
    BY LimbsAre
  <1>2. ASSUME NEW i \in 0 .. B - 1 PROVE Wrap(i) = i
    <2>1. B \in Nat \ {0}
      BY <1>1
    <2>2. i % B = i
      BY ONLY <2>1, i \in 0 .. B - 1, ModSmall
    <2>3. i \in Int
      BY <2>1
    <2> QED
      BY ONLY <1>1, <2>2, <2>3
  <1> QED
    BY <1>1, <1>2

\* A limb times a limb and what was handed on, cl.
LEMMA MulStepIs ==
  ASSUME NEW u \in Limb, NEW v \in Limb, NEW cl \in Limb
  PROVE  /\ MulStep(u, v, cl) \in Limb \X Limb
         /\ MulStep(u, v, cl)[1] + B * MulStep(u, v, cl)[2] = u * v + cl
         /\ u * v + cl \in Nat /\ u * v + cl <= B * B - B
  <1> DEFINE p == gmp_umul_ppmm(u, v)
             k == u * v
             hi == p[1]
             lo == p[2]
             l == Wrap(lo + cl)
             c == Bit(l < cl)
             n == k + cl
             bb == B * B
  <1>0. B \in Nat \ {0} /\ B >= 4 /\ Limb = 0 .. B - 1 /\ \A i \in 0 .. B - 1 : Wrap(i) = i
    BY LimbBase
  <1>1. p \in Limb \X Limb /\ lo + B * hi = k /\ k \in Nat /\ k <= (B - 1) * (B - 1)
    BY ProductIs DEF IsProduct
  <1> HIDE DEF p
  <1>2. hi \in Limb /\ lo \in Limb
    BY <1>1
  <1> HIDE DEF hi, lo, k
  <1>3. l \in Limb /\ l + B * c = lo + cl /\ c \in {0, 1}
    BY <1>2, LimbSum DEF Bit
  <1>4. hi \in Nat /\ lo \in Nat /\ l \in Nat /\ cl \in Nat /\ l < B /\ cl < B
    BY <1>2, <1>3, LimbIs
  <1> HIDE DEF l, c
  <1>5. l + B * (hi + c) = k + cl
    <2>1. B * (hi + c) = B * hi + B * c /\ B * hi \in Int /\ B * c \in Int
      BY <1>0, <1>3, <1>4
    <2> QED
      BY ONLY <1>0, <1>1, <1>3, <1>4, <2>1
  <1>6. n \in Nat /\ n <= bb - B /\ bb \in Nat
    <2>1. (B - 1) * (B - 1) = (bb - 2 * B) + 1 /\ bb \in Nat
      BY <1>0
    <2> HIDE DEF bb
    <2> QED
      BY <1>0, <1>1, <1>4, <2>1
  <1>7. hi + c \in 0 .. B - 1
    <2>1. hi + c \in Int /\ n \in Int /\ n < bb /\ n >= 0 /\ l + B * (hi + c) = n
      BY <1>0, <1>3, <1>4, <1>5, <1>6
    <2> DEFINE q == hi + c
    <2> HIDE DEF n, q
    <2> QED
      BY ONLY <1>0, <1>4, <2>1, BelowSquare DEF bb, q
  <1>8. MulStep(u, v, cl) = <<l, hi + c>>
    <2>1. MulStep(u, v, cl) = <<l, Wrap(hi + c)>>
      BY DEF MulStep, Carried, l, c, hi, lo, p
    <2> QED
      BY ONLY <1>0, <1>7, <2>1
  <1>9. hi + c \in Limb
    BY <1>0, <1>7
  <1>10. n = u * v + cl
    BY DEF k
  <1> QED
    BY <1>3, <1>5, <1>6, <1>8, <1>9, <1>10 DEF bb

LEMMA AddStepIs ==
  ASSUME NEW r \in Limb, NEW u \in Limb, NEW v \in Limb, NEW cl \in Limb
  PROVE  /\ AddStep(r, MulStep(u, v, cl)) \in Limb \X Limb
         /\ AddStep(r, MulStep(u, v, cl))[1] + B * AddStep(r, MulStep(u, v, cl))[2] = (r + u * v) + cl
         /\ SubStep(r, MulStep(u, v, cl)) \in Limb \X Limb
         /\ SubStep(r, MulStep(u, v, cl))[1] - B * SubStep(r, MulStep(u, v, cl))[2] = (r - u * v) - cl
  <1> DEFINE m == MulStep(u, v, cl)
             lo == m[1]
             hi == m[2]
             s == Wrap(r + lo)
             c == Bit(s < r)
             t == Wrap(r - lo)
             d == Bit(t > r)
             n == u * v + cl
             bb == B * B
  <1>0. B \in Nat \ {0} /\ B >= 4 /\ Limb = 0 .. B - 1 /\ \A i \in 0 .. B - 1 : Wrap(i) = i
    BY LimbBase
  <1>1. m \in Limb \X Limb /\ lo + B * hi = n /\ n \in Nat /\ n <= bb - B
    BY MulStepIs
  <1> HIDE DEF m
  <1>2. hi \in Limb /\ lo \in Limb
    BY <1>1
  <1> HIDE DEF hi, lo
  <1>3. s \in Limb /\ s + B * c = r + lo /\ c \in {0, 1}
    <2>1. Wrap(lo + r) \in Limb /\ Wrap(lo + r) + B * Bit(Wrap(lo + r) < r) = lo + r
      BY <1>2, LimbSum
    <2>2. lo + r = r + lo
      BY <1>2, LimbIs
    <2> QED
      BY <2>1, <2>2 DEF Bit
  <1>4. t \in Limb /\ t - B * d = r - lo /\ d \in {0, 1}
    BY <1>2, LimbDifference DEF Bit
  <1>5. /\ hi \in Nat /\ lo \in Nat /\ s \in Nat /\ t \in Nat /\ r \in Nat
        /\ hi < B /\ lo < B /\ s < B /\ t < B /\ r < B
    BY <1>2, <1>3, <1>4, LimbIs
  <1> HIDE DEF n, s, t, c, d
  <1>6. s + B * (hi + c) = r + n
    <2>1. B * (hi + c) = B * hi + B * c /\ B * hi \in Int /\ B * c \in Int
      BY <1>0, <1>3, <1>5
    <2> QED
      BY ONLY <1>0, <1>1, <1>3, <1>5, <2>1
  <1>7. t - B * (hi + d) = r - n
    <2>1. B * (hi + d) = B * hi + B * d /\ B * hi \in Int /\ B * d \in Int
      BY <1>0, <1>4, <1>5
    <2> QED
      BY ONLY <1>0, <1>1, <1>4, <1>5, <2>1
  <1>8. bb \in Nat
    BY <1>0
  <1> HIDE DEF bb
  <1>9. hi + c \in 0 .. B - 1
    <2> DEFINE q == hi + c
               p == r + n
    <2>1. q \in Int /\ p \in Int /\ p < bb /\ p >= 0 /\ s + B * q = p
      BY <1>0, <1>1, <1>3, <1>5, <1>6, <1>8
    <2> HIDE DEF p, q
    <2> QED
      BY ONLY <1>0, <1>5, <2>1, BelowSquare DEF bb, q
  <1>10. hi + d \in 0 .. B - 1
    <2> DEFINE q == hi + d
               e == (B - 1) - t
               p == (B - 1) + (n - r)
    <2>1. e \in Nat /\ e < B /\ q \in Int /\ p \in Int /\ p < bb /\ p >= 0 /\ e + B * q = p
      <3>1. e + B * q = p /\ q \in Int /\ p \in Int
        <4>1. B * q \in Int /\ t - B * q = r - n
          BY <1>0, <1>4, <1>5, <1>7
        <4> HIDE DEF q
        <4> QED
          BY ONLY <1>0, <1>1, <1>4, <1>5, <4>1 DEF q
      <3>2. p < bb /\ p >= 0 /\ e \in Nat /\ e < B
        BY <1>0, <1>1, <1>5, <1>8
      <3> QED
        BY <3>1, <3>2
    <2> HIDE DEF p, q, e
    <2> QED
      BY ONLY <1>0, <2>1, BelowSquare DEF bb, q
  <1>11. AddStep(r, m) = <<s, hi + c>> /\ SubStep(r, m) = <<t, hi + d>>
    <2>1. AddStep(r, m) = <<s, Wrap(hi + c)>> /\ SubStep(r, m) = <<t, Wrap(hi + d)>>
      BY DEF AddStep, SubStep, s, t, c, d, hi, lo
    <2> QED
      BY ONLY <1>0, <1>9, <1>10, <2>1
  <1>12. hi + c \in Limb /\ hi + d \in Limb
    BY <1>0, <1>9, <1>10
  <1>13. r + n = (r + u * v) + cl /\ r - n = (r - u * v) - cl
    <2>1. u * v \in Int /\ cl \in Int
      BY LimbIs
    <2> DEFINE k == u * v
    <2>2. n = k + cl /\ k \in Int
      BY <2>1 DEF n
    <2> HIDE DEF k
    <2>3. r + n = (r + k) + cl /\ r - n = (r - k) - cl
      BY <1>5, <2>1, <2>2
    <2> QED
      BY <2>3 DEF k
  <1> QED
    BY <1>3, <1>4, <1>6, <1>7, <1>11, <1>12, <1>13 DEF m

\* A number times a limb,
LEMMA TimesLimb ==
  ASSUME NEW up \in Seq(Limb), NEW v \in Limb
  PROVE  Sum(mpn_mul_1(up, v), Len(up), NatOf(up) * v) /\ mpn_mul_1(up, v).cy \in Limb
  <1> DEFINE n == Len(up)
             step == [i \in DOMAIN up |-> [cl \in Limb |-> MulStep(up[i], v, cl)]]
             u == [i \in 1 .. n |-> up[i] * v]
             w == v * NatOf(up)
  <1>1. n \in Nat /\ Ints(up, n) /\ NatOf(up) \in Nat /\ (\A i \in 1 .. n : up[i] \in Limb) /\ DOMAIN up = 1 .. n
    BY NatOfIs
  <1>2. v \in Nat /\ 0 \in Limb /\ B \in Int /\ Limb \in SUBSET Int
    <2>1. Limb \subseteq Nat
      BY LimbsAre
    <2> QED
      BY <2>1, LimbIs, LimbsAre
  <1>3. ASSUME NEW i \in 1 .. n, NEW cl \in Limb
        PROVE  step[i][cl] \in Limb \X Limb /\ step[i][cl][1] + B * step[i][cl][2] = u[i] + cl
    <2>1. up[i] \in Limb /\ step[i][cl] = MulStep(up[i], v, cl) /\ u[i] = up[i] * v
      BY <1>1
    <2> HIDE DEF step, u
    <2> QED
      BY <2>1, MulStepIs
  <1>4. mpn_mul_1(up, v) = Chain(step, n, 0)
    BY DEF mpn_mul_1
  <1>5. Ints(u, n) /\ Combined(u, n, v, up, 0, up)
    BY <1>1, <1>2 DEF Ints, Combined
  <1> HIDE DEF step, u
  <1>6. StepsIn(step, n, Limb, Limb) /\ StepsAdd(step, n, Limb, u)
    BY <1>3 DEF StepsIn, StepsAdd
  <1>7. Number(B, u, n) = w /\ w \in Int
    <2>1. Number(B, u, n) = v * Number(B, up, n) + 0 * Number(B, up, n)
      BY <1>1, <1>2, <1>5, NumberCombined
    <2>2. Number(B, up, n) = NatOf(up)
      BY DEF NatOf
    <2> QED
      BY <1>1, <1>2, <2>1, <2>2
  <1> HIDE DEF n, w
  <1>8. Sum(Chain(step, n, 0), n, w + 0) /\ Chain(step, n, 0).cy \in Limb
    BY <1>1, <1>2, <1>5, <1>6, <1>7, ChainIsSum
  <1>9. w + 0 = NatOf(up) * v
    BY <1>1, <1>2, <1>7 DEF w
  <1> QED
    BY <1>4, <1>8, <1>9 DEF n

\* added to or taken from another.
LEMMA TimesLimbMore ==
  ASSUME NEW rp \in Seq(Limb), NEW up \in Seq(Limb), NEW v \in Limb, Len(up) <= Len(rp)
  PROVE  LET n == Len(up)
             r == Number(B, rp, n)
         IN  /\ r \in Nat
             /\ Sum(mpn_addmul_1(rp, up, v), n, r + NatOf(up) * v) /\ mpn_addmul_1(rp, up, v).cy \in Limb
             /\ Difference(mpn_submul_1(rp, up, v), n, r - NatOf(up) * v)
             /\ mpn_submul_1(rp, up, v).cy \in Limb
  <1> DEFINE n == Len(up)
             r == Number(B, rp, n)
             k == NatOf(up)
             add == [i \in DOMAIN up |-> [cl \in Limb |-> AddStep(rp[i], MulStep(up[i], v, cl))]]
             sub == [i \in DOMAIN up |-> [cl \in Limb |-> SubStep(rp[i], MulStep(up[i], v, cl))]]
             u == [i \in 1 .. n |-> rp[i] + up[i] * v]
             w == [i \in 1 .. n |-> rp[i] - up[i] * v]
  <1>1. n \in Nat /\ Ints(up, n) /\ k \in Nat /\ (\A i \in 1 .. n : up[i] \in Limb) /\ DOMAIN up = 1 .. n
    BY NatOfIs
  <1>2. v \in Nat /\ 0 \in Limb /\ B \in Int /\ Limb \in SUBSET Int /\ B \in Nat \ {0} /\ Limb = 0 .. B - 1
    <2>1. Limb \subseteq Nat
      BY LimbsAre
    <2> QED
      BY <2>1, LimbIs, LimbsAre
  <1>3. \A i \in 1 .. n : rp[i] \in Limb /\ rp[i] \in Nat
    <2>1. \A i \in 1 .. n : i \in 1 .. Len(rp)
      BY <1>1
    <2> QED
      BY <2>1, LimbIs
  <1>4. r \in Nat /\ Ints(rp, n)
    <2>1. IsDigits(B, rp, n)
      BY <1>2, <1>3 DEF IsDigits
    <2>2. r \in 0 .. Pow(B, n) - 1
      BY <1>1, <1>2, <2>1, NumberBounds
    <2> QED
      BY <1>3, <2>2 DEF Ints
  <1>5. ASSUME NEW i \in 1 .. n, NEW cl \in Limb
        PROVE  /\ add[i][cl] \in Limb \X Limb /\ add[i][cl][1] + B * add[i][cl][2] = u[i] + cl
               /\ sub[i][cl] \in Limb \X Limb /\ sub[i][cl][1] - B * sub[i][cl][2] = w[i] - cl
    <2>1. /\ up[i] \in Limb /\ rp[i] \in Limb
          /\ add[i][cl] = AddStep(rp[i], MulStep(up[i], v, cl)) /\ u[i] = rp[i] + up[i] * v
          /\ sub[i][cl] = SubStep(rp[i], MulStep(up[i], v, cl)) /\ w[i] = rp[i] - up[i] * v
      BY <1>1, <1>3
    <2> HIDE DEF add, sub, u, w
    <2> DEFINE m == MulStep(up[i], v, cl)
               a == AddStep(rp[i], m)
               b == SubStep(rp[i], m)
    <2> DEFINE s == rp[i]
               t == up[i]
    <2>a. s \in Limb /\ t \in Limb
      BY <2>1
    <2> HIDE DEF s, t
    <2>2. /\ a \in Limb \X Limb /\ a[1] + B * a[2] = (rp[i] + up[i] * v) + cl
          /\ b \in Limb \X Limb /\ b[1] - B * b[2] = (rp[i] - up[i] * v) - cl
      <3>1. /\ AddStep(s, MulStep(t, v, cl)) \in Limb \X Limb
            /\ AddStep(s, MulStep(t, v, cl))[1] + B * AddStep(s, MulStep(t, v, cl))[2] = (s + t * v) + cl
            /\ SubStep(s, MulStep(t, v, cl)) \in Limb \X Limb
            /\ SubStep(s, MulStep(t, v, cl))[1] - B * SubStep(s, MulStep(t, v, cl))[2] = (s - t * v) - cl
        BY <2>a, AddStepIs
      <3> QED
        BY <3>1 DEF s, t
    <2> HIDE DEF a, b
    <2>3. add[i][cl] = a /\ sub[i][cl] = b
      BY <2>1 DEF a, b
    <2> QED
      BY <2>1, <2>2, <2>3
  <1>6. mpn_addmul_1(rp, up, v) = Chain(add, n, 0) /\ mpn_submul_1(rp, up, v) = Chain(sub, n, 0)
    BY DEF mpn_addmul_1, mpn_submul_1
  <1>7. Ints(u, n) /\ Combined(u, n, 1, rp, v, up) /\ Ints(w, n) /\ Combined(w, n, 1, rp, -v, up)
    <2>1. ASSUME NEW i \in 1 .. n
          PROVE  /\ u[i] \in Int /\ u[i] = 1 * rp[i] + v * up[i]
                 /\ w[i] \in Int /\ w[i] = 1 * rp[i] + (-v) * up[i]
      <3>1. up[i] \in Nat /\ rp[i] \in Nat
        BY <1>1, <1>3, LimbIs
      <3>2. u[i] = rp[i] + up[i] * v /\ w[i] = rp[i] - up[i] * v
        OBVIOUS
      <3> HIDE DEF u, w
      <3> DEFINE a == rp[i]
                 b == up[i]
      <3>3. a \in Int /\ b \in Int /\ v \in Int /\ u[i] = a + b * v /\ w[i] = a - b * v
        BY <1>2, <3>1, <3>2
      <3> HIDE DEF a, b
      <3>4. a + b * v = 1 * a + v * b /\ a - b * v = 1 * a + (-v) * b /\ a + b * v \in Int /\ a - b * v \in Int
        BY ONLY <3>3
      <3> QED
        BY <3>3, <3>4 DEF a, b
    <2> HIDE DEF u, w
    <2> QED
      BY <2>1 DEF Ints, Combined
  <1> HIDE DEF add, sub, u, w
  <1>8. StepsIn(add, n, Limb, Limb) /\ StepsAdd(add, n, Limb, u) /\ StepsIn(sub, n, Limb, Limb) /\ StepsTake(sub, n, Limb, w)
    BY <1>5 DEF StepsIn, StepsAdd, StepsTake
  <1> DEFINE p == r + k * v
             q == r - k * v
  <1>9. Number(B, u, n) = p /\ Number(B, w, n) = q /\ p \in Int /\ q \in Int
    <2>0. -v \in Int /\ 1 \in Int
      BY <1>2
    <2>1. Number(B, u, n) = 1 * Number(B, rp, n) + v * Number(B, up, n)
      BY <1>1, <1>2, <1>4, <1>7, NumberCombined
    <2>2. Number(B, w, n) = 1 * Number(B, rp, n) + (-v) * Number(B, up, n)
      <3> DEFINE o == -v
      <3>1. o \in Int /\ Combined(w, n, 1, rp, o, up)
        BY <1>2, <1>7
      <3> HIDE DEF o
      <3>2. Number(B, w, n) = 1 * Number(B, rp, n) + o * Number(B, up, n)
        BY <1>1, <1>2, <1>4, <1>7, <3>1, NumberCombined
      <3> QED
        BY <3>2 DEF o
    <2>3. Number(B, up, n) = k /\ Number(B, rp, n) = r
      BY DEF NatOf
    <2> HIDE DEF r, k
    <2> QED
      BY <1>1, <1>2, <1>4, <2>1, <2>2, <2>3
  <1> HIDE DEF n, p, q, r, k
  <1>10. Sum(Chain(add, n, 0), n, p + 0) /\ Chain(add, n, 0).cy \in Limb
    BY <1>1, <1>2, <1>7, <1>8, <1>9, ChainIsSum
  <1>11. Difference(Chain(sub, n, 0), n, q - 0) /\ Chain(sub, n, 0).cy \in Limb
    BY <1>1, <1>2, <1>7, <1>8, <1>9, ChainIsDifference
  <1>12. p + 0 = r + NatOf(up) * v /\ q - 0 = r - NatOf(up) * v
    BY <1>9 DEF p, q, k
  <1> QED
    BY <1>4, <1>6, <1>10, <1>11, <1>12 DEF n, r

\* One row of a product.
MulRow(rp, k, up, v) ==
    LET m == mpn_addmul_1(SubSeq(rp, k, Len(rp)), up, v)
    IN  SubSeq(rp, 1, k - 1) \o Append(m.r, m.cy)

IsRow(rp, n, w) == rp \in Seq(Limb) /\ Len(rp) = n /\ NatOf(rp) = w

LEMMA SumAppended ==
  ASSUME NEW t, NEW n \in Nat, NEW v, Sum(t, n, v), t.cy \in Limb
  PROVE  IsRow(Append(t.r, t.cy), n + 1, v)
  <1>1. t.r \in Seq(Limb) /\ Len(t.r) = n /\ NatOf(t.r) + Pow(B, n) * t.cy = v
    BY DEF Sum
  <1> DEFINE r == t.r
             c == t.cy
  <1>2. r \in Seq(Limb) /\ c \in Limb
    BY <1>1
  <1>3. Len(r) = n /\ NatOf(r) + Pow(B, n) * c = v
    BY <1>1
  <1> HIDE DEF r, c
  <1>4. /\ Append(r, c) \in Seq(Limb) /\ Len(Append(r, c)) = Len(r) + 1
        /\ NatOf(Append(r, c)) = NatOf(r) + Pow(B, Len(r)) * c
    BY <1>2, NatOfAppend
  <1>5. IsRow(Append(r, c), n + 1, v)
    BY <1>3, <1>4 DEF IsRow
  <1> QED
    BY <1>5 DEF r, c

LEMMA RowIs ==
  ASSUME NEW up \in Seq(Limb), NEW rp \in Seq(Limb), NEW k \in Nat \ {0}, NEW v \in Limb,
         NEW w \in Nat, NEW l, l = Len(up) + (k - 1), IsRow(rp, l, w)
  PROVE  IsRow(MulRow(rp, k, up, v), Len(up) + k, w + Pow(B, k - 1) * (NatOf(up) * v))
  <1> DEFINE n == Len(up)
             j == k - 1
             lo == SubSeq(rp, 1, j)
             hi == SubSeq(rp, j + 1, Len(rp))
             m == mpn_addmul_1(hi, up, v)
             z == NatOf(up) * v
             e == Append(m.r, m.cy)
  <1>1. n \in Nat /\ j \in Nat /\ j + 1 = k /\ Len(rp) = n + j /\ NatOf(rp) = w /\ NatOf(up) \in Nat /\ v \in Nat
    BY NatOfIs, LimbIs DEF IsRow
  <1>2. j \in 0 .. Len(rp) /\ Len(rp) - j = n
    BY <1>1
  <1>3. /\ lo \in Seq(Limb) /\ Len(lo) = j /\ hi \in Seq(Limb) /\ Len(hi) = n
        /\ NatOf(rp) = NatOf(lo) + Pow(B, j) * NatOf(hi)
    BY <1>2, NatOfPieces
  <1>4. MulRow(rp, k, up, v) = lo \o e
    BY <1>1 DEF MulRow
  <1>5. z \in Nat
    BY <1>1
  <1> HIDE DEF lo, hi, j
  <1>6. Sum(m, n, NatOf(hi) + z) /\ m.cy \in Limb
    <2>1. Len(up) <= Len(hi)
      BY <1>1, <1>3
    <2>2. Sum(m, n, Number(B, hi, n) + z) /\ m.cy \in Limb
      BY <1>3, <2>1, TimesLimbMore
    <2>3. Number(B, hi, n) = NatOf(hi)
      BY <1>3 DEF NatOf
    <2> QED
      BY <2>2, <2>3
  <1> HIDE DEF m, z
  <1>7. IsRow(e, n + 1, NatOf(hi) + z)
    BY <1>1, <1>6, SumAppended
  <1> HIDE DEF e
  <1>8. /\ lo \o e \in Seq(Limb) /\ Len(lo \o e) = Len(lo) + Len(e)
        /\ NatOf(lo \o e) = NatOf(lo) + Pow(B, Len(lo)) * NatOf(e)
    BY <1>3, <1>7, NatOfConcat DEF IsRow
  <1>9. Len(lo \o e) = n + k
    <2>1. Len(e) = n + 1
      BY <1>7 DEF IsRow
    <2> HIDE DEF n
    <2> QED
      BY ONLY <1>1, <1>3, <1>8, <2>1
  <1>10. NatOf(lo \o e) = w + Pow(B, j) * z
    <2> DEFINE p == Pow(B, j)
               a == NatOf(lo)
               b == NatOf(hi)
    <2>1. p \in Int /\ a \in Int /\ b \in Int /\ z \in Int
      BY <1>1, <1>3, <1>5, NatOfIs, LimbsAre, PowRec
    <2>2. NatOf(lo \o e) = a + p * (b + z) /\ w = a + p * b
      BY <1>1, <1>3, <1>7, <1>8 DEF IsRow
    <2> HIDE DEF p, a, b
    <2>3. NatOf(lo \o e) = w + p * z
      <3>1. p * (b + z) = p * b + p * z /\ p * b \in Int /\ p * z \in Int
        BY ONLY <2>1
      <3> QED
        BY <2>1, <2>2, <3>1
    <2> QED
      BY <2>3 DEF p
  <1> QED
    BY <1>4, <1>8, <1>9, <1>10 DEF IsRow, n, z, j

LEMMA NumberStep ==
  ASSUME NEW vp \in Seq(Limb), NEW k \in 1 .. Len(vp)
  PROVE  /\ vp[k] \in Limb /\ vp[k] \in Int /\ k \in Nat \ {0} /\ k - 1 \in Nat
         /\ Number(B, vp, k - 1) \in Int /\ Number(B, vp, k) \in Int /\ Pow(B, k - 1) \in Int
         /\ Number(B, vp, k) = Number(B, vp, k - 1) + vp[k] * Pow(B, k - 1)
  <1> DEFINE N == Len(vp)
  <1>1. N \in Nat /\ \A i \in 1 .. N : vp[i] \in Int
    BY NatOfIs
  <1>2. B \in Int
    BY LimbsAre
  <1>3. vp[k] \in Limb /\ vp[k] \in Int
    BY NatOfIs
  <1>4. k \in 1 .. N
    OBVIOUS
  <1> HIDE DEF N
  <1>5. k \in Nat \ {0} /\ k - 1 \in Nat /\ k - 1 \in 0 .. N /\ k \in 0 .. N
    BY ONLY <1>1, <1>4
  <1>6. /\ \A i \in 0 .. N : Number(B, vp, i) \in Int
        /\ \A i \in 1 .. N : Number(B, vp, i) = Number(B, vp, i - 1) + vp[i] * Pow(B, i - 1)
    BY ONLY <1>1, <1>2, NumberRec
  <1>7. Pow(B, k - 1) \in Int
    BY ONLY <1>2, <1>5, PowRec
  <1> QED
    BY ONLY <1>3, <1>4, <1>5, <1>6, <1>7

LEMMA NumberFirst ==
  ASSUME NEW vp \in Seq(Limb), vp # <<>>
  PROVE  Number(B, vp, 1) = vp[1] /\ vp[1] \in Limb /\ Len(vp) \in Nat \ {0}
  <1>1. Len(vp) \in Nat \ {0}
    BY EmptySeq
  <1>2. 1 \in 1 .. Len(vp)
    BY <1>1
  <1>3. /\ vp[1] \in Limb /\ vp[1] \in Int
        /\ Number(B, vp, 1) = Number(B, vp, 1 - 1) + vp[1] * Pow(B, 1 - 1)
    BY ONLY <1>2, vp \in Seq(Limb), NumberStep
  <1>4. 1 - 1 = 0 /\ B \in Int
    BY LimbsAre
  <1>5. Pow(B, 0) = 1
    BY <1>4, PowRec
  <1>6. Number(B, vp, 0) = 0
    BY ONLY <1>4, <1>1, vp \in Seq(Limb), NatOfIs, NumberRec DEF Ints
  <1> QED
    BY ONLY <1>1, <1>3, <1>4, <1>5, <1>6

\* mpn_mul multiplies numbers of any length: no carry is lost, from limb to limb
\* or from row to row.
THEOREM MulIs ==
  ASSUME NEW up \in Seq(Limb), NEW vp \in Seq(Limb), vp # <<>>
  PROVE  IsRow(mpn_mul(up, vp), Len(up) + Len(vp), NatOf(up) * NatOf(vp))
  <1> DEFINE N == Len(vp)
             n == Len(up)
             U == NatOf(up)
             m1 == mpn_mul_1(up, vp[1])
             start == Append(m1.r, m1.cy)
             Step(k, rp) == MulRow(rp, k, up, vp[k])
             Def(p) == p = [k \in 1 .. N |-> IF k = 1 THEN start ELSE Step(k, p[k - 1])]
             P == CHOOSE p : Def(p)
             D == Seq(Limb)
             Q(k) == IsRow(P[k], n + k, U * Number(B, vp, k))
  <1>1. N \in Nat \ {0} /\ n \in Nat /\ U \in Nat /\ Ints(vp, N) /\ \A k \in 1 .. N : vp[k] \in Limb
    BY NatOfIs, EmptySeq
  <1>2. mpn_mul(up, vp) = P[N]
    BY DEF mpn_mul, MulRow
  <1>3. IsRow(start, n + 1, U * vp[1])
    <2>1. vp[1] \in Limb
      BY <1>1
    <2>2. Sum(m1, n, U * vp[1]) /\ m1.cy \in Limb
      BY <2>1, TimesLimb
    <2> HIDE DEF m1, n, U
    <2> QED
      BY <1>1, <2>2, SumAppended
  <1> HIDE DEF start
  <1>4. ASSUME NEW k \in 1 .. N, k # 1, NEW rp, IsRow(rp, n + (k - 1), U * Number(B, vp, k - 1))
        PROVE  IsRow(Step(k, rp), n + k, U * Number(B, vp, k))
    <2>1. k \in Nat \ {0} /\ vp[k] \in Limb /\ k - 1 \in 0 .. N /\ rp \in Seq(Limb)
      BY <1>1, <1>4 DEF IsRow
    <2>2. /\ Number(B, vp, k - 1) \in Int /\ vp[k] \in Int /\ Pow(B, k - 1) \in Int
          /\ Number(B, vp, k) = Number(B, vp, k - 1) + vp[k] * Pow(B, k - 1)
      BY ONLY k \in 1 .. Len(vp), vp \in Seq(Limb), NumberStep
    <2> DEFINE w == U * Number(B, vp, k - 1)
               l == n + (k - 1)
    <2>3. w \in Nat
      <3>1. NatOf(rp) = w
        BY <1>4 DEF IsRow
      <3> QED
        BY <2>1, <3>1, NatOfIs
    <2>4. IsRow(rp, l, w) /\ l = Len(up) + (k - 1)
      BY <1>4
    <2> HIDE DEF w, l
    <2>5. IsRow(MulRow(rp, k, up, vp[k]), n + k, w + Pow(B, k - 1) * (U * vp[k]))
      BY <2>1, <2>3, <2>4, RowIs
    <2>6. w + Pow(B, k - 1) * (U * vp[k]) = U * Number(B, vp, k)
      <3> DEFINE p == Pow(B, k - 1)
                 v == vp[k]
                 x0 == Number(B, vp, k - 1)
      <3>1. p \in Int /\ v \in Int /\ x0 \in Int /\ U \in Int
        BY <1>1, <2>2
      <3>2. Number(B, vp, k) = x0 + v * p /\ w = U * x0
        BY <2>2 DEF w
      <3> HIDE DEF p, v, x0, U
      <3>3. U * (x0 + v * p) = U * x0 + p * (U * v)
        BY ONLY <3>1
      <3> QED
        BY <3>2, <3>3 DEF p, v, U
    <2> QED
      BY <2>5, <2>6
  <1> HIDE DEF Step, U, n
  <1>5. Def(P)
    <2> DEFINE g == [q \in (1 .. N) \X D |-> IF Step(q[1] + 1, q[2]) \in D THEN Step(q[1] + 1, q[2]) ELSE <<>>]
               M == N - 1
    <2>1. g \in [(1 .. N) \X D -> D] /\ start \in D
      BY <1>3 DEF IsRow
    <2>2. PICK f \in [0 .. N -> D] : Steps(f, N, start, g)
      <3> HIDE DEF g, D
      <3> QED
        BY <1>1, <2>1, StepsExist
    <2>3. f[0] = start /\ \A i \in 1 .. N : f[i] = g[<<i, f[i - 1]>>]
      BY <2>2 DEF Steps
    <2> DEFINE S == {i \in Nat : i < N => IsRow(f[i], n + (i + 1), U * Number(B, vp, i + 1))}
    <2>4. \A i \in Nat : i \in S
      <3>1. 0 \in S
        <4>1. Number(B, vp, 1) = vp[1]
          BY NumberFirst
        <4>2. 0 + 1 = 1
          OBVIOUS
        <4> QED
          BY <1>3, <2>3, <4>1, <4>2
      <3>2. ASSUME NEW i \in Nat, i \in S PROVE i + 1 \in S
        <4>1. SUFFICES ASSUME i + 1 < N PROVE IsRow(f[i + 1], n + ((i + 1) + 1), U * Number(B, vp, (i + 1) + 1))
          OBVIOUS
        <4> DEFINE k == (i + 1) + 1
        <4>2. /\ i < N /\ i + 1 \in 1 .. N /\ (i + 1) - 1 = i /\ k \in 1 .. N /\ k # 1
              /\ k - 1 = i + 1 /\ i \in 0 .. N
          BY <1>1, <4>1
        <4>3. IsRow(f[i], n + (k - 1), U * Number(B, vp, k - 1))
          BY <3>2, <4>2
        <4> HIDE DEF k
        <4>4. IsRow(Step(k, f[i]), n + k, U * Number(B, vp, k))
          BY <1>4, <4>2, <4>3
        <4>5. f[i + 1] = Step(k, f[i])
          <5>1. f[i] \in D /\ f[i + 1] = g[<<i + 1, f[i]>>]
            BY <2>3, <4>2
          <5>2. <<i + 1, f[i]>> \in (1 .. N) \X D
            BY <4>2, <5>1
          <5>3. Step(k, f[i]) \in D
            BY <4>4 DEF IsRow
          <5> QED
            BY <5>1, <5>2, <5>3 DEF k
        <4> QED
          BY <4>4, <4>5 DEF k
      <3> HIDE DEF S
      <3> QED
        BY <3>1, <3>2, Induction
    <2>5. ASSUME NEW k \in 1 .. N, k # 1 PROVE f[k - 1] = Step(k, f[k - 2])
      <3> DEFINE i == k - 2
      <3>1. i \in Nat /\ i < N /\ i + 1 = k - 1 /\ i + 1 \in 1 .. N /\ (i + 1) - 1 = i /\ i \in 0 .. N /\ (i + 1) + 1 = k
        BY <1>1, <2>5
      <3>2. i \in S
        BY <2>4, <3>1
      <3>3. IsRow(f[i], n + (k - 1), U * Number(B, vp, k - 1))
        BY <3>1, <3>2
      <3> HIDE DEF i, S
      <3>4. IsRow(Step(k, f[i]), n + k, U * Number(B, vp, k))
        BY <1>4, <2>5, <3>3
      <3>5. f[i] \in D /\ f[i + 1] = g[<<i + 1, f[i]>>] /\ <<i + 1, f[i]>> \in (1 .. N) \X D
        BY <2>3, <3>1
      <3>6. Step(k, f[i]) \in D
        BY <3>4 DEF IsRow
      <3>7. f[i + 1] = Step(k, f[i])
        BY <3>1, <3>5, <3>6
      <3> QED
        BY <3>1, <3>7 DEF i
    <2> DEFINE h == [k \in 1 .. N |-> f[k - 1]]
    <2>6. Def(h)
      <3>1. ASSUME NEW k \in 1 .. N PROVE h[k] = IF k = 1 THEN start ELSE Step(k, h[k - 1])
        <4>1. CASE k = 1
          BY <2>3, <4>1
        <4>2. CASE k # 1
          <5>1. k - 1 \in 1 .. N /\ (k - 1) - 1 = k - 2
            BY <1>1, <4>2
          <5> QED
            BY <2>5, <4>2, <5>1
        <4> QED
          BY <4>1, <4>2
      <3>2. h = [k \in 1 .. N |-> h[k]]
        OBVIOUS
      <3> HIDE DEF h
      <3> QED
        BY <3>1, <3>2
    <2> HIDE DEF Def, h
    <2> QED
      BY <2>6
  <1> HIDE DEF P
  <1>6. P[1] = start /\ \A k \in 1 .. N : k # 1 => P[k] = Step(k, P[k - 1])
    <2>1. 1 \in 1 .. N
      BY <1>1
    <2> QED
      BY <1>5, <2>1
  <1> DEFINE S == {i \in Nat : i < N => Q(i + 1)}
  <1>7. \A i \in Nat : i \in S
    <2>1. 0 \in S
      <3>1. Number(B, vp, 1) = vp[1]
        BY NumberFirst
      <3>2. 0 + 1 = 1
        OBVIOUS
      <3> QED
        BY <1>3, <1>6, <3>1, <3>2
    <2>2. ASSUME NEW i \in Nat, i \in S PROVE i + 1 \in S
      <3>1. SUFFICES ASSUME i + 1 < N PROVE Q((i + 1) + 1)
        OBVIOUS
      <3> DEFINE k == (i + 1) + 1
      <3>2. i < N /\ k \in 1 .. N /\ k # 1 /\ k - 1 = i + 1
        BY <1>1, <3>1
      <3>3. Q(k - 1)
        BY <2>2, <3>2
      <3> HIDE DEF k
      <3>4. Q(k)
        BY <1>4, <1>6, <3>2, <3>3
      <3> QED
        BY <3>4 DEF k
    <2> HIDE DEF S
    <2> QED
      BY <2>1, <2>2, Induction
  <1>8. Q(N)
    <2>1. N - 1 \in Nat /\ N - 1 < N /\ (N - 1) + 1 = N
      BY <1>1
    <2> QED
      BY <1>7, <2>1
  <1> QED
    BY <1>2, <1>8 DEF U, n, NatOf

LEMMA TopOfProduct ==
  ASSUME NEW d \in Seq(Limb), NEW e \in Seq(Limb), Trimmed(d), Trimmed(e), d # <<>>, e # <<>>
  PROVE  /\ WithoutZero(mpn_mul(d, e)) \in Seq(Limb) /\ Trimmed(WithoutZero(mpn_mul(d, e)))
         /\ NatOf(WithoutZero(mpn_mul(d, e))) = NatOf(d) * NatOf(e)
  <1> DEFINE p == mpn_mul(d, e)
             m == Len(d)
             n == Len(e)
  <1>1. p \in Seq(Limb) /\ Len(p) = m + n /\ NatOf(p) = NatOf(d) * NatOf(e)
    BY MulIs DEF IsRow
  <1>2. /\ NatOf(d) >= Pow(B, m - 1) /\ m - 1 \in Nat /\ NatOf(d) \in Nat
        /\ NatOf(e) >= Pow(B, n - 1) /\ n - 1 \in Nat /\ NatOf(e) \in Nat
    BY TrimmedHas
  <1>3. m \in Nat /\ n \in Nat /\ B \in Int /\ B \in Nat \ {0}
    BY LimbsAre, NatOfIs
  <1> HIDE DEF m, n, p
  <1>4. Pow(B, m - 1) \in Nat /\ Pow(B, n - 1) \in Nat
    BY <1>2, <1>3, PowPositive
  <1>5. (m - 1) + (n - 1) = (m + n) - 2 /\ Pow(B, (m - 1) + (n - 1)) = Pow(B, m - 1) * Pow(B, n - 1)
    BY <1>2, <1>3, PowSum
  <1>6. NatOf(d) * NatOf(e) >= Pow(B, m - 1) * Pow(B, n - 1)
    <2> DEFINE a == NatOf(d)
               b == NatOf(e)
               s == Pow(B, m - 1)
               t == Pow(B, n - 1)
    <2>1. a \in Nat /\ b \in Nat /\ s \in Nat /\ t \in Nat /\ a >= s /\ b >= t
      BY <1>2, <1>4
    <2> HIDE DEF a, b, s, t
    <2>2. a * b >= s * t
      BY ONLY <2>1
    <2> QED
      BY <2>2 DEF a, b, s, t
  <1>7. p # <<>> /\ NatOf(p) >= Pow(B, Len(p) - 2)
    <2>1. m + n # 0
      BY <1>2, <1>3
    <2>2. p # <<>>
      BY <1>1, <2>1
    <2> QED
      BY <1>1, <1>5, <1>6, <2>2
  <1>8. WithoutZero(p) \in Seq(Limb) /\ NatOf(WithoutZero(p)) = NatOf(p) /\ Trimmed(WithoutZero(p))
    BY <1>1, <1>7, WithoutZeroKeeps
  <1> QED
    BY <1>1, <1>8 DEF p

LEMMA MpzMulIs ==
  ASSUME NEW u, NEW v, IsMpz(u), IsMpz(v)
  PROVE  Is(mpz_mul(u, v), IntOf(u) * IntOf(v))
  <1>1. /\ u.d \in Seq(Limb) /\ Trimmed(u.d) /\ NatOf(u.d) \in Nat /\ IntOf(u) \in Int /\ u.size \in Int
        /\ u.size < 0 => IntOf(u) = -NatOf(u.d)
        /\ u.size >= 0 => IntOf(u) = NatOf(u.d)
        /\ u.size = 0 <=> u.d = <<>>
        /\ u.size = 0 <=> IntOf(u) = 0
    BY PartsOf
  <1>2. /\ v.d \in Seq(Limb) /\ Trimmed(v.d) /\ NatOf(v.d) \in Nat /\ IntOf(v) \in Int /\ v.size \in Int
        /\ v.size < 0 => IntOf(v) = -NatOf(v.d)
        /\ v.size >= 0 => IntOf(v) = NatOf(v.d)
        /\ v.size = 0 <=> v.d = <<>>
        /\ v.size = 0 <=> IntOf(v) = 0
    BY PartsOf
  <1>3. CASE u.size = 0 \/ v.size = 0
    <2>1. mpz_mul(u, v) = mpz_init
      BY <1>3 DEF mpz_mul
    <2>2. IntOf(u) * IntOf(v) = 0
      BY <1>1, <1>2, <1>3
    <2> QED
      BY <2>1, <2>2, ZeroIsNumber DEF Is
  <1>4. CASE u.size # 0 /\ v.size # 0
    <2> DEFINE a == IF Len(u.d) >= Len(v.d) THEN u.d ELSE v.d
               b == IF Len(u.d) >= Len(v.d) THEN v.d ELSE u.d
               w == WithoutZero(mpn_mul(a, b))
               neg == ~SameSign(u, v)
    <2>1. mpz_mul(u, v) = Mpz(neg, w)
      BY <1>4 DEF mpz_mul
    <2>2. /\ a \in Seq(Limb) /\ b \in Seq(Limb) /\ Trimmed(a) /\ Trimmed(b) /\ a # <<>> /\ b # <<>>
          /\ NatOf(a) * NatOf(b) = NatOf(u.d) * NatOf(v.d)
      <3>1. NatOf(v.d) * NatOf(u.d) = NatOf(u.d) * NatOf(v.d)
        BY <1>1, <1>2
      <3> QED
        BY <1>1, <1>2, <1>4, <3>1
    <2> HIDE DEF a, b
    <2>3. w \in Seq(Limb) /\ Trimmed(w) /\ NatOf(w) = NatOf(u.d) * NatOf(v.d)
      BY <2>2, TopOfProduct
    <2> HIDE DEF w
    <2>4. Is(Mpz(FALSE, w), NatOf(w)) /\ Is(Mpz(TRUE, w), -NatOf(w))
      BY <2>3, NaturalIs
    <2>5. neg = ((u.size < 0) # (v.size < 0))
      BY DEF SameSign
    <2>6. IntOf(u) * IntOf(v) = IF neg THEN -NatOf(w) ELSE NatOf(w)
      <3> DEFINE i == IntOf(u)
                 j == IntOf(v)
                 p == NatOf(u.d)
                 q == NatOf(v.d)
                 s == u.size
                 t == v.size
      <3>1. /\ i \in Int /\ j \in Int /\ p \in Int /\ q \in Int /\ s \in Int /\ t \in Int
            /\ (s < 0 => i = -p) /\ (s >= 0 => i = p) /\ (t < 0 => j = -q) /\ (t >= 0 => j = q)
        BY <1>1, <1>2
      <3>2. neg = ((s < 0) # (t < 0)) /\ NatOf(w) = p * q
        BY <2>3, <2>5
      <3> HIDE DEF i, j, p, q, s, t, neg
      <3>3. i * j = IF ((s < 0) # (t < 0)) THEN -(p * q) ELSE p * q
        <4>1. CASE s < 0 /\ t < 0
          BY ONLY <3>1, <4>1
        <4>2. CASE s < 0 /\ t >= 0
          BY ONLY <3>1, <4>2
        <4>3. CASE s >= 0 /\ t < 0
          BY ONLY <3>1, <4>3
        <4>4. CASE s >= 0 /\ t >= 0
          BY ONLY <3>1, <4>4
        <4> QED
          BY <3>1, <4>1, <4>2, <4>3, <4>4
      <3> QED
        BY <3>2, <3>3 DEF i, j
    <2> HIDE DEF neg
    <2>7. neg \in BOOLEAN
      BY <2>5
    <2> QED
      BY <2>1, <2>4, <2>6, <2>7
  <1> QED
    BY <1>3, <1>4

LEMMA TimesIs ==
  ASSUME NEW a, NEW b, IsValue(a), IsValue(b)
  PROVE  Exactly(idris_bigTimes(a, b), Value(a) * Value(b))
  <1>1. Value(a) \in Int /\ Value(b) \in Int /\ Value(a) * Value(b) \in Int
    BY ValueIs
  <1>2. IsMpz(getbig(a)) /\ IntOf(getbig(a)) = Value(a) /\ IsMpz(getbig(b)) /\ IntOf(getbig(b)) = Value(b)
    BY ValueIs
  <1>3. Is(mpz_mul(getbig(a), getbig(b)), Value(a) * Value(b))
    BY <1>2, MpzMulIs
  <1>4. Exactly(bigMul(a, b), Value(a) * Value(b))
    BY <1>3, BigNumber, BigExactly DEF bigMul
  <1>5. BothFix(a, b) => a.n = Value(a) /\ b.n = Value(b)
    BY ValueIs DEF BothFix
  <1>6. Exactly(Fix(Value(a) * Value(b)), Value(a) * Value(b))
    BY <1>1, FixExactly
  <1> QED
    BY <1>4, <1>5, <1>6 DEF idris_bigTimes

----------------------------------------------------------------------------
(* Bitwise operations on two's complements: mpz_and and mpz_ior.           *)

\* From bit m on, the operator gives the same bit everywhere.
Beyond(ones, a, b, m, p) ==
    \A i \in Nat : i >= m => (<<BitAt(a, i), BitAt(b, i)>> \in ones <=> p)

\* The signed number that has the bits below m and, from there on, p.
Stable(ones, m, a, b, p) == BitsWhere(ones, m, a, b) - IF p THEN Pow(2, m) ELSE 0

LEMMA StableBits ==
  ASSUME NEW ones, NEW a \in Int, NEW b \in Int, NEW m \in Nat, NEW p \in BOOLEAN,
         Beyond(ones, a, b, m, p), NEW n \in Nat, m <= n
  PROVE  Stable(ones, n, a, b, p) = Stable(ones, m, a, b, p) /\ Stable(ones, m, a, b, p) \in Int
  <1> DEFINE S == {k \in Nat : Stable(ones, m + k, a, b, p) = Stable(ones, m, a, b, p)}
  <1>1. 0 \in S
    <2>1. m + 0 = m
      OBVIOUS
    <2> QED
      BY <2>1
  <1>2. ASSUME NEW k \in Nat, k \in S PROVE k + 1 \in S
    <2> DEFINE i == m + k
               w == BitsWhere(ones, i, a, b)
               v == BitsWhere(ones, i + 1, a, b)
               t == Pow(2, i)
               u == Pow(2, i + 1)
    <2>1. i \in Nat /\ i >= m /\ m + (k + 1) = i + 1
      OBVIOUS
    <2>2. /\ w \in Int
          /\ <<BitAt(a, i), BitAt(b, i)>> \in ones => v = w + t
          /\ <<BitAt(a, i), BitAt(b, i)>> \notin ones => v = w
      <3>1. BitSteps(ones, a, b)
        BY BitsRec
      <3> QED
        BY ONLY <2>1, <3>1 DEF BitSteps
    <2>3. t \in Nat /\ u = 2 * t
      BY <2>1, TwoPow
    <2>4. <<BitAt(a, i), BitAt(b, i)>> \in ones <=> p
      BY <2>1 DEF Beyond
    <2>5. Stable(ones, i + 1, a, b, p) = v - (IF p THEN u ELSE 0)
          /\ Stable(ones, i, a, b, p) = w - (IF p THEN t ELSE 0)
      BY DEF Stable
    <2>6. Stable(ones, i, a, b, p) = Stable(ones, m, a, b, p)
      BY <1>2
    <2>7. v - (IF p THEN u ELSE 0) = w - (IF p THEN t ELSE 0)
      <3> HIDE DEF v, w, t, u, i
      <3> QED
        BY <2>2, <2>3, <2>4
    <2>8. Stable(ones, i + 1, a, b, p) = Stable(ones, m, a, b, p)
      BY <2>5, <2>6, <2>7
    <2> QED
      BY <2>1, <2>8
  <1> HIDE DEF S
  <1>3. n - m \in S
    <2>1. n - m \in Nat
      OBVIOUS
    <2> QED
      BY <1>1, <1>2, <2>1, Induction
  <1>4. m + (n - m) = n
    OBVIOUS
  <1>5. Stable(ones, m, a, b, p) \in Int
    <2>1. BitsWhere(ones, m, a, b) \in Int
      BY BitsRec DEF BitSteps
    <2>2. Pow(2, m) \in Int
      BY TwoPow
    <2> QED
      BY <2>1, <2>2 DEF Stable
  <1> QED
    BY <1>3, <1>4, <1>5 DEF S

\* Beyond its length a number has the bits of its sign.
LEMMA SignBits ==
  ASSUME NEW a \in Int, NEW m \in Nat, NEW i \in Nat, m <= i, -Pow(2, m) <= a, a < Pow(2, m)
  PROVE  BitAt(a, i) = IF a < 0 THEN 1 ELSE 0
  <1> DEFINE t == Pow(2, i)
  <1>1. Pow(2, m) <= t /\ t \in Nat \ {0} /\ Pow(2, m) \in Int
    <2>1. 2 \in Nat \ {0}
      OBVIOUS
    <2>2. Pow(2, m) <= Pow(2, i)
      BY ONLY <2>1, m \in Nat, i \in Nat, m <= i, PowGrows
    <2> QED
      BY <2>2, TwoPow
  <1>2. BitAt(a, i) = (a \div t) % 2
    BY DEF BitAt
  <1> HIDE DEF t
  <1>3. CASE a < 0
    <2>1. a = t * (-1) + (a + t) /\ a + t \in 0 .. t - 1 /\ -1 \in Int
      BY <1>1, <1>3
    <2>2. (t * (-1) + (a + t)) \div t = -1
      <3> DEFINE r == a + t
                 k == -1
      <3>1. r \in 0 .. t - 1 /\ k \in Int
        BY <2>1
      <3> HIDE DEF r, k
      <3>2. (t * k + r) \div t = k
        BY <1>1, <3>1, DivModUnique
      <3> QED
        BY <3>2 DEF r, k
    <2>3. (-1) % 2 = 1
      <3> DEFINE k == -1
      <3>1. 2 \in Nat \ {0} /\ k \in Int /\ 1 \in 0 .. 2 - 1 /\ 2 * k + 1 = -1
        OBVIOUS
      <3> HIDE DEF k
      <3>2. (2 * k + 1) % 2 = 1
        BY ONLY <3>1, DivModUnique
      <3> QED
        BY <3>1, <3>2
    <2> QED
      BY <1>2, <1>3, <2>1, <2>2, <2>3
  <1>4. CASE ~(a < 0)
    <2>1. a \in 0 .. t - 1
      BY <1>1, <1>4
    <2>2. a \div t = 0
      BY <1>1, <2>1, ModSmall
    <2> QED
      BY <1>2, <1>4, <2>2
  <1> QED
    BY <1>3, <1>4

LEMMA TwoSum ==
  ASSUME NEW m \in Nat, NEW k \in Nat
  PROVE  Pow(2, m + k) = Pow(2, m) * Pow(2, k) /\ Pow(2, m) \in Nat \ {0} /\ Pow(2, k) \in Nat \ {0}
  <1>1. Pow(2, m) \in Nat \ {0}
    BY TwoPow
  <1>2. Pow(2, k) \in Nat \ {0}
    BY TwoPow
  <1>3. 2 \in Int
    OBVIOUS
  <1>4. Pow(2, m + k) = Pow(2, m) * Pow(2, k)
    BY ONLY <1>3, m \in Nat, k \in Nat, PowSum
  <1> QED
    BY <1>1, <1>2, <1>4

\* The bits of two numbers that are put together of parts.
LEMMA BitAbove ==
  ASSUME NEW m \in Nat, NEW k \in Nat, NEW a \in 0 .. Pow(2, m) - 1, NEW b \in Int
  PROVE  BitAt(a + Pow(2, m) * b, m + k) = BitAt(b, k)
  <1> DEFINE s == Pow(2, m)
             t == Pow(2, k)
             q == b \div t
             r == b % t
  <1>1. s \in Nat \ {0} /\ t \in Nat \ {0} /\ Pow(2, m + k) = s * t
    BY TwoSum
  <1>2. q \in Int /\ r \in 0 .. t - 1 /\ b = t * q + r
    <2> HIDE DEF t
    <2> QED
      BY <1>1, DivMod
  <1>3. a \in 0 .. s - 1
    OBVIOUS
  <1> HIDE DEF s, t, q, r
  <1>4. a + s * r \in 0 .. s * t - 1 /\ a + s * b = (s * t) * q + (a + s * r)
    <2>1. s * r <= s * (t - 1) /\ s * (t - 1) = s * t - s /\ s * r \in Nat /\ s * t \in Nat
      BY ONLY <1>1, <1>2
    <2>2. a + s * r \in 0 .. s * t - 1
      BY <1>1, <1>3, <2>1
    <2>3. s * (t * q + r) = (s * t) * q + s * r /\ s * r \in Int /\ (s * t) * q \in Int
      BY ONLY <1>1, <1>2
    <2> QED
      BY <1>2, <1>3, <2>2, <2>3
  <1>5. ((s * t) * q + (a + s * r)) \div (s * t) = q
    <2> DEFINE n == s * t
               l == a + s * r
    <2>1. n \in Nat \ {0}
      BY ONLY <1>1
    <2>2. l \in 0 .. n - 1
      BY <1>4
    <2> HIDE DEF n, l
    <2>3. (n * q + l) \div n = q
      BY ONLY <1>2, <2>1, <2>2, DivModUnique
    <2> QED
      BY <2>3 DEF n, l
  <1>6. (a + s * b) \div Pow(2, m + k) = q
    BY <1>1, <1>4, <1>5
  <1> QED
    BY <1>6 DEF BitAt, s, q, t

LEMMA BitsJoined ==
  ASSUME NEW ones, NEW m \in Nat, NEW n \in Nat, NEW a \in 0 .. Pow(2, m) - 1, NEW b \in Int,
         NEW c \in 0 .. Pow(2, m) - 1, NEW d \in Int
  PROVE  BitsWhere(ones, m + n, a + Pow(2, m) * b, c + Pow(2, m) * d)
         = BitsWhere(ones, m, a, c) + Pow(2, m) * BitsWhere(ones, n, b, d)
  <1> DEFINE s == Pow(2, m)
             u == a + s * b
             v == c + s * d
             W(k) == BitsWhere(ones, m + k, u, v)
             V(k) == BitsWhere(ones, k, b, d)
             S == {k \in Nat : W(k) = BitsWhere(ones, m, a, c) + s * V(k)}
  <1>1. s \in Nat \ {0} /\ a \in Int /\ c \in Int
    BY TwoPow
  <1>2. u \in Int /\ v \in Int
    <2> HIDE DEF s
    <2> QED
      BY <1>1
  <1>3. BitsWhere(ones, m, a, c) \in Int
    BY <1>1, BitsRec DEF BitSteps
  <1>4. W(0) = BitsWhere(ones, m, a, c)
    <2>1. Same(s, u, a) /\ Same(s, v, c)
      <3> HIDE DEF s
      <3>1. u = a + s * b /\ v = c + s * d
        OBVIOUS
      <3> QED
        BY <3>1 DEF Same
    <2> HIDE DEF u, v
    <2>2. Cut(m, BitsWhere(ones, m, u, v)) = BitsWhere(ones, m, a, c)
      <3>1. m <= m
        OBVIOUS
      <3> QED
        BY ONLY <1>1, <1>2, <2>1, <3>1, m \in Nat, SameBits
    <2>3. Cut(m, BitsWhere(ones, m, u, v)) = BitsWhere(ones, m, u, v)
      <3>1. BitsWhere(ones, m, u, v) \in Word(m)
        BY <1>2, BitsAreWord
      <3> QED
        BY <3>1, CutWord
    <2>4. m + 0 = m
      OBVIOUS
    <2> QED
      BY <2>2, <2>3, <2>4
  <1>5. V(0) = 0 /\ \A k \in Nat : V(k) \in Int
    BY BitsRec DEF BitSteps
  <1>6. 0 \in S
    <2> HIDE DEF W, V, s
    <2> QED
      BY <1>1, <1>3, <1>4, <1>5
  <1>7. ASSUME NEW k \in Nat, k \in S PROVE k + 1 \in S
    <2> DEFINE i == m + k
               in == <<BitAt(b, k), BitAt(d, k)>> \in ones
               t == Pow(2, k)
    <2>1. i \in Nat /\ m + (k + 1) = i + 1
      OBVIOUS
    <2>2. BitAt(u, i) = BitAt(b, k) /\ BitAt(v, i) = BitAt(d, k)
      BY BitAbove
    <2>3. Pow(2, i) = s * t /\ t \in Nat
      BY TwoSum
    <2> HIDE DEF u, v
    <2>4. /\ in => W(k + 1) = W(k) + s * t
          /\ ~in => W(k + 1) = W(k)
      <3>1. BitSteps(ones, u, v)
        BY <1>2, BitsRec
      <3>2. /\ <<BitAt(u, i), BitAt(v, i)>> \in ones => BitsWhere(ones, i + 1, u, v) = BitsWhere(ones, i, u, v) + Pow(2, i)
            /\ <<BitAt(u, i), BitAt(v, i)>> \notin ones => BitsWhere(ones, i + 1, u, v) = BitsWhere(ones, i, u, v)
        BY <2>1, <3>1 DEF BitSteps
      <3> QED
        BY <2>1, <2>2, <2>3, <3>2
    <2>5. /\ in => V(k + 1) = V(k) + t
          /\ ~in => V(k + 1) = V(k)
      BY BitsRec DEF BitSteps
    <2>6. W(k) = BitsWhere(ones, m, a, c) + s * V(k) /\ V(k) \in Int
      BY <1>5, <1>7
    <2>7. W(k + 1) = BitsWhere(ones, m, a, c) + s * V(k + 1)
      <3> DEFINE z == BitsWhere(ones, m, a, c)
                 w0 == W(k)
                 w1 == W(k + 1)
                 v0 == V(k)
                 v1 == V(k + 1)
      <3>1. /\ z \in Int /\ v0 \in Int /\ w0 = z + s * v0
            /\ (in => w1 = w0 + s * t /\ v1 = v0 + t) /\ (~in => w1 = w0 /\ v1 = v0)
        BY <1>3, <2>4, <2>5, <2>6
      <3> HIDE DEF in, z, w0, w1, v0, v1, s, t
      <3>2. s * (v0 + t) = s * v0 + s * t /\ s * v0 \in Int /\ s * t \in Int
        BY ONLY <1>1, <2>3, <3>1
      <3>3. w1 = z + s * v1
        BY <3>1, <3>2
      <3> QED
        BY <3>3 DEF z, w1, v1
    <2> QED
      BY <2>7
  <1> HIDE DEF S
  <1>8. n \in S
    BY <1>6, <1>7, Induction
  <1> QED
    BY <1>8 DEF S

\* Limb by limb, the operator acts on the numbers.
BitwiseLimbs(ones, f, d, e, n) ==
    \A i \in 1 .. n : d[i] \in Limb /\ e[i] \in Limb /\ f[i] = BitsWhere(ones, LimbBits, d[i], e[i])

LEMMA BitsOfLimbs ==
  ASSUME NEW ones, NEW n \in Nat, NEW f, NEW d, NEW e, BitwiseLimbs(ones, f, d, e, n)
  PROVE  /\ \A i \in 1 .. n : f[i] \in Limb
         /\ Number(B, f, n) = BitsWhere(ones, LimbBits * n, Number(B, d, n), Number(B, e, n))
  <1>1. B \in Nat \ {0} /\ B \in Int /\ LimbBits \in Nat /\ B = Pow(2, LimbBits) /\ Limb = 0 .. B - 1
    BY LimbsAre
  <1> HIDE DEF LimbBits, Limb
  <1>2. ASSUME NEW i \in 1 .. n
        PROVE  /\ d[i] \in Limb /\ e[i] \in Limb /\ f[i] = BitsWhere(ones, LimbBits, d[i], e[i])
               /\ d[i] \in Int /\ e[i] \in Int
    BY <1>1 DEF BitwiseLimbs
  <1>3. ASSUME NEW i \in 1 .. n PROVE f[i] \in Limb /\ f[i] \in Int
    <2>1. BitsWhere(ones, LimbBits, d[i], e[i]) \in Word(LimbBits)
      BY <1>1, <1>2, BitsAreWord
    <2> QED
      BY <1>1, <1>2, <2>1 DEF Word
  <1> DEFINE D(i) == Number(B, d, i)
             E(i) == Number(B, e, i)
             F(i) == Number(B, f, i)
             S == {i \in Nat : i <= n => F(i) = BitsWhere(ones, LimbBits * i, D(i), E(i))}
  <1>4. /\ D(0) = 0 /\ (\A i \in 0 .. n : D(i) \in Int)
        /\ \A i \in 1 .. n : D(i) = D(i - 1) + d[i] * Pow(B, i - 1)
    <2>1. \A i \in 1 .. n : d[i] \in Int
      BY <1>2
    <2> QED
      BY ONLY <1>1, <2>1, n \in Nat, NumberRec
  <1>5. /\ E(0) = 0 /\ (\A i \in 0 .. n : E(i) \in Int)
        /\ \A i \in 1 .. n : E(i) = E(i - 1) + e[i] * Pow(B, i - 1)
    <2>1. \A i \in 1 .. n : e[i] \in Int
      BY <1>2
    <2> QED
      BY ONLY <1>1, <2>1, n \in Nat, NumberRec
  <1>6. /\ F(0) = 0 /\ (\A i \in 0 .. n : F(i) \in Int)
        /\ \A i \in 1 .. n : F(i) = F(i - 1) + f[i] * Pow(B, i - 1)
    <2>1. \A i \in 1 .. n : f[i] \in Int
      BY <1>3
    <2> QED
      BY ONLY <1>1, <2>1, n \in Nat, NumberRec
  <1>7. ASSUME NEW i \in Nat, i <= n PROVE D(i) \in 0 .. Pow(B, i) - 1 /\ E(i) \in 0 .. Pow(B, i) - 1
    <2>1. IsDigits(B, d, i) /\ IsDigits(B, e, i)
      <3>1. ASSUME NEW j \in 1 .. i PROVE d[j] \in 0 .. B - 1 /\ e[j] \in 0 .. B - 1
        <4>1. j \in 1 .. n
          BY <1>7
        <4> QED
          BY <1>1, <1>2, <4>1
      <3> QED
        BY <3>1 DEF IsDigits
    <2> QED
      BY <1>1, <2>1, NumberBounds
  <1> HIDE DEF D, E, F
  <1>8. \A i \in Nat : i \in S
    <2>1. 0 \in S
      <3>1. LimbBits * 0 = 0
        BY <1>1
      <3>2. BitsWhere(ones, 0, 0, 0) = 0
        BY BitsRec DEF BitSteps
      <3> QED
        BY <1>4, <1>5, <1>6, <3>1, <3>2
    <2>2. ASSUME NEW i \in Nat, i \in S PROVE i + 1 \in S
      <3>1. SUFFICES ASSUME i + 1 <= n
                     PROVE F(i + 1) = BitsWhere(ones, LimbBits * (i + 1), D(i + 1), E(i + 1))
        OBVIOUS
      <3> DEFINE k == i + 1
                 m == LimbBits * i
      <3>2. i <= n /\ k \in 1 .. n /\ k - 1 = i /\ i \in 0 .. n
        BY <3>1
      <3>3. F(i) = BitsWhere(ones, m, D(i), E(i))
        BY <2>2, <3>2
      <3>4. m \in Nat /\ LimbBits * k = m + LimbBits /\ Pow(2, m) = Pow(B, i)
        <4>1. Pow(2, LimbBits * i) = Pow(Pow(2, LimbBits), i)
          BY <1>1, PowProduct
        <4> QED
          BY <1>1, <4>1
      <3>5. /\ D(k) = D(i) + d[k] * Pow(B, i)
            /\ E(k) = E(i) + e[k] * Pow(B, i)
            /\ F(k) = F(i) + f[k] * Pow(B, i)
        BY <1>4, <1>5, <1>6, <3>2
      <3>6. d[k] \in Int /\ e[k] \in Int /\ f[k] \in Int /\ f[k] = BitsWhere(ones, LimbBits, d[k], e[k])
            /\ D(i) \in 0 .. Pow(2, m) - 1 /\ E(i) \in 0 .. Pow(2, m) - 1 /\ F(i) \in Int /\ Pow(B, i) \in Int
        <4>1. Pow(B, i) \in Int
          BY <1>1, PowRec
        <4> QED
          BY <1>2, <1>3, <1>6, <1>7, <3>2, <3>4, <4>1
      <3> DEFINE a == D(i)
                 b == d[k]
                 c == E(i)
                 g == e[k]
                 t == Pow(2, m)
      <3>7. a \in 0 .. t - 1 /\ b \in Int /\ c \in 0 .. t - 1 /\ g \in Int /\ m \in Nat /\ LimbBits \in Nat /\ t \in Int
        BY <1>1, <3>4, <3>6
      <3> HIDE DEF a, b, c, g, m
      <3>8. BitsWhere(ones, m + LimbBits, a + t * b, c + t * g)
            = BitsWhere(ones, m, a, c) + t * BitsWhere(ones, LimbBits, b, g)
        BY ONLY <3>7, BitsJoined
      <3>9. b * t = t * b /\ g * t = t * g
        <4> HIDE DEF t
        <4> QED
          BY ONLY <3>7
      <3>10. D(k) = a + t * b /\ E(k) = c + t * g
        BY <3>4, <3>5, <3>9 DEF a, b, c, g
      <3>11. F(k) = BitsWhere(ones, m, a, c) + t * BitsWhere(ones, LimbBits, b, g)
        <4>1. f[k] * t = t * f[k]
          <5> HIDE DEF t
          <5> QED
            BY <3>6, <3>7
        <4> QED
          BY <3>3, <3>4, <3>5, <3>6, <4>1 DEF a, b, c, g
      <3>12. F(k) = BitsWhere(ones, LimbBits * k, D(k), E(k))
        BY <3>4, <3>8, <3>10, <3>11
      <3> QED
        BY <3>12 DEF k
    <2> HIDE DEF S
    <2> QED
      BY <2>1, <2>2, Induction
  <1>9. n \in S
    BY <1>8
  <1>10. n <= n
    OBVIOUS
  <1> QED
    BY <1>3, <1>9, <1>10 DEF F, D, E

\* The number whose digits are all the largest.
LEMMA AllOnes ==
  ASSUME NEW n \in Nat, NEW d, \A i \in 1 .. n : d[i] = B - 1
  PROVE  Number(B, d, n) = Pow(B, n) - 1
  <1>1. B \in Int /\ B \in Nat \ {0} /\ B - 1 \in Int
    BY LimbsAre
  <1> DEFINE S == {i \in Nat : i <= n => Number(B, d, i) = Pow(B, i) - 1}
  <1>2. Number(B, d, 0) = 0 /\ \A i \in 1 .. n : Number(B, d, i) = Number(B, d, i - 1) + d[i] * Pow(B, i - 1)
    <2>1. \A i \in 1 .. n : d[i] \in Int
      BY <1>1
    <2> QED
      BY ONLY <1>1, <2>1, n \in Nat, NumberRec
  <1>3. Pow(B, 0) = 1 /\ \A i \in Nat : Pow(B, i + 1) = B * Pow(B, i) /\ Pow(B, i) \in Int
    BY <1>1, PowRec
  <1>4. 0 \in S
    BY <1>2, <1>3
  <1>5. ASSUME NEW i \in Nat, i \in S PROVE i + 1 \in S
    <2>1. SUFFICES ASSUME i + 1 <= n PROVE Number(B, d, i + 1) = Pow(B, i + 1) - 1
      OBVIOUS
    <2>2. i <= n /\ i + 1 \in 1 .. n /\ (i + 1) - 1 = i
      BY <2>1
    <2> DEFINE t == Pow(B, i)
    <2>3. Number(B, d, i) = t - 1
      BY <1>5, <2>2
    <2>4. Number(B, d, i + 1) = Number(B, d, i) + d[i + 1] * Pow(B, i)
      BY <1>2, <2>2
    <2>5. d[i + 1] = B - 1 /\ t \in Int /\ Pow(B, i + 1) = B * t
      BY <1>3, <2>2
    <2>6. (t - 1) + (B - 1) * t = B * t - 1
      <3> HIDE DEF t
      <3> QED
        BY <1>1, <2>5
    <2> QED
      BY <2>3, <2>4, <2>5, <2>6
  <1> HIDE DEF S
  <1>6. n \in S
    BY <1>4, <1>5, Induction
  <1>7. n <= n
    OBVIOUS
  <1> QED
    BY <1>6, <1>7 DEF S

Carries(b, d, t, c, n) ==
    /\ b \in Int /\ n \in Nat /\ Ints(d, n) /\ Ints(t, n)
    /\ \A i \in 0 .. n : c[i] \in Int
    /\ \A i \in 1 .. n : d[i] + b * c[i] = t[i] + c[i - 1]

LEMMA CarriedOut ==
  ASSUME NEW b, NEW d, NEW t, NEW c, NEW n, Carries(b, d, t, c, n)
  PROVE  Number(b, d, n) + Pow(b, n) * c[n] = Number(b, t, n) + c[0]
  BY NumberCarried DEF Carries

\* Two's complements, limb by limb with a carry.
TwosRun(l, c, x0, neg, n) ==
    /\ c[0] = Bit(neg) /\ neg \in BOOLEAN
    /\ \A i \in 1 .. n : x0[i] \in Limb /\ c[i - 1] \in {0, 1}
                         /\ l[i] = Twos(x0[i], neg, c[i - 1])[1] /\ c[i] = Twos(x0[i], neg, c[i - 1])[2]

LEMMA TwosStep ==
  ASSUME NEW a \in Limb, NEW neg \in BOOLEAN, NEW c \in {0, 1}
  PROVE  /\ Twos(a, neg, c) \in Limb \X {0, 1}
         /\ Twos(a, neg, c)[1] + B * Twos(a, neg, c)[2] = (IF neg THEN (B - 1) - a ELSE a) + c
  <1> DEFINE b == IF neg THEN Com(a) ELSE a
  <1>1. b \in Limb /\ c \in Limb /\ b = IF neg THEN (B - 1) - a ELSE a
    <2>1. a \in 0 .. B - 1 /\ B \in Nat \ {0} /\ B >= 4 /\ Limb = 0 .. B - 1
      BY LimbIs, LimbBase
    <2>2. b = IF neg THEN (B - 1) - a ELSE a
      BY <2>1 DEF Com
    <2> HIDE DEF b, Limb
    <2>3. b \in 0 .. B - 1 /\ c \in 0 .. B - 1
      BY <2>1, <2>2
    <2> QED
      BY <2>1, <2>2, <2>3
  <1>2. Twos(a, neg, c) = AddOne(b, c)
    BY DEF Twos, AddOne
  <1> HIDE DEF b
  <1>3. /\ AddOne(b, c) \in Limb \X Limb /\ AddOne(b, c)[2] \in {0, 1}
        /\ AddOne(b, c)[1] + B * AddOne(b, c)[2] = b + c
    BY <1>1, OneStep
  <1>4. AddOne(b, c) \in Limb \X {0, 1}
    BY <1>3
  <1> QED
    BY <1>1, <1>2, <1>3, <1>4

LEMMA TwosRunIs ==
  ASSUME NEW n \in Nat, NEW l, NEW c, NEW x0, NEW neg, TwosRun(l, c, x0, neg, n)
  PROVE  /\ \A i \in 1 .. n : l[i] \in Limb
         /\ c[n] \in {0, 1}
         /\ Number(B, l, n) + Pow(B, n) * c[n] = IF neg THEN Pow(B, n) - Number(B, x0, n) ELSE Number(B, x0, n)
  <1> DEFINE ones == [i \in 1 .. n |-> B - 1]
             u == [i \in 1 .. n |-> IF neg THEN (B - 1) - x0[i] ELSE x0[i]]
             k == Number(B, x0, n)
             t == Pow(B, n)
  <1>1. B \in Int /\ B - 1 \in Int /\ B \in Nat \ {0}
    BY LimbsAre
  <1>2. neg \in BOOLEAN /\ c[0] = Bit(neg) /\ c[0] \in {0, 1}
    BY DEF TwosRun, Bit
  <1>3. ASSUME NEW i \in 1 .. n
        PROVE  /\ x0[i] \in Int /\ l[i] \in Limb /\ c[i] \in {0, 1}
               /\ l[i] + B * c[i] = u[i] + c[i - 1] /\ u[i] \in Int
    <2>1. /\ x0[i] \in Limb /\ c[i - 1] \in {0, 1}
          /\ l[i] = Twos(x0[i], neg, c[i - 1])[1] /\ c[i] = Twos(x0[i], neg, c[i - 1])[2]
      BY DEF TwosRun
    <2>2. /\ Twos(x0[i], neg, c[i - 1]) \in Limb \X {0, 1}
          /\ Twos(x0[i], neg, c[i - 1])[1] + B * Twos(x0[i], neg, c[i - 1])[2]
             = (IF neg THEN (B - 1) - x0[i] ELSE x0[i]) + c[i - 1]
      BY <1>2, <2>1, TwosStep
    <2>3. x0[i] \in Int
      BY <2>1, LimbIs
    <2>4. u[i] \in Int
      BY <1>1, <2>3
    <2> QED
      BY <2>1, <2>2, <2>3, <2>4
  <1>4. \A i \in 0 .. n : c[i] \in Int
    <2> TAKE i \in 0 .. n
    <2>1. i = 0 \/ i \in 1 .. n
      OBVIOUS
    <2> QED
      BY <1>2, <1>3, <2>1
  <1>5. Ints(l, n) /\ Ints(u, n) /\ Ints(x0, n)
    <2>1. ASSUME NEW i \in 1 .. n PROVE l[i] \in Int /\ u[i] \in Int /\ x0[i] \in Int
      BY <1>3, LimbIs
    <2> HIDE DEF u
    <2> QED
      BY <2>1 DEF Ints
  <1>6. \A i \in 1 .. n : l[i] + B * c[i] = u[i] + c[i - 1]
    BY <1>3
  <1>7. c[n] \in {0, 1}
    <2>1. n = 0 \/ n \in 1 .. n
      OBVIOUS
    <2> QED
      BY <1>2, <1>3, <2>1
  <1>8. k \in Int /\ t \in Int
    <2>1. \A i \in 1 .. n : x0[i] \in Int
      BY <1>3
    <2>2. \A i \in 0 .. n : Number(B, x0, i) \in Int
      BY ONLY <1>1, <2>1, n \in Nat, NumberRec
    <2>3. t \in Int
      BY <1>1, PowRec
    <2> QED
      BY <2>2, <2>3
  <1>9. Number(B, u, n) = IF neg THEN (t - 1) - k ELSE k
    <2>1. CASE neg
      <3>1. Number(B, ones, n) = t - 1
        <4>1. \A i \in 1 .. n : ones[i] = B - 1
          OBVIOUS
        <4> HIDE DEF ones
        <4> QED
          BY <4>1, AllOnes
      <3>2. Ints(ones, n)
        <4>1. \A i \in 1 .. n : ones[i] \in Int
          BY <1>1
        <4> HIDE DEF ones
        <4> QED
          BY <4>1 DEF Ints
      <3> DEFINE p == 1
                 q == -1
      <3>3. p \in Int /\ q \in Int
        OBVIOUS
      <3>4. Combined(u, n, p, ones, q, x0)
        <4>1. ASSUME NEW i \in 1 .. n PROVE u[i] = p * ones[i] + q * x0[i]
          <5>1. u[i] = (B - 1) - x0[i] /\ ones[i] = B - 1 /\ x0[i] \in Int
            BY <1>3, <2>1
          <5> QED
            BY <1>1, <5>1
        <4> HIDE DEF u, ones, p, q
        <4> QED
          BY <4>1 DEF Combined
      <3> HIDE DEF u, ones, p, q
      <3>5. Number(B, u, n) = p * Number(B, ones, n) + q * Number(B, x0, n)
        BY ONLY <1>1, <1>5, <3>2, <3>3, <3>4, n \in Nat, NumberCombined
      <3>6. 1 * (t - 1) + (-1) * k = (t - 1) - k
        <4> HIDE DEF t, k
        <4> QED
          BY <1>8
      <3> QED
        BY <2>1, <3>1, <3>5, <3>6 DEF p, q
    <2>2. CASE ~neg
      <3>1. \A i \in 1 .. n : x0[i] \in Int /\ u[i] = x0[i]
        BY <1>3, <2>2
      <3> HIDE DEF u
      <3>2. Number(B, x0, n) = Number(B, u, n)
        BY ONLY <1>1, <3>1, n \in Nat, NumberSame
      <3> QED
        BY <2>2, <3>2
    <2> QED
      BY <1>2, <2>1, <2>2
  <1> HIDE DEF u
  <1>10. Number(B, l, n) + t * c[n] = Number(B, u, n) + c[0]
    <2>1. Carries(B, l, u, c, n)
      BY <1>1, <1>4, <1>5, <1>6 DEF Carries
    <2> QED
      BY ONLY <2>1, CarriedOut
  <1>11. Number(B, l, n) + t * c[n] = IF neg THEN t - k ELSE k
    <2> HIDE DEF t, k
    <2>1. CASE neg
      <3>1. c[0] = 1 /\ Number(B, u, n) = (t - 1) - k
        BY <1>2, <1>9, <2>1 DEF Bit
      <3> QED
        BY <1>8, <1>10, <2>1, <3>1
    <2>2. CASE ~neg
      <3>1. c[0] = 0 /\ Number(B, u, n) = k
        BY <1>2, <1>9, <2>2 DEF Bit
      <3> QED
        BY <1>8, <1>10, <2>2, <3>1
    <2> QED
      BY <2>1, <2>2
  <1>12. \A i \in 1 .. n : l[i] \in Limb
    BY <1>3
  <1> QED
    BY <1>7, <1>11, <1>12

\* What the low limbs of a complement are congruent to.
LEMMA ComplementOf ==
  ASSUME NEW z, IsMpz(z), NEW n \in Nat, n <= Len(z.d), NEW l, NEW c, TwosRun(l, c, z.d, z.size < 0, n)
  PROVE  Same(Pow(B, n), Number(B, l, n), IntOf(z))
  <1> DEFINE t == Pow(B, n)
             k == Number(B, z.d, n)
             a == Number(B, l, n)
             w == NatOf(z.d)
             o == c[n]
  <1>1. /\ z.d \in Seq(Limb) /\ z.size \in Int /\ Len(z.d) \in Nat
        /\ z.size < 0 => IntOf(z) = -w
        /\ z.size >= 0 => IntOf(z) = w
    BY PartsOf
  <1>2. B \in Nat \ {0} /\ t \in Int
    <2>1. B \in Nat \ {0} /\ B \in Int
      BY LimbsAre
    <2> QED
      BY <2>1, PowRec
  <1>3. k \in Int /\ \E m \in Nat : w = k + t * m
    <2> DEFINE j == Len(z.d)
    <2>1. IsDigits(B, z.d, j) /\ Ints(z.d, j) /\ w = Number(B, z.d, j)
      BY <1>1, NatOfIs, LimbsAre DEF IsDigits
    <2>2. n \in 0 .. j
      BY <1>1
    <2>3. j \in Nat
      BY <1>1
    <2> HIDE DEF j
    <2>4. \E m \in Nat : Number(B, z.d, j) = Number(B, z.d, n) + Pow(B, n) * m
      BY ONLY <1>2, <2>1, <2>2, <2>3, NumberSplit
    <2>5. k \in Int
      <3>1. \A i \in 1 .. j : z.d[i] \in Int
        BY <2>1 DEF Ints
      <3>2. B \in Int
        BY <1>2
      <3>3. \A i \in 0 .. j : Number(B, z.d, i) \in Int
        BY ONLY <2>3, <3>1, <3>2, NumberRec
      <3> QED
        BY <2>2, <3>3
    <2> QED
      BY <2>1, <2>4, <2>5
  <1>4. o \in {0, 1} /\ a + t * o = (IF z.size < 0 THEN t - k ELSE k) /\ \A i \in 1 .. n : l[i] \in Limb
    <2> DEFINE d == z.d
               neg == z.size < 0
    <2>1. TwosRun(l, c, d, neg, n)
      OBVIOUS
    <2> HIDE DEF d, neg
    <2>2. /\ \A i \in 1 .. n : l[i] \in Limb
          /\ c[n] \in {0, 1}
          /\ Number(B, l, n) + Pow(B, n) * c[n] = IF neg THEN Pow(B, n) - Number(B, d, n) ELSE Number(B, d, n)
      BY ONLY <2>1, n \in Nat, TwosRunIs
    <2> QED
      BY <2>2 DEF d, neg
  <1>5. a \in Int
    <2>1. \A i \in 1 .. n : l[i] \in Int
      BY <1>4, LimbIs
    <2>2. B \in Int
      BY <1>2
    <2>3. \A i \in 0 .. n : Number(B, l, i) \in Int
      BY ONLY <2>1, <2>2, n \in Nat, NumberRec
    <2> QED
      BY <2>3
  <1>6. PICK m \in Nat : w = k + t * m
    BY <1>3
  <1> HIDE DEF t, k, a, w, o
  <1>7. CASE z.size < 0
    <2>1. a = -w + t * ((1 + m) - o) /\ (1 + m) - o \in Int
      <3>1. t * ((1 + m) - o) = (t + t * m) - t * o /\ t * m \in Int /\ t * o \in Int
        BY ONLY <1>2, <1>4, m \in Nat
      <3> QED
        BY <1>2, <1>3, <1>4, <1>5, <1>6, <1>7, <3>1
    <2> QED
      BY <1>1, <1>7, <2>1 DEF Same, t, a
  <1>8. CASE z.size >= 0
    <2>1. a = w + t * (-m - o) /\ -m - o \in Int
      <3>1. t * (-m - o) = -(t * m) - t * o /\ t * m \in Int /\ t * o \in Int
        BY ONLY <1>2, <1>4, m \in Nat
      <3>2. a + t * o = k
        BY <1>1, <1>4, <1>8
      <3> QED
        BY <1>2, <1>3, <1>4, <1>5, <1>6, <3>1, <3>2
    <2> QED
      BY <1>1, <1>8, <2>1 DEF Same, t, a
  <1> QED
    BY <1>1, <1>7, <1>8

\* Beyond its limbs, the complement goes on with the sign; nothing is carried there.
SignRun(l, c, z, n) ==
    /\ c[0] = Bit(z.size < 0)
    /\ \A i \in 1 .. n :
         /\ c[i - 1] \in {0, 1}
         /\ i <= Len(z.d) => /\ l[i] = Twos(z.d[i], z.size < 0, c[i - 1])[1]
                             /\ c[i] = Twos(z.d[i], z.size < 0, c[i - 1])[2]
         /\ i > Len(z.d) => l[i] = (IF z.size < 0 THEN B - 1 ELSE 0) /\ c[i] = c[i - 1]

LEMMA SignRunIs ==
  ASSUME NEW z, IsMpz(z), NEW n \in Nat, NEW l, NEW c, SignRun(l, c, z, n)
  PROVE  Same(Pow(B, n), Number(B, l, n), IntOf(z))
  <1> DEFINE j == Len(z.d)
             neg == z.size < 0
             w == NatOf(z.d)
  <1>1. /\ z.d \in Seq(Limb) /\ z.size \in Int /\ j \in Nat /\ w \in Nat
        /\ z.size < 0 => IntOf(z) = -w
        /\ z.size >= 0 => IntOf(z) = w
        /\ z.size < 0 <=> IntOf(z) < 0
        /\ \A i \in 1 .. j : z.d[i] \in Limb
    BY PartsOf, NatOfIs
  <1>2. CASE n <= j
    <2>1. TwosRun(l, c, z.d, neg, n)
      <3>1. ASSUME NEW i \in 1 .. n
            PROVE  z.d[i] \in Limb /\ c[i - 1] \in {0, 1}
                   /\ l[i] = Twos(z.d[i], neg, c[i - 1])[1] /\ c[i] = Twos(z.d[i], neg, c[i - 1])[2]
        <4>1. i \in 1 .. j /\ i <= j
          BY <1>1, <1>2
        <4> QED
          BY <1>1, <4>1 DEF SignRun
      <3> QED
        BY <3>1 DEF TwosRun, SignRun
    <2> QED
      BY <1>2, <2>1, ComplementOf
  <1>3. CASE n > j
    <2>1. TwosRun(l, c, z.d, neg, j)
      <3>1. ASSUME NEW i \in 1 .. j
            PROVE  z.d[i] \in Limb /\ c[i - 1] \in {0, 1}
                   /\ l[i] = Twos(z.d[i], neg, c[i - 1])[1] /\ c[i] = Twos(z.d[i], neg, c[i - 1])[2]
        <4>1. i \in 1 .. n /\ i <= j
          BY <1>1, <1>3
        <4> QED
          BY <1>1, <4>1 DEF SignRun
      <3> QED
        BY <3>1 DEF TwosRun, SignRun
    <2> DEFINE t == Pow(B, j)
               m == n - j
               s == Pow(B, m)
               a == Number(B, l, j)
               o == c[j]
               sign == IF neg THEN B - 1 ELSE 0
               e == [i \in 1 .. m |-> sign]
    <2>2. B \in Nat \ {0} /\ B \in Int /\ m \in Nat /\ n = j + m /\ t \in Nat \ {0} /\ s \in Nat \ {0}
          /\ Pow(B, n) = t * s
      <3>1. B \in Nat \ {0} /\ B \in Int
        BY LimbsAre
      <3>2. m \in Nat /\ n = j + m
        BY <1>1, <1>3
      <3> HIDE DEF m, j
      <3>3. Pow(B, j) \in Nat \ {0}
        BY ONLY <1>1, <3>1, PowPositive
      <3>4. Pow(B, m) \in Nat \ {0}
        BY ONLY <3>1, <3>2, PowPositive
      <3>5. Pow(B, j + m) = Pow(B, j) * Pow(B, m)
        BY ONLY <1>1, <3>1, <3>2, PowSum
      <3> QED
        BY <3>1, <3>2, <3>3, <3>4, <3>5
    <2>3. o \in {0, 1} /\ a + t * o = (IF neg THEN t - w ELSE w) /\ \A i \in 1 .. j : l[i] \in Limb
      <3>1. Number(B, z.d, j) = w
        BY DEF NatOf
      <3> HIDE DEF j, neg
      <3> QED
        BY <1>1, <2>1, <3>1, TwosRunIs
    <2>4. a \in Nat
      <3>1. IsDigits(B, l, j)
        BY <2>3, LimbsAre DEF IsDigits
      <3> HIDE DEF j
      <3>2. Number(B, l, j) \in 0 .. Pow(B, j) - 1
        BY ONLY <1>1, <2>2, <3>1, NumberBounds
      <3> QED
        BY <2>2, <3>2
    <2>5. w < t
      BY <1>1, NatOfIs
    <2>6. o = 0
      <3>1. neg => w # 0
        BY <1>1
      <3> HIDE DEF o, a, t, w, neg
      <3>2. SUFFICES ASSUME o = 1 PROVE FALSE
        BY <2>3
      <3>3. t * o = t
        BY <2>2, <3>2
      <3> QED
        <4>1. w \in Nat /\ t \in Nat /\ a \in Nat /\ neg \in BOOLEAN
          BY <1>1, <2>2, <2>4 DEF neg
        <4>2. a + t = IF neg THEN t - w ELSE w
          BY <2>3, <3>3
        <4> QED
          BY ONLY <2>5, <3>1, <4>1, <4>2
    <2>7. a = IF neg THEN t - w ELSE w
      <3> HIDE DEF o, a, t, w, neg
      <3>1. t * o = 0
        BY <2>2, <2>6
      <3> QED
        BY <2>3, <2>4, <3>1
    <2>8. Joined(l, j, l, m, e)
      <3>1. ASSUME NEW i \in 1 .. m PROVE l[j + i] = e[i]
        <4>1. j + i \in 1 .. n /\ j + i > j
          <5>1. i \in 1 .. m /\ j \in Nat /\ m \in Nat /\ n = j + m
            BY <1>1, <2>2
          <5> HIDE DEF j, m
          <5> QED
            BY ONLY <5>1
        <4>2. l[j + i] = sign
          BY <4>1 DEF SignRun
        <4> QED
          BY <4>2
      <3> HIDE DEF e, j
      <3> QED
        BY <3>1 DEF Joined
    <2>9. Ints(l, j) /\ Ints(e, m)
      <3>1. ASSUME NEW i \in 1 .. j PROVE l[i] \in Int
        BY <2>3, LimbIs
      <3>2. ASSUME NEW i \in 1 .. m PROVE e[i] \in Int
        BY <2>2
      <3> HIDE DEF e, j, m
      <3> QED
        BY <3>1, <3>2 DEF Ints
    <2>10. Number(B, e, m) = IF neg THEN s - 1 ELSE 0
      <3>1. CASE neg
        <4>1. \A i \in 1 .. m : e[i] = B - 1
          BY <3>1
        <4> HIDE DEF e, m
        <4>2. Number(B, e, m) = Pow(B, m) - 1
          BY ONLY <2>2, <4>1, AllOnes
        <4> QED
          BY <3>1, <4>2
      <3>2. CASE ~neg
        <4>1. \A i \in 1 .. m : e[i] = 0
          BY <3>2
        <4> HIDE DEF e, m
        <4>2. Number(B, e, m) = 0
          BY ONLY <2>2, <4>1, NoLimbs
        <4> QED
          BY <3>2, <4>2
      <3> QED
        BY <3>1, <3>2
    <2> HIDE DEF e, m, j
    <2>11. Number(B, l, n) = Number(B, l, j) + Pow(B, j) * Number(B, e, m)
      BY ONLY <1>1, <2>2, <2>8, <2>9, n \in Nat, NumberJoined
    <2>12. Number(B, l, n) = a + t * (IF neg THEN s - 1 ELSE 0)
      BY <2>10, <2>11
    <2> HIDE DEF a, t, s, w
    <2>13. CASE neg
      <3>1. Number(B, l, n) = (t - w) + t * (s - 1)
        BY <2>7, <2>12, <2>13
      <3>2. (t - w) + t * (s - 1) = -w + (t * s) * 1
        BY ONLY <1>1, <2>2
      <3>3. IntOf(z) = -w
        BY <1>1, <2>13
      <3>4. 1 \in Int /\ Number(B, l, n) = IntOf(z) + Pow(B, n) * 1
        BY <2>2, <3>1, <3>2, <3>3
      <3> QED
        BY ONLY <3>4 DEF Same
    <2>14. CASE ~neg
      <3>1. Number(B, l, n) = w + t * 0
        BY <2>7, <2>12, <2>14
      <3>2. w + t * 0 = w + (t * s) * 0
        BY ONLY <1>1, <2>2
      <3>3. IntOf(z) = w
        BY <1>1, <2>14
      <3> QED
        BY <2>2, <3>1, <3>2, <3>3 DEF Same
    <2> QED
      BY <2>13, <2>14
  <1> QED
    BY <1>1, <1>2, <1>3

LEMMA LimbsTogether ==
  ASSUME NEW ones, NEW n \in Nat, NEW f, NEW d, NEW e, BitwiseLimbs(ones, f, d, e, n)
  PROVE  Number(B, f, n) = BitsWhere(ones, LimbBits * n, Number(B, d, n), Number(B, e, n))
  BY BitsOfLimbs

\* The truth table of the operator.
Table(and) == IF and THEN {<<1, 1>>} ELSE {<<0, 1>>, <<1, 0>>, <<1, 1>>}
Carries3 == {0, 1} \X {0, 1} \X {0, 1}
\* One limb of BitLimbs: the complements of u and v, the operator, and the
\* complement of the result.
LimbU(u, i, c) == Twos(u.d[i], u.size < 0, c[1])
LimbV(v, i, c) ==
    IF i <= Len(v.d) THEN Twos(v.d[i], v.size < 0, c[2]) ELSE <<IF v.size < 0 THEN B - 1 ELSE 0, c[2]>>
LimbX(ones, u, v, i, c) == BitsWhere(ones, LimbBits, LimbU(u, i, c)[1], LimbV(v, i, c)[1])
LimbR(ones, u, v, neg, i, c) == Twos(LimbX(ones, u, v, i, c), neg, c[3])
BitStep(ones, u, v, neg, i, c) ==
    <<LimbR(ones, u, v, neg, i, c)[1],
      <<LimbU(u, i, c)[2], LimbV(v, i, c)[2], LimbR(ones, u, v, neg, i, c)[2]>>>>

LEMMA BitStepIs ==
  ASSUME NEW ones, NEW u, NEW v, IsMpz(u), IsMpz(v), NEW neg \in BOOLEAN,
         NEW i \in Nat \ {0}, i <= Len(u.d), NEW c \in Carries3
  PROVE  /\ u.d[i] \in Limb
         /\ LimbU(u, i, c) \in Limb \X {0, 1}
         /\ i <= Len(v.d) => v.d[i] \in Limb
         /\ LimbV(v, i, c) \in Limb \X {0, 1}
         /\ LimbX(ones, u, v, i, c) \in Limb
         /\ LimbR(ones, u, v, neg, i, c) \in Limb \X {0, 1}
         /\ BitStep(ones, u, v, neg, i, c) \in Limb \X Carries3
  <1>1. u.d \in Seq(Limb) /\ v.d \in Seq(Limb) /\ Len(u.d) \in Nat /\ Len(v.d) \in Nat
        /\ u.size \in Int /\ v.size \in Int
    BY PartsOf
  <1>2. c[1] \in {0, 1} /\ c[2] \in {0, 1} /\ c[3] \in {0, 1}
    BY DEF Carries3
  <1>3. u.d[i] \in Limb /\ (i <= Len(v.d) => v.d[i] \in Limb)
    <2>1. i \in 1 .. Len(u.d) /\ (i <= Len(v.d) => i \in 1 .. Len(v.d))
      BY <1>1
    <2>2. (\A k \in 1 .. Len(u.d) : u.d[k] \in Limb) /\ (\A k \in 1 .. Len(v.d) : v.d[k] \in Limb)
      BY <1>1, NatOfIs
    <2> QED
      BY <2>1, <2>2
  <1>4. (u.size < 0) \in BOOLEAN /\ (v.size < 0) \in BOOLEAN
    BY <1>1
  <1>5. LimbU(u, i, c) \in Limb \X {0, 1}
    BY <1>2, <1>3, <1>4, TwosStep DEF LimbU
  <1>6. LimbV(v, i, c) \in Limb \X {0, 1}
    <2>1. CASE i <= Len(v.d)
      BY <1>2, <1>3, <1>4, <2>1, TwosStep DEF LimbV
    <2>2. CASE ~(i <= Len(v.d))
      <3>1. (IF v.size < 0 THEN B - 1 ELSE 0) \in Limb
        <4>1. B \in Nat \ {0} /\ Limb = 0 .. B - 1
          BY LimbsAre
        <4> QED
          BY <4>1
      <3> QED
        BY <1>2, <2>2, <3>1 DEF LimbV
    <2> QED
      BY <2>1, <2>2
  <1>7. LimbX(ones, u, v, i, c) \in Limb
    <2>1. LimbU(u, i, c)[1] \in Int /\ LimbV(v, i, c)[1] \in Int
      <3>1. LimbU(u, i, c)[1] \in Limb /\ LimbV(v, i, c)[1] \in Limb
        BY <1>5, <1>6
      <3> QED
        BY <3>1, LimbIs
    <2>2. LimbBits \in Nat /\ Word(LimbBits) = Limb
      BY LimbsAre DEF Word
    <2> QED
      BY <2>1, <2>2, BitsAreWord DEF LimbX
  <1>8. LimbR(ones, u, v, neg, i, c) \in Limb \X {0, 1}
    BY <1>2, <1>7, TwosStep DEF LimbR
  <1>9. BitStep(ones, u, v, neg, i, c) \in Limb \X Carries3
    BY <1>5, <1>6, <1>8 DEF BitStep, Carries3
  <1> QED
    BY <1>3, <1>5, <1>6, <1>7, <1>8, <1>9

LEMMA BitLimbsRun ==
  ASSUME NEW and \in BOOLEAN, NEW u, NEW v, NEW neg \in BOOLEAN, NEW n \in Nat
  PROVE  BitLimbs(and, u, v, neg, n) =
           Chain([i \in 1 .. n |-> [c \in Carries3 |-> BitStep(Table(and), u, v, neg, i, c)]],
                 n, <<Bit(u.size < 0), Bit(v.size < 0), Bit(neg)>>)
  <1>1. ASSUME NEW a, NEW b
        PROVE  BitsWhere(Table(and), LimbBits, a, b) =
                 IF and THEN BitAnd(LimbBits, a, b) ELSE BitOr(LimbBits, a, b)
    BY DEF Table, BitAnd, BitOr
  <1> DEFINE Step(i, c) ==
                LET ul == Twos(u.d[i], u.size < 0, c[1])
                    vl == IF i <= Len(v.d) THEN Twos(v.d[i], v.size < 0, c[2])
                          ELSE <<IF v.size < 0 THEN B - 1 ELSE 0, c[2]>>
                    x0 == IF and THEN BitAnd(LimbBits, ul[1], vl[1])
                          ELSE BitOr(LimbBits, ul[1], vl[1])
                    rl == Twos(x0, neg, c[3])
                IN  <<rl[1], <<ul[2], vl[2], rl[2]>>>>
             step == [i \in 1 .. n |-> [c \in Carries3 |-> Step(i, c)]]
  <1>2. BitLimbs(and, u, v, neg, n) = Chain(step, n, <<Bit(u.size < 0), Bit(v.size < 0), Bit(neg)>>)
    BY DEF BitLimbs, Carries3
  <1>3. ASSUME NEW i \in 1 .. n, NEW c \in Carries3
        PROVE  Step(i, c) = BitStep(Table(and), u, v, neg, i, c)
    BY <1>1 DEF BitStep, LimbR, LimbX, LimbU, LimbV
  <1> DEFINE new == [i \in 1 .. n |-> [c \in Carries3 |-> BitStep(Table(and), u, v, neg, i, c)]]
  <1> HIDE DEF Step
  <1>4. step = new
    BY ONLY <1>3
  <1> HIDE DEF step, new
  <1>5. BitLimbs(and, u, v, neg, n) = Chain(new, n, <<Bit(u.size < 0), Bit(v.size < 0), Bit(neg)>>)
    BY ONLY <1>2, <1>4
  <1> QED
    BY <1>5 DEF new

\* The limbs of the complements of the two operands, and of the result.
LEMMA BitLimbsIs ==
  ASSUME NEW and \in BOOLEAN, NEW u, NEW v, IsMpz(u), IsMpz(v), NEW neg \in BOOLEAN,
         NEW n \in Nat, n <= Len(u.d)
  PROVE  LET t == BitLimbs(and, u, v, neg, n)
             w == BitsWhere(Table(and), LimbBits * n, IntOf(u), IntOf(v))
         IN  /\ t.r \in Seq(Limb) /\ Len(t.r) = n /\ t.cy[3] \in {0, 1} /\ w \in Int
             /\ NatOf(t.r) + Pow(B, n) * t.cy[3] = IF neg THEN Pow(B, n) - w ELSE w
  <1> DEFINE ones == Table(and)
             step == [i \in 1 .. n |-> [c \in Carries3 |-> BitStep(ones, u, v, neg, i, c)]]
             c0 == <<Bit(u.size < 0), Bit(v.size < 0), Bit(neg)>>
             t == BitLimbs(and, u, v, neg, n)
  <1>1. t = Chain(step, n, c0)
    BY BitLimbsRun
  <1>2. c0 \in Carries3
    BY DEF Bit, Carries3
  <1>3. u.d \in Seq(Limb) /\ Len(u.d) \in Nat /\ IntOf(u) \in Int /\ IntOf(v) \in Int /\ u.size \in Int
    BY PartsOf
  <1> HIDE DEF ones
  <1>4. ASSUME NEW i \in 1 .. n, NEW c \in Carries3
        PROVE  /\ u.d[i] \in Limb
               /\ LimbU(u, i, c) \in Limb \X {0, 1}
               /\ i <= Len(v.d) => v.d[i] \in Limb
               /\ LimbV(v, i, c) \in Limb \X {0, 1}
               /\ LimbX(ones, u, v, i, c) \in Limb
               /\ LimbR(ones, u, v, neg, i, c) \in Limb \X {0, 1}
               /\ BitStep(ones, u, v, neg, i, c) \in Limb \X Carries3
    <2>1. i \in Nat \ {0} /\ i <= Len(u.d)
      BY <1>3
    <2> QED
      BY <2>1, BitStepIs
  <1>5. StepsIn(step, n, Limb, Carries3)
    BY <1>4 DEF StepsIn
  <1>6. PICK c, e : Chained(t, n, Limb, Carries3, c0, c, e) /\ Follows(e, step, c, n)
    <2> HIDE DEF t, c0, step
    <2>1. ChainIs(t, step, n, Limb, Carries3, c0)
      BY <1>1, <1>2, <1>5, ChainRuns
    <2> QED
      BY <2>1 DEF ChainIs
  <1>7. /\ t.r \in Seq(Limb) /\ Len(t.r) = n /\ t.cy = c[n]
        /\ c \in [0 .. n -> Carries3] /\ c[0] = c0
        /\ \A i \in 1 .. n : t.r[i] = e[i][1] /\ c[i] = e[i][2]
    BY <1>6 DEF Chained
  <1> DEFINE cu == [i \in 0 .. n |-> c[i][1]]
             cv == [i \in 0 .. n |-> c[i][2]]
             cr == [i \in 0 .. n |-> c[i][3]]
             ul == [i \in 1 .. n |-> LimbU(u, i, c[i - 1])[1]]
             vl == [i \in 1 .. n |-> LimbV(v, i, c[i - 1])[1]]
             xl == [i \in 1 .. n |-> LimbX(ones, u, v, i, c[i - 1])]
  <1>8. ASSUME NEW i \in 1 .. n
        PROVE  /\ c[i - 1] \in Carries3 /\ i - 1 \in 0 .. n /\ i \in 0 .. n
               /\ cu[i - 1] = c[i - 1][1] /\ cv[i - 1] = c[i - 1][2] /\ cr[i - 1] = c[i - 1][3]
               /\ cu[i - 1] \in {0, 1} /\ cv[i - 1] \in {0, 1} /\ cr[i - 1] \in {0, 1}
               /\ t.r[i] = LimbR(ones, u, v, neg, i, c[i - 1])[1]
               /\ cu[i] = LimbU(u, i, c[i - 1])[2]
               /\ cv[i] = LimbV(v, i, c[i - 1])[2]
               /\ cr[i] = LimbR(ones, u, v, neg, i, c[i - 1])[2]
    <2>1. i - 1 \in 0 .. n /\ i \in 0 .. n
      OBVIOUS
    <2>2. c[i - 1] \in Carries3
      BY <1>7, <2>1
    <2>3. e[i] = BitStep(ones, u, v, neg, i, c[i - 1])
      BY <1>6, <2>2 DEF Follows
    <2>4. /\ t.r[i] = LimbR(ones, u, v, neg, i, c[i - 1])[1]
          /\ c[i] = <<LimbU(u, i, c[i - 1])[2], LimbV(v, i, c[i - 1])[2], LimbR(ones, u, v, neg, i, c[i - 1])[2]>>
      <3> HIDE DEF t
      <3> QED
        BY <1>7, <2>3 DEF BitStep
    <2>5. c[i - 1][1] \in {0, 1} /\ c[i - 1][2] \in {0, 1} /\ c[i - 1][3] \in {0, 1}
      BY <2>2 DEF Carries3
    <2> HIDE DEF t
    <2> QED
      BY <2>1, <2>2, <2>4, <2>5
  <1>9. cu[0] = Bit(u.size < 0) /\ cv[0] = Bit(v.size < 0) /\ cr[0] = Bit(neg) /\ cr[n] = t.cy[3]
    BY <1>7
  <1> HIDE DEF t, cu, cv, cr, step
  <1>10. TwosRun(ul, cu, u.d, u.size < 0, n)
    <2>1. ASSUME NEW i \in 1 .. n
          PROVE  u.d[i] \in Limb /\ cu[i - 1] \in {0, 1}
                 /\ ul[i] = Twos(u.d[i], u.size < 0, cu[i - 1])[1]
                 /\ cu[i] = Twos(u.d[i], u.size < 0, cu[i - 1])[2]
      <3>1. LimbU(u, i, c[i - 1]) = Twos(u.d[i], u.size < 0, cu[i - 1])
        BY <1>8 DEF LimbU
      <3> QED
        BY <1>4, <1>8, <3>1
    <2> HIDE DEF ul
    <2>2. (u.size < 0) \in BOOLEAN
      BY <1>3
    <2> QED
      BY <1>9, <2>1, <2>2 DEF TwosRun
  <1>11. SignRun(vl, cv, v, n)
    <2>1. ASSUME NEW i \in 1 .. n
          PROVE  /\ cv[i - 1] \in {0, 1}
                 /\ i <= Len(v.d) => /\ vl[i] = Twos(v.d[i], v.size < 0, cv[i - 1])[1]
                                     /\ cv[i] = Twos(v.d[i], v.size < 0, cv[i - 1])[2]
                 /\ i > Len(v.d) => vl[i] = (IF v.size < 0 THEN B - 1 ELSE 0) /\ cv[i] = cv[i - 1]
      <3>1. i <= Len(v.d) => LimbV(v, i, c[i - 1]) = Twos(v.d[i], v.size < 0, cv[i - 1])
        BY <1>8 DEF LimbV
      <3>2. i > Len(v.d) => LimbV(v, i, c[i - 1]) = <<IF v.size < 0 THEN B - 1 ELSE 0, cv[i - 1]>>
        <4>1. Len(v.d) \in Nat /\ i \in Int
          BY PartsOf
        <4>2. i > Len(v.d) => ~(i <= Len(v.d))
          BY ONLY <4>1
        <4> QED
          BY <1>8, <4>2 DEF LimbV
      <3> QED
        BY <1>8, <3>1, <3>2
    <2> HIDE DEF vl
    <2> QED
      BY <1>9, <2>1 DEF SignRun
  <1>12. TwosRun(t.r, cr, xl, neg, n)
    <2>1. ASSUME NEW i \in 1 .. n
          PROVE  xl[i] \in Limb /\ cr[i - 1] \in {0, 1}
                 /\ t.r[i] = Twos(xl[i], neg, cr[i - 1])[1] /\ cr[i] = Twos(xl[i], neg, cr[i - 1])[2]
      <3>1. LimbR(ones, u, v, neg, i, c[i - 1]) = Twos(xl[i], neg, cr[i - 1])
        BY <1>8 DEF LimbR
      <3> QED
        BY <1>4, <1>8, <3>1
    <2> HIDE DEF xl
    <2> QED
      BY <1>9, <2>1 DEF TwosRun
  <1>13. BitwiseLimbs(ones, xl, ul, vl, n)
    <2>1. ASSUME NEW i \in 1 .. n
          PROVE  ul[i] \in Limb /\ vl[i] \in Limb /\ xl[i] = BitsWhere(ones, LimbBits, ul[i], vl[i])
      <3>1. LimbX(ones, u, v, i, c[i - 1]) =
              BitsWhere(ones, LimbBits, LimbU(u, i, c[i - 1])[1], LimbV(v, i, c[i - 1])[1])
        BY DEF LimbX
      <3>2. c[i - 1] \in Carries3
        BY <1>8
      <3>3. LimbU(u, i, c[i - 1]) \in Limb \X {0, 1} /\ LimbV(v, i, c[i - 1]) \in Limb \X {0, 1}
        BY <1>4, <3>2
      <3> QED
        BY <3>1, <3>3
    <2> HIDE DEF ul, vl, xl
    <2> QED
      BY <2>1 DEF BitwiseLimbs
  <1> HIDE DEF ul, vl, xl
  <1> DEFINE U == Number(B, ul, n)
             V == Number(B, vl, n)
             m == LimbBits * n
  <1>14. Same(Pow(B, n), U, IntOf(u)) /\ Same(Pow(B, n), V, IntOf(v))
    BY <1>10, <1>11, ComplementOf, SignRunIs
  <1>15. Number(B, xl, n) = BitsWhere(ones, m, U, V)
    <2>1. Number(B, xl, n) = BitsWhere(ones, LimbBits * n, Number(B, ul, n), Number(B, vl, n))
      BY ONLY <1>13, n \in Nat, LimbsTogether
    <2> QED
      BY ONLY <2>1
  <1>16. U \in Int /\ V \in Int
    <2>1. B \in Int /\ \A i \in 1 .. n : ul[i] \in Int /\ vl[i] \in Int
      <3>1. B \in Int
        BY LimbsAre
      <3>2. \A i \in 1 .. n : ul[i] \in Limb /\ vl[i] \in Limb
        BY <1>13 DEF BitwiseLimbs
      <3> QED
        BY ONLY <3>1, <3>2, LimbIs
    <2>2. \A i \in 0 .. n : Number(B, ul, i) \in Int
      BY ONLY <2>1, n \in Nat, NumberRec
    <2>3. \A i \in 0 .. n : Number(B, vl, i) \in Int
      BY ONLY <2>1, n \in Nat, NumberRec
    <2> QED
      BY <2>2, <2>3
  <1>17. m \in Nat /\ Pow(2, m) = Pow(B, n)
    <2>1. LimbBits \in Nat /\ B = Pow(2, LimbBits)
      BY LimbsAre
    <2>2. 2 \in Int
      OBVIOUS
    <2> HIDE DEF LimbBits
    <2>3. Pow(2, LimbBits * n) = Pow(Pow(2, LimbBits), n)
      BY ONLY <2>1, <2>2, n \in Nat, PowProduct
    <2> QED
      BY <2>1, <2>3
  <1> HIDE DEF U, V, m
  <1>18. BitsWhere(ones, m, U, V) = BitsWhere(ones, m, IntOf(u), IntOf(v))
    <2> DEFINE a == IntOf(u)
               b == IntOf(v)
    <2>1. a \in Int /\ b \in Int /\ Same(Pow(2, m), U, a) /\ Same(Pow(2, m), V, b) /\ m <= m
      BY <1>3, <1>14, <1>17
    <2> HIDE DEF a, b
    <2>2. Cut(m, BitsWhere(ones, m, U, V)) = BitsWhere(ones, m, a, b)
      BY ONLY <1>16, <1>17, <2>1, SameBits
    <2>3. Cut(m, BitsWhere(ones, m, U, V)) = BitsWhere(ones, m, U, V)
      <3>1. BitsWhere(ones, m, U, V) \in Word(m)
        BY <1>16, <1>17, BitsAreWord
      <3> QED
        BY <1>17, <3>1, CutWord
    <2> QED
      BY <2>2, <2>3 DEF a, b
  <1>19. BitsWhere(ones, m, IntOf(u), IntOf(v)) \in Int
    BY <1>3, <1>17, BitsRec DEF BitSteps
  <1> DEFINE r == t.r
  <1>20. /\ cr[n] \in {0, 1}
         /\ Number(B, r, n) + Pow(B, n) * cr[n] = IF neg THEN Pow(B, n) - Number(B, xl, n) ELSE Number(B, xl, n)
    <2>1. TwosRun(r, cr, xl, neg, n)
      BY <1>12
    <2> HIDE DEF r
    <2> QED
      BY ONLY <2>1, n \in Nat, TwosRunIs
  <1>21. Number(B, r, n) = NatOf(t.r)
    BY <1>7 DEF NatOf
  <1> QED
    BY <1>7, <1>9, <1>15, <1>18, <1>19, <1>20, <1>21 DEF t, m, ones

\* The limbs of a result of n limbs and a carry.
LEMMA ResultIs ==
  ASSUME NEW r \in Seq(Limb), NEW cy \in {0, 1}, NEW neg \in BOOLEAN, NEW v \in Int,
         NatOf(r) + Pow(B, Len(r)) * cy = v
  PROVE  Is(Mpz(neg, IF cy > 0 THEN Append(r, cy) ELSE Normalized(r)), IF neg THEN -v ELSE v)
  <1>1. cy \in Limb
    <2>1. Limb = 0 .. B - 1 /\ B \in Nat /\ B >= 4
      BY LimbsAre, FixnumIs
    <2> QED
      BY <2>1
  <1>2. NatOf(r) \in Nat /\ Pow(B, Len(r)) \in Nat
    BY NatOfIs
  <1>3. CASE cy > 0
    <2> DEFINE e == Append(r, cy)
    <2>1. /\ e \in Seq(Limb) /\ Len(e) = Len(r) + 1 /\ e[Len(e)] = cy
          /\ NatOf(e) = NatOf(r) + Pow(B, Len(r)) * cy
      BY <1>1, NatOfAppend
    <2>2. Trimmed(e) /\ NatOf(e) = v
      BY <1>3, <2>1 DEF Trimmed
    <2> HIDE DEF e
    <2>3. Is(Mpz(FALSE, e), v) /\ Is(Mpz(TRUE, e), -v)
      BY <2>1, <2>2, NaturalIs
    <2> QED
      BY <1>3, <2>3 DEF e
  <1>4. CASE cy = 0
    <2> DEFINE e == Normalized(r)
    <2>1. e \in Seq(Limb) /\ Trimmed(e) /\ NatOf(e) = v
      BY <1>2, <1>4, NormalizedKeeps
    <2> HIDE DEF e
    <2>2. Is(Mpz(FALSE, e), v) /\ Is(Mpz(TRUE, e), -v)
      BY <2>1, NaturalIs
    <2>3. ~(cy > 0)
      BY <1>4
    <2> QED
      BY <2>2, <2>3 DEF e
  <1> QED
    BY <1>3, <1>4

LEMMA BitResultIs ==
  ASSUME NEW and \in BOOLEAN, NEW u, NEW v, IsMpz(u), IsMpz(v), NEW neg \in BOOLEAN,
         NEW n \in Nat, n <= Len(u.d)
  PROVE  Is(BitResult(BitLimbs(and, u, v, neg, n), neg),
            Stable(Table(and), LimbBits * n, IntOf(u), IntOf(v), neg))
  <1> DEFINE t == BitLimbs(and, u, v, neg, n)
             w == BitsWhere(Table(and), LimbBits * n, IntOf(u), IntOf(v))
             r == t.r
             cy == t.cy[3]
             s == IF neg THEN Pow(B, n) - w ELSE w
  <1>1. /\ r \in Seq(Limb) /\ Len(r) = n /\ cy \in {0, 1} /\ w \in Int
        /\ NatOf(r) + Pow(B, n) * cy = s
    BY BitLimbsIs
  <1>2. Pow(B, n) \in Nat /\ Pow(2, LimbBits * n) = Pow(B, n)
    <2>1. LimbBits \in Nat /\ B = Pow(2, LimbBits) /\ B \in Nat \ {0}
      BY LimbsAre
    <2>2. 2 \in Int
      OBVIOUS
    <2> HIDE DEF LimbBits
    <2>3. Pow(2, LimbBits * n) = Pow(Pow(2, LimbBits), n)
      BY ONLY <2>1, <2>2, n \in Nat, PowProduct
    <2>4. Pow(B, n) \in Nat
      BY ONLY <2>1, n \in Nat, PowPositive
    <2> QED
      BY <2>1, <2>3, <2>4
  <1>3. Stable(Table(and), LimbBits * n, IntOf(u), IntOf(v), neg) = IF neg THEN w - Pow(B, n) ELSE w
    <2>1. Stable(Table(and), LimbBits * n, IntOf(u), IntOf(v), neg) = w - IF neg THEN Pow(2, LimbBits * n) ELSE 0
      BY DEF Stable
    <2> HIDE DEF w
    <2> QED
      BY <1>1, <1>2, <2>1
  <1>4. BitResult(t, neg) = Mpz(neg, IF cy > 0 THEN Append(r, cy) ELSE Normalized(r))
    BY DEF BitResult
  <1> HIDE DEF t, w, r, cy
  <1>5. s \in Int /\ (IF neg THEN -s ELSE s) = IF neg THEN w - Pow(B, n) ELSE w
    BY <1>1, <1>2
  <1>6. NatOf(r) + Pow(B, Len(r)) * cy = s
    BY <1>1
  <1> HIDE DEF s
  <1>7. Is(Mpz(neg, IF cy > 0 THEN Append(r, cy) ELSE Normalized(r)), IF neg THEN -s ELSE s)
    BY ONLY <1>1, <1>5, <1>6, neg \in BOOLEAN, ResultIs
  <1>8. Is(BitResult(t, neg), Stable(Table(and), LimbBits * n, IntOf(u), IntOf(v), neg))
    BY ONLY <1>3, <1>4, <1>5, <1>7
  <1> QED
    BY <1>8 DEF t

\* The operators, bit by bit, on signs and on zeros.
Fits(a, m) == -Pow(2, m) <= a /\ a < Pow(2, m)
SignOf(and, a, b) == IF and THEN a < 0 /\ b < 0 ELSE a < 0 \/ b < 0

LEMMA FitsMore ==
  ASSUME NEW a \in Int, NEW m \in Nat, Fits(a, m), NEW n \in Nat, m <= n
  PROVE  Fits(a, n)
  <1>1. Pow(2, m) <= Pow(2, n) /\ Pow(2, m) \in Int /\ Pow(2, n) \in Int
    <2>1. 2 \in Nat \ {0}
      OBVIOUS
    <2>2. Pow(2, m) <= Pow(2, n)
      BY <2>1, PowGrows
    <2>3. Pow(2, m) \in Int
      BY TwoPow
    <2>4. Pow(2, n) \in Int
      BY TwoPow
    <2> QED
      BY <2>2, <2>3, <2>4
  <1> QED
    BY <1>1 DEF Fits

LEMMA BothBeyond ==
  ASSUME NEW and \in BOOLEAN, NEW a \in Int, NEW b \in Int, NEW m \in Nat, Fits(a, m), Fits(b, m)
  PROVE  Beyond(Table(and), a, b, m, SignOf(and, a, b))
  <1>1. ASSUME NEW i \in Nat, i >= m
        PROVE  BitAt(a, i) = (IF a < 0 THEN 1 ELSE 0) /\ BitAt(b, i) = (IF b < 0 THEN 1 ELSE 0)
    <2>1. m <= i
      BY <1>1
    <2>2. -Pow(2, m) <= a /\ a < Pow(2, m) /\ -Pow(2, m) <= b /\ b < Pow(2, m)
      BY DEF Fits
    <2>3. BitAt(a, i) = IF a < 0 THEN 1 ELSE 0
      BY <2>1, <2>2, SignBits
    <2>4. BitAt(b, i) = IF b < 0 THEN 1 ELSE 0
      BY <2>1, <2>2, SignBits
    <2> QED
      BY <2>3, <2>4
  <1>2. ASSUME NEW i \in Nat, i >= m
        PROVE  <<BitAt(a, i), BitAt(b, i)>> \in Table(and) <=> SignOf(and, a, b)
    BY <1>1, <1>2 DEF Table, SignOf
  <1> QED
    BY <1>2 DEF Beyond

\* One operand decides: a natural number for and, a negative one for or.
LEMMA OneBeyond ==
  ASSUME NEW and \in BOOLEAN, NEW a \in Int, NEW b \in Int, NEW m \in Nat, Fits(b, m), and <=> b >= 0
  PROVE  Beyond(Table(and), a, b, m, SignOf(and, a, b))
  <1>1. ASSUME NEW i \in Nat, i >= m
        PROVE  BitAt(b, i) = (IF b < 0 THEN 1 ELSE 0) /\ BitAt(a, i) \in {0, 1}
    <2>1. m <= i
      BY <1>1
    <2>2. -Pow(2, m) <= b /\ b < Pow(2, m)
      BY DEF Fits
    <2>3. BitAt(b, i) = IF b < 0 THEN 1 ELSE 0
      BY <2>1, <2>2, SignBits
    <2>4. BitAt(a, i) \in {0, 1}
      <3>1. Pow(2, i) \in Nat \ {0}
        BY TwoPow
      <3>2. a \div Pow(2, i) \in Int
        BY <3>1, DivMod
      <3> QED
        BY <3>2 DEF BitAt
    <2> QED
      BY <2>3, <2>4
  <1>2. ASSUME NEW i \in Nat, i >= m
        PROVE  <<BitAt(a, i), BitAt(b, i)>> \in Table(and) <=> SignOf(and, a, b)
    <2>1. BitAt(b, i) = (IF b < 0 THEN 1 ELSE 0) /\ BitAt(a, i) \in {0, 1}
      BY <1>1, <1>2
    <2>2. CASE and
      <3>1. ~(b < 0)
        BY <2>2
      <3>2. BitAt(b, i) = 0 /\ ~SignOf(and, a, b)
        BY <2>1, <2>2, <3>1 DEF SignOf
      <3>3. Table(and) = {<<1, 1>>}
        BY <2>2 DEF Table
      <3> QED
        BY <2>1, <3>2, <3>3
    <2>3. CASE ~and
      <3>1. b < 0
        BY <2>3
      <3>2. BitAt(b, i) = 1 /\ SignOf(and, a, b)
        BY <2>1, <2>3, <3>1 DEF SignOf
      <3> QED
        BY <2>1, <2>3, <3>2 DEF Table
    <2> QED
      BY <2>2, <2>3
  <1> QED
    BY <1>2 DEF Beyond

LEMMA SwapBits ==
  ASSUME NEW and \in BOOLEAN, NEW a \in Int, NEW b \in Int, NEW m \in Nat
  PROVE  BitsWhere(Table(and), m, a, b) = BitsWhere(Table(and), m, b, a)
  <1> DEFINE f(n) == BitsWhere(Table(and), n, a, b)
             g(n) == BitsWhere(Table(and), n, b, a)
             S == {n \in Nat : f(n) = g(n)}
  <1>1. BitSteps(Table(and), a, b) /\ BitSteps(Table(and), b, a)
    BY BitsRec
  <1>2. 0 \in S
    BY <1>1 DEF BitSteps
  <1>3. ASSUME NEW n \in Nat, n \in S PROVE n + 1 \in S
    <2>1. f(n) = g(n)
      BY <1>3
    <2>2. <<BitAt(a, n), BitAt(b, n)>> \in Table(and) <=> <<BitAt(b, n), BitAt(a, n)>> \in Table(and)
      BY DEF Table
    <2>3. f(n + 1) = g(n + 1)
      BY <1>1, <2>1, <2>2 DEF BitSteps
    <2> QED
      BY <2>3
  <1> HIDE DEF S
  <1>4. m \in S
    BY <1>2, <1>3, Induction
  <1> QED
    BY <1>4 DEF S

\* The low bits of a number, or'ed with nothing.
LEMMA OrZero ==
  ASSUME NEW a \in Int, NEW m \in Nat
  PROVE  BitsWhere(Table(FALSE), m, a, 0) = a % Pow(2, m)
  <1> DEFINE f(n) == BitsWhere(Table(FALSE), n, a, 0)
             S == {n \in Nat : f(n) = a % Pow(2, n)}
  <1>1. BitSteps(Table(FALSE), a, 0)
    <2>1. 0 \in Int
      OBVIOUS
    <2> QED
      BY ONLY <2>1, a \in Int, BitsRec
  <1>2. 0 \in S
    <2>1. Pow(2, 0) = 1
      BY PowRec
    <2>2. a % 1 = 0
      BY DivMod
    <2> QED
      BY <1>1, <2>1, <2>2 DEF BitSteps
  <1>3. ASSUME NEW n \in Nat, n \in S PROVE n + 1 \in S
    <2> DEFINE t == Pow(2, n)
               q == a \div t
               w == a % t
               h == q \div 2
               c == q % 2
    <2>1. t \in Nat \ {0} /\ Pow(2, n + 1) = 2 * t
      BY TwoPow
    <2>2. q \in Int /\ w \in 0 .. t - 1 /\ a = t * q + w
      <3> HIDE DEF t
      <3> QED
        BY <2>1, DivMod
    <2>3. h \in Int /\ c \in {0, 1} /\ q = 2 * h + c
      <3> HIDE DEF q
      <3> QED
        BY <2>2
    <2>4. f(n) = w
      BY <1>3
    <2>5. c = 1 <=> <<BitAt(a, n), BitAt(0, n)>> \in Table(FALSE)
      <3>1. BitAt(a, n) = c
        BY DEF BitAt
      <3>2. BitAt(0, n) = 0
        <4>1. 0 <= n /\ 0 \in Nat /\ 0 \in Int
          OBVIOUS
        <4>2. -Pow(2, 0) <= 0 /\ 0 < Pow(2, 0)
          BY PowRec
        <4>3. BitAt(0, n) = IF 0 < 0 THEN 1 ELSE 0
          BY <4>1, <4>2, SignBits
        <4> QED
          BY <4>3
      <3> HIDE DEF c
      <3> QED
        BY <2>3, <3>1, <3>2 DEF Table
    <2>6. f(n + 1) = w + t * c
      <3> HIDE DEF q, w, h, c
      <3>1. c = 1 => f(n + 1) = f(n) + t
        BY <1>1, <2>5 DEF BitSteps
      <3>2. c # 1 => f(n + 1) = f(n)
        BY <1>1, <2>5 DEF BitSteps
      <3> HIDE DEF f, t
      <3> QED
        BY <2>1, <2>2, <2>3, <2>4, <3>1, <3>2
    <2> HIDE DEF f, t, q, w, h, c
    <2> DEFINE n2 == 2 * t
               r2 == w + t * c
    <2>7. n2 \in Nat \ {0} /\ r2 \in 0 .. n2 - 1 /\ a = n2 * h + r2
      <3>1. n2 \in Nat \ {0}
        BY <2>1
      <3>2. r2 \in 0 .. n2 - 1
        BY <2>1, <2>2, <2>3
      <3>3. a = t * (2 * h + c) + w
        BY <2>2, <2>3
      <3>4. t * (2 * h + c) + w = n2 * h + r2
        BY ONLY <2>1, <2>2, <2>3
      <3> QED
        BY <3>1, <3>2, <3>3, <3>4
    <2> HIDE DEF n2, r2
    <2>8. a % n2 = r2
      BY <2>3, <2>7, DivModUnique
    <2>9. f(n + 1) = a % Pow(2, n + 1)
      BY <2>1, <2>6, <2>8 DEF n2, r2
    <2>10. n + 1 \in Nat
      OBVIOUS
    <2> USE DEF f
    <2>11. n + 1 \in {k \in Nat : f(k) = a % Pow(2, k)}
      BY <2>9, <2>10
    <2> QED
      BY ONLY <2>11
  <1> HIDE DEF S
  <1>4. m \in S
    BY <1>2, <1>3, Induction
  <1> QED
    BY <1>4 DEF S

\* What & and | of two integers give, for any m that is long enough.
Meets(and, a, b, m) == Stable(Table(and), m, a, b, SignOf(and, a, b))

\* The result does not depend on the length.
LEMMA MeetsAgree ==
  ASSUME NEW and \in BOOLEAN, NEW a \in Int, NEW b \in Int, NEW m \in Nat, NEW n \in Nat,
         Beyond(Table(and), a, b, m, SignOf(and, a, b)),
         Beyond(Table(and), a, b, n, SignOf(and, a, b))
  PROVE  Meets(and, a, b, m) = Meets(and, a, b, n) /\ Meets(and, a, b, m) \in Int
  <1> DEFINE p == SignOf(and, a, b)
             ones == Table(and)
  <1>1. p \in BOOLEAN
    BY DEF SignOf
  <1>2. Beyond(ones, a, b, m, p) /\ Beyond(ones, a, b, n, p)
    OBVIOUS
  <1> HIDE DEF p, ones
  <1>3. m <= n => Stable(ones, n, a, b, p) = Stable(ones, m, a, b, p) /\ Stable(ones, m, a, b, p) \in Int
    BY <1>1, <1>2, StableBits
  <1>4. n <= m => Stable(ones, m, a, b, p) = Stable(ones, n, a, b, p) /\ Stable(ones, n, a, b, p) \in Int
    BY <1>1, <1>2, StableBits
  <1>5. m <= n \/ n <= m
    OBVIOUS
  <1> QED
    BY <1>3, <1>4, <1>5 DEF Meets, p, ones

LEMMA NumberFits ==
  ASSUME NEW z, IsMpz(z), NEW k \in Nat, Len(z.d) <= k
  PROVE  LimbBits * k \in Nat /\ Fits(IntOf(z), LimbBits * k)
  <1>1. LimbBits \in Nat /\ B = Pow(2, LimbBits) /\ B \in Nat \ {0}
    BY LimbsAre
  <1>2. /\ z.d \in Seq(Limb) /\ Len(z.d) \in Nat /\ NatOf(z.d) \in Nat /\ z.size \in Int
        /\ (z.size < 0 => IntOf(z) = -NatOf(z.d)) /\ (z.size >= 0 => IntOf(z) = NatOf(z.d))
    BY PartsOf
  <1>3. NatOf(z.d) < Pow(B, Len(z.d))
    BY <1>2, NatOfIs
  <1> HIDE DEF LimbBits
  <1>4. Pow(2, LimbBits * k) = Pow(B, k) /\ Pow(B, k) \in Nat
    <2>1. 2 \in Int
      OBVIOUS
    <2>2. Pow(2, LimbBits * k) = Pow(Pow(2, LimbBits), k)
      BY ONLY <1>1, <2>1, k \in Nat, PowProduct
    <2>3. Pow(B, k) \in Nat
      BY ONLY <1>1, k \in Nat, PowPositive
    <2> QED
      BY <1>1, <2>2, <2>3
  <1> DEFINE l == Len(z.d)
             c == NatOf(z.d)
  <1>5. Pow(B, l) <= Pow(B, k) /\ Pow(B, l) \in Nat
    <2>1. l \in Nat /\ l <= k
      BY <1>2
    <2> HIDE DEF l
    <2>2. Pow(B, l) <= Pow(B, k)
      BY ONLY <1>1, <2>1, k \in Nat, PowGrows
    <2>3. Pow(B, l) \in Nat
      BY ONLY <1>1, <2>1, PowPositive
    <2> QED
      BY <2>2, <2>3
  <1>6. c \in Nat /\ c < Pow(B, k) /\ (IntOf(z) = c \/ IntOf(z) = -c)
    <2> HIDE DEF l, c
    <2>1. c \in Nat /\ c < Pow(B, l)
      BY <1>2, <1>3 DEF c, l
    <2>2. c < Pow(B, k)
      BY ONLY <1>4, <1>5, <2>1
    <2>3. z.size < 0 \/ z.size >= 0
      BY <1>2
    <2> QED
      BY <1>2, <2>1, <2>2, <2>3 DEF c
  <1> HIDE DEF c
  <1>7. -Pow(B, k) <= IntOf(z) /\ IntOf(z) < Pow(B, k)
    BY ONLY <1>4, <1>6
  <1>8. LimbBits * k \in Nat
    BY ONLY <1>1, k \in Nat
  <1> QED
    BY <1>4, <1>7, <1>8 DEF Fits

\* The shorter operand is v: rneg and rn of mpz_and and mpz_ior.
Rneg(and, u, v) == IF and THEN u.size < 0 /\ v.size < 0 ELSE u.size < 0 \/ v.size < 0
Rn(and, u, v) == IF and <=> v.size < 0 THEN Len(u.d) ELSE Len(v.d)

LEMMA OrderedBits ==
  ASSUME NEW and \in BOOLEAN, NEW u, NEW v, IsMpz(u), IsMpz(v), Len(v.d) <= Len(u.d),
         NEW m \in Nat, Fits(IntOf(u), m), Fits(IntOf(v), m)
  PROVE  LET neg == Rneg(and, u, v)
         IN  Is(BitResult(BitLimbs(and, u, v, neg, Rn(and, u, v)), neg),
                Meets(and, IntOf(u), IntOf(v), m))
  <1> DEFINE neg == Rneg(and, u, v)
             n == Rn(and, u, v)
             a == IntOf(u)
             b == IntOf(v)
             k == LimbBits * n
  <1>1. /\ a \in Int /\ b \in Int /\ Len(u.d) \in Nat /\ Len(v.d) \in Nat
        /\ (u.size < 0 <=> a < 0) /\ (v.size < 0 <=> b < 0)
    BY PartsOf
  <1>2. n \in Nat /\ n <= Len(u.d) /\ Len(v.d) <= n
        /\ (n = Len(u.d) \/ (and <=> ~(b < 0)))
    BY <1>1 DEF Rn
  <1>3. neg = SignOf(and, a, b) /\ neg \in BOOLEAN
    BY <1>1 DEF Rneg, SignOf
  <1> HIDE DEF n
  <1>4. k \in Nat /\ Fits(b, k)
    BY <1>2, NumberFits
  <1>5. Beyond(Table(and), a, b, k, SignOf(and, a, b))
    <2>1. CASE n = Len(u.d)
      <3>1. Len(u.d) <= n
        BY <1>2, <2>1
      <3>2. Fits(a, k)
        BY <1>2, <3>1, NumberFits
      <3> HIDE DEF a, b, k
      <3> QED
        BY ONLY <1>1, <1>4, <3>2, and \in BOOLEAN, BothBeyond
    <2>2. CASE and <=> ~(b < 0)
      <3> HIDE DEF a, b, k
      <3>1. and <=> b >= 0
        BY <1>1, <2>2
      <3> QED
        BY ONLY <1>1, <1>4, <3>1, and \in BOOLEAN, OneBeyond
    <2> QED
      BY <1>2, <2>1, <2>2
  <1>6. Beyond(Table(and), a, b, m, SignOf(and, a, b))
    BY <1>1, BothBeyond
  <1>7. Is(BitResult(BitLimbs(and, u, v, neg, n), neg), Stable(Table(and), k, a, b, neg))
    BY <1>2, <1>3, BitResultIs
  <1> HIDE DEF a, b, k, neg
  <1>8. Meets(and, a, b, k) = Meets(and, a, b, m)
    BY ONLY <1>1, <1>4, <1>5, <1>6, and \in BOOLEAN, m \in Nat, MeetsAgree
  <1>9. Is(BitResult(BitLimbs(and, u, v, neg, n), neg), Meets(and, a, b, m))
    BY <1>3, <1>7, <1>8 DEF Meets
  <1> QED
    BY <1>9 DEF n, neg, a, b

\* An operand that is zero.
LEMMA MeetsZero ==
  ASSUME NEW a \in Int, NEW m \in Nat, Fits(a, m)
  PROVE  Meets(TRUE, a, 0, m) = 0 /\ Meets(FALSE, a, 0, m) = a
  <1>0. Fits(0, m) /\ Fits(0, 0) /\ 0 \in Int /\ 0 \in Nat
    <2>1. Pow(2, 0) = 1 /\ Pow(2, m) \in Nat \ {0}
      BY PowRec, TwoPow
    <2> QED
      BY <2>1 DEF Fits
  <1>1. Meets(TRUE, a, 0, m) = 0
    <2>1. TRUE \in BOOLEAN /\ (TRUE <=> 0 >= 0)
      OBVIOUS
    <2>2. Beyond(Table(TRUE), a, 0, m, SignOf(TRUE, a, 0))
      BY ONLY <1>0, <2>1, a \in Int, m \in Nat, OneBeyond
    <2>3. Beyond(Table(TRUE), a, 0, 0, SignOf(TRUE, a, 0))
      BY ONLY <1>0, <2>1, a \in Int, m \in Nat, OneBeyond
    <2>4. Meets(TRUE, a, 0, m) = Meets(TRUE, a, 0, 0)
      BY ONLY <1>0, <2>1, <2>2, <2>3, a \in Int, m \in Nat, MeetsAgree
    <2>5. BitsWhere(Table(TRUE), 0, a, 0) = 0
      BY <1>0, BitsRec DEF BitSteps
    <2>6. ~SignOf(TRUE, a, 0)
      BY DEF SignOf
    <2>7. Meets(TRUE, a, 0, 0) = 0
      <3>1. Meets(TRUE, a, 0, 0) = BitsWhere(Table(TRUE), 0, a, 0) - (IF SignOf(TRUE, a, 0) THEN Pow(2, 0) ELSE 0)
        BY DEF Meets, Stable
      <3>2. Meets(TRUE, a, 0, 0) = 0 - 0
        BY <2>5, <2>6, <3>1
      <3>3. 0 - 0 = 0
        OBVIOUS
      <3> QED
        BY <3>2, <3>3
    <2> QED
      BY <2>4, <2>7
  <1>2. Meets(FALSE, a, 0, m) = a
    <2> DEFINE t == Pow(2, m)
    <2>1. t \in Nat \ {0} /\ -t <= a /\ a < t
      BY TwoPow DEF Fits
    <2>2. BitsWhere(Table(FALSE), m, a, 0) = a % t
      BY OrZero
    <2>3. SignOf(FALSE, a, 0) <=> a < 0
      BY DEF SignOf
    <2>4. Meets(FALSE, a, 0, m) = (a % t) - IF a < 0 THEN t ELSE 0
      BY <2>2, <2>3 DEF Meets, Stable
    <2> HIDE DEF t
    <2>5. a < 0 => a % t = a + t
      <3>1. ASSUME a < 0 PROVE a % t = a + t
        <4> DEFINE r == a + t
        <4>1. r \in 0 .. t - 1 /\ a = t * (-1) + r /\ -1 \in Int
          BY <2>1, <3>1
        <4> HIDE DEF r
        <4>2. (t * (-1) + r) % t = r
          BY ONLY <2>1, <4>1, DivModUnique
        <4> QED
          BY <4>1, <4>2 DEF r
      <3> QED
        BY <3>1
    <2>6. ~(a < 0) => a % t = a
      <3>1. ASSUME ~(a < 0) PROVE a % t = a
        <4>1. a \in 0 .. t - 1
          BY <2>1, <3>1
        <4> QED
          BY <2>1, <4>1, ModSmall
      <3> QED
        BY <3>1
    <2>7. CASE a < 0
      <3>1. Meets(FALSE, a, 0, m) = (a + t) - t
        BY <2>4, <2>5, <2>7
      <3>2. (a + t) - t = a
        BY <2>1
      <3> QED
        BY <3>1, <3>2
    <2>8. CASE ~(a < 0)
      <3>1. Meets(FALSE, a, 0, m) = a - 0
        BY <2>4, <2>6, <2>8
      <3>2. a - 0 = a
        OBVIOUS
      <3> QED
        BY <3>1, <3>2
    <2> QED
      BY <2>7, <2>8
  <1> QED
    BY <1>1, <1>2

LEMMA MeetsSwapped ==
  ASSUME NEW and \in BOOLEAN, NEW a \in Int, NEW b \in Int, NEW m \in Nat
  PROVE  Meets(and, a, b, m) = Meets(and, b, a, m)
  <1>1. BitsWhere(Table(and), m, a, b) = BitsWhere(Table(and), m, b, a)
    BY SwapBits
  <1>2. SignOf(and, a, b) <=> SignOf(and, b, a)
    BY DEF SignOf
  <1> QED
    BY <1>1, <1>2 DEF Meets, Stable

LEMMA MpzBitsAre ==
  ASSUME NEW u, NEW v, IsMpz(u), IsMpz(v), NEW m \in Nat, Fits(IntOf(u), m), Fits(IntOf(v), m)
  PROVE  /\ Is(mpz_and(u, v), Meets(TRUE, IntOf(u), IntOf(v), m))
         /\ Is(mpz_ior(u, v), Meets(FALSE, IntOf(u), IntOf(v), m))
  <1> DEFINE and(p, q) == IF q.size = 0 THEN mpz_init
                          ELSE BitResult(BitLimbs(TRUE, p, q, Rneg(TRUE, p, q), Rn(TRUE, p, q)), Rneg(TRUE, p, q))
             ior(p, q) == IF q.size = 0 THEN p
                          ELSE BitResult(BitLimbs(FALSE, p, q, Rneg(FALSE, p, q), Rn(FALSE, p, q)), Rneg(FALSE, p, q))
  <1>1. ASSUME NEW p, NEW q, IsMpz(p), IsMpz(q), Len(q.d) <= Len(p.d), Fits(IntOf(p), m), Fits(IntOf(q), m)
        PROVE  /\ Is(and(p, q), Meets(TRUE, IntOf(p), IntOf(q), m))
               /\ Is(ior(p, q), Meets(FALSE, IntOf(p), IntOf(q), m))
    <2>1. TRUE \in BOOLEAN /\ FALSE \in BOOLEAN
      OBVIOUS
    <2>2. CASE q.size # 0
      <3>1. Is(BitResult(BitLimbs(TRUE, p, q, Rneg(TRUE, p, q), Rn(TRUE, p, q)), Rneg(TRUE, p, q)),
               Meets(TRUE, IntOf(p), IntOf(q), m))
        BY <1>1, <2>1, OrderedBits
      <3>2. Is(BitResult(BitLimbs(FALSE, p, q, Rneg(FALSE, p, q), Rn(FALSE, p, q)), Rneg(FALSE, p, q)),
               Meets(FALSE, IntOf(p), IntOf(q), m))
        BY <1>1, <2>1, OrderedBits
      <3> QED
        BY <2>2, <3>1, <3>2
    <2>3. CASE q.size = 0
      <3>1. IntOf(q) = 0 /\ IntOf(p) \in Int
        BY <1>1, <2>3, PartsOf
      <3>2. Meets(TRUE, IntOf(p), 0, m) = 0 /\ Meets(FALSE, IntOf(p), 0, m) = IntOf(p)
        BY <1>1, <3>1, MeetsZero
      <3>3. Is(mpz_init, 0) /\ Is(p, IntOf(p))
        BY <1>1, ZeroIsNumber DEF Is
      <3> QED
        BY <2>3, <3>1, <3>2, <3>3
    <2> QED
      BY <2>2, <2>3
  <1>2. Len(u.d) \in Nat /\ Len(v.d) \in Nat /\ IntOf(u) \in Int /\ IntOf(v) \in Int
    BY PartsOf
  <1>3. mpz_and(u, v) = (IF Len(u.d) < Len(v.d) THEN and(v, u) ELSE and(u, v))
    BY DEF mpz_and, Rneg, Rn
  <1>4. mpz_ior(u, v) = (IF Len(u.d) < Len(v.d) THEN ior(v, u) ELSE ior(u, v))
    BY DEF mpz_ior, Rneg, Rn
  <1> HIDE DEF and, ior
  <1>5. CASE Len(u.d) < Len(v.d)
    <2>1. Len(u.d) <= Len(v.d)
      BY <1>2, <1>5
    <2>2. Is(and(v, u), Meets(TRUE, IntOf(v), IntOf(u), m)) /\ Is(ior(v, u), Meets(FALSE, IntOf(v), IntOf(u), m))
      BY <1>1, <2>1
    <2>3. TRUE \in BOOLEAN /\ FALSE \in BOOLEAN
      OBVIOUS
    <2>4. Meets(TRUE, IntOf(v), IntOf(u), m) = Meets(TRUE, IntOf(u), IntOf(v), m)
      BY ONLY <1>2, <2>3, m \in Nat, MeetsSwapped
    <2>5. Meets(FALSE, IntOf(v), IntOf(u), m) = Meets(FALSE, IntOf(u), IntOf(v), m)
      BY ONLY <1>2, <2>3, m \in Nat, MeetsSwapped
    <2> QED
      BY <1>3, <1>4, <1>5, <2>2, <2>4, <2>5
  <1>6. CASE ~(Len(u.d) < Len(v.d))
    <2>1. Len(v.d) <= Len(u.d)
      BY <1>2, <1>6
    <2> QED
      BY <1>1, <1>3, <1>4, <1>6, <2>1
  <1> QED
    BY <1>5, <1>6

\* The same operation on the words of two fixnums, and what the program wants.
LEMMA WordMeets ==
  ASSUME NEW and \in BOOLEAN, NEW a \in Fixnum, NEW b \in Fixnum
  PROVE  /\ Fits(a, LimbBits - 2) /\ Fits(b, LimbBits - 2) /\ LimbBits - 2 \in Nat
         /\ Meets(and, a, b, LimbBits - 2) \in Fixnum
         /\ Fix(BitsWhere(Table(and), LimbBits, a, b)) = Fix(Meets(and, a, b, LimbBits - 2))
  <1> DEFINE k == LimbBits - 2
             h == Pow(2, k)
             p == SignOf(and, a, b)
             w == BitsWhere(Table(and), LimbBits, a, b)
             s == Meets(and, a, b, k)
  <1>1. /\ Fixnum = -h .. h - 1 /\ k \in Nat /\ HighBit = 2 * h /\ B = 4 * h /\ h \in Nat \ {0}
        /\ B = Pow(2, LimbBits) /\ LimbBits \in Nat /\ k <= LimbBits
    <2>1. k \in Nat
      BY FixnumIs
    <2>2. LimbBits \in Nat /\ B = Pow(2, LimbBits) /\ HighBit \in Nat \ {0}
      BY LimbsAre
    <2>3. k <= LimbBits
      <3> HIDE DEF LimbBits
      <3> QED
        BY <2>1, <2>2
    <2> QED
      BY <2>1, <2>2, <2>3, FixnumIs
  <1>2. a \in Int /\ b \in Int /\ Fits(a, k) /\ Fits(b, k)
    <2> HIDE DEF k
    <2>1. a \in -h .. h - 1 /\ b \in -h .. h - 1
      BY <1>1
    <2>2. a \in Int /\ b \in Int /\ -h <= a /\ a < h /\ -h <= b /\ b < h
      <3>1. h \in Nat \ {0}
        BY <1>1
      <3> HIDE DEF h
      <3> QED
        BY ONLY <2>1, <3>1
    <2> QED
      BY <2>2 DEF Fits
  <1>3. p \in BOOLEAN
    BY DEF SignOf
  <1> HIDE DEF p, k
  <1>4. Beyond(Table(and), a, b, k, p)
    BY <1>1, <1>2, BothBeyond DEF p
  <1>5. Fits(a, LimbBits) /\ Fits(b, LimbBits)
    BY ONLY <1>1, <1>2, FitsMore
  <1>6. Beyond(Table(and), a, b, LimbBits, p)
    BY <1>1, <1>2, <1>5, BothBeyond DEF p
  <1>7. Meets(and, a, b, LimbBits) = s
    BY <1>1, <1>2, <1>4, <1>6, MeetsAgree DEF p
  <1>8. w \in Int
    BY <1>1, <1>2, BitsRec DEF BitSteps
  <1>9. w = s + B * Bit(p) /\ s \in Int /\ Bit(p) \in {0, 1}
    <2>1. Meets(and, a, b, LimbBits) = w - (IF p THEN B ELSE 0)
      BY <1>1 DEF Meets, Stable, p
    <2>2. Bit(p) = IF p THEN 1 ELSE 0
      BY DEF Bit
    <2> HIDE DEF w, s, h
    <2>3. B \in Int
      BY <1>1
    <2>4. CASE p
      <3>1. s = w - B /\ Bit(p) = 1
        BY <1>7, <2>1, <2>2, <2>4
      <3> QED
        BY ONLY <1>8, <2>3, <3>1
    <2>5. CASE ~p
      <3>1. s = w - 0 /\ Bit(p) = 0
        BY <1>7, <2>1, <2>2, <2>5
      <3> QED
        BY ONLY <1>8, <2>3, <3>1
    <2> QED
      BY <1>3, <2>4, <2>5
  <1>10. s \in Fixnum
    <2>1. BitsWhere(Table(and), k, a, b) \in 0 .. h - 1
      BY <1>1, <1>2, BitsAreWord DEF Word
    <2>2. s = BitsWhere(Table(and), k, a, b) - (IF p THEN h ELSE 0)
      BY DEF Meets, Stable, p
    <2> DEFINE c == BitsWhere(Table(and), k, a, b)
    <2> HIDE DEF c, s, h
    <2>3. s \in -h .. h - 1
      <3>1. c \in 0 .. h - 1 /\ h \in Nat \ {0}
        BY <1>1, <2>1 DEF c
      <3>2. p => s = c - h
        BY <2>2 DEF c
      <3>3. ~p => s = c - 0
        BY <2>2 DEF c
      <3> QED
        BY ONLY <1>3, <3>1, <3>2, <3>3
    <2> QED
      BY <1>1, <2>3
  <1> HIDE DEF w, s
  <1>11. w % HighBit = s % HighBit
    <2>1. HighBit \in Nat \ {0} /\ B = HighBit * 2
      <3> HIDE DEF h
      <3> QED
        BY ONLY <1>1
    <2> DEFINE j == 2 * Bit(p)
    <2>2. j \in Int /\ w = s + HighBit * j
      <3> DEFINE c == Bit(p)
      <3>1. c \in {0, 1} /\ w = s + (HighBit * 2) * c /\ s \in Int /\ j = 2 * c
        BY <1>9, <2>1
      <3> HIDE DEF c, j
      <3> QED
        BY ONLY <2>1, <3>1
    <2> HIDE DEF j
    <2>3. (s + HighBit * j) % HighBit = s % HighBit
      BY ONLY <1>9, <2>1, <2>2, ModAddMultiple
    <2> QED
      BY <2>2, <2>3
  <1>12. Fix(w) = Fix(s)
    BY <1>11 DEF Fix
  <1> QED
    BY <1>1, <1>2, <1>10, <1>12 DEF w, s, k

LEMMA BitwiseIs ==
  ASSUME NEW a, NEW b, IsValue(a), IsValue(b), NEW m \in Nat, Fits(Value(a), m), Fits(Value(b), m)
  PROVE  /\ Exactly(idris_bigAnd(a, b), Meets(TRUE, Value(a), Value(b), m))
         /\ Exactly(idris_bigOr(a, b), Meets(FALSE, Value(a), Value(b), m))
  <1> DEFINE p == Value(a)
             q == Value(b)
  <1>1. /\ p \in Int /\ IsMpz(getbig(a)) /\ IntOf(getbig(a)) = p
        /\ q \in Int /\ IsMpz(getbig(b)) /\ IntOf(getbig(b)) = q
        /\ ~a.big => a.n = p /\ a.n \in Fixnum
        /\ ~b.big => b.n = q /\ b.n \in Fixnum
    BY ValueIs
  <1>2. CASE BothFix(a, b)
    <2>1. a.n = p /\ b.n = q /\ p \in Fixnum /\ q \in Fixnum
      BY <1>1, <1>2 DEF BothFix
    <2>2. idris_bigAnd(a, b) = WordAnd(p, q) /\ idris_bigOr(a, b) = WordOr(p, q)
      <3> HIDE DEF p, q
      <3> QED
        BY <1>2, <2>1 DEF idris_bigAnd, idris_bigOr
    <2> HIDE DEF p, q
    <2>3. ASSUME NEW and \in BOOLEAN
          PROVE  Exactly(Fix(BitsWhere(Table(and), LimbBits, p, q)), Meets(and, p, q, m))
      <3> DEFINE k == LimbBits - 2
                 s == Meets(and, p, q, k)
      <3>1. /\ Fits(p, k) /\ Fits(q, k) /\ k \in Nat /\ s \in Fixnum
            /\ Fix(BitsWhere(Table(and), LimbBits, p, q)) = Fix(s)
        BY <2>1, WordMeets
      <3> HIDE DEF k
      <3>2. Beyond(Table(and), p, q, k, SignOf(and, p, q))
        BY <1>1, <3>1, BothBeyond
      <3>3. Beyond(Table(and), p, q, m, SignOf(and, p, q))
        BY <1>1, BothBeyond DEF p, q
      <3>4. Meets(and, p, q, m) = s /\ s \in Int
        BY <1>1, <3>1, <3>2, <3>3, MeetsAgree
      <3> HIDE DEF s
      <3>5. Exactly(Fix(s), s)
        BY <3>4, FixExactly
      <3> QED
        BY <3>1, <3>4, <3>5
    <2>4. WordAnd(p, q) = Fix(BitsWhere(Table(TRUE), LimbBits, p, q))
      BY DEF WordAnd, BitAnd, Table
    <2>5. WordOr(p, q) = Fix(BitsWhere(Table(FALSE), LimbBits, p, q))
      BY DEF WordOr, BitOr, Table
    <2>6. Exactly(WordAnd(p, q), Meets(TRUE, p, q, m))
      BY <2>3, <2>4
    <2>7. Exactly(WordOr(p, q), Meets(FALSE, p, q, m))
      BY <2>3, <2>5
    <2> QED
      BY <2>2, <2>6, <2>7 DEF p, q
  <1>3. CASE ~BothFix(a, b)
    <2>1. idris_bigAnd(a, b) = Big(mpz_and(getbig(a), getbig(b)))
          /\ idris_bigOr(a, b) = Big(mpz_ior(getbig(a), getbig(b)))
      BY <1>3 DEF idris_bigAnd, idris_bigOr, bigAnd, bigOr
    <2>2. Fits(IntOf(getbig(a)), m) /\ Fits(IntOf(getbig(b)), m)
      BY <1>1
    <2>3. /\ Is(mpz_and(getbig(a), getbig(b)), Meets(TRUE, IntOf(getbig(a)), IntOf(getbig(b)), m))
          /\ Is(mpz_ior(getbig(a), getbig(b)), Meets(FALSE, IntOf(getbig(a)), IntOf(getbig(b)), m))
      BY <1>1, <2>2, MpzBitsAre
    <2>4. /\ Is(mpz_and(getbig(a), getbig(b)), Meets(TRUE, p, q, m))
          /\ Is(mpz_ior(getbig(a), getbig(b)), Meets(FALSE, p, q, m))
      BY <1>1, <2>3
    <2> HIDE DEF p, q
    <2>5. BigIs(idris_bigAnd(a, b), Meets(TRUE, p, q, m)) /\ BigIs(idris_bigOr(a, b), Meets(FALSE, p, q, m))
      BY <2>1, <2>4, BigNumber
    <2>6. Exactly(idris_bigAnd(a, b), Meets(TRUE, p, q, m)) /\ Exactly(idris_bigOr(a, b), Meets(FALSE, p, q, m))
      BY <2>5, BigExactly
    <2> QED
      BY <2>6 DEF p, q
  <1> QED
    BY <1>2, <1>3

\* What the program is told to want of & and |.
LEMMA SignedMeets ==
  ASSUME MaxBits \in Nat, NEW a \in Int, NEW b \in Int, Fits(a, MaxBits), Fits(b, MaxBits)
  PROVE  /\ Signed(BitAnd(MaxBits + 1, a, b)) = Meets(TRUE, a, b, MaxBits)
         /\ Signed(BitOr(MaxBits + 1, a, b)) = Meets(FALSE, a, b, MaxBits)
         /\ Meets(TRUE, a, b, MaxBits) \in Int /\ Meets(FALSE, a, b, MaxBits) \in Int
  <1> DEFINE t == Pow(2, MaxBits)
  <1>1. t \in Nat \ {0} /\ Wide = 2 * t /\ Wide \div 2 = t
    <2>1. t \in Nat \ {0} /\ Pow(2, MaxBits + 1) = 2 * t
      BY TwoPow
    <2> HIDE DEF t
    <2> QED
      BY <2>1 DEF Wide
  <1>2. ASSUME NEW and \in BOOLEAN
        PROVE  /\ Signed(BitsWhere(Table(and), MaxBits + 1, a, b)) = Meets(and, a, b, MaxBits)
               /\ Meets(and, a, b, MaxBits) \in Int
    <2> DEFINE p == SignOf(and, a, b)
               w == BitsWhere(Table(and), MaxBits, a, b)
               v == BitsWhere(Table(and), MaxBits + 1, a, b)
    <2>1. p \in BOOLEAN
      BY DEF SignOf
    <2>2. Beyond(Table(and), a, b, MaxBits, p)
      BY BothBeyond
    <2>3. w \in 0 .. t - 1
      BY BitsAreWord DEF Word
    <2>4. MaxBits >= MaxBits
      OBVIOUS
    <2> HIDE DEF p
    <2>5. <<BitAt(a, MaxBits), BitAt(b, MaxBits)>> \in Table(and) <=> p
      BY <2>2, <2>4 DEF Beyond
    <2>6. v = w + (IF p THEN t ELSE 0)
      <3>1. p => v = w + t
        BY <2>5, BitsRec DEF BitSteps
      <3>2. ~p => v = w
        BY <2>5, BitsRec DEF BitSteps
      <3> HIDE DEF v, w, t
      <3> QED
        BY <2>1, <2>3, <1>1, <3>1, <3>2
    <2>7. Meets(and, a, b, MaxBits) = w - (IF p THEN t ELSE 0)
      BY DEF Meets, Stable, p
    <2> DEFINE s == Meets(and, a, b, MaxBits)
    <2> HIDE DEF v, w, t, s
    <2>8. Signed(v) = IF v >= t THEN v - 2 * t ELSE v
      BY <1>1 DEF Signed
    <2>9. CASE p
      <3>1. v = w + t /\ s = w - t
        BY <2>6, <2>7, <2>9 DEF s
      <3>2. v >= t /\ v - 2 * t = s /\ s \in Int
        BY ONLY <1>1, <2>3, <3>1
      <3> QED
        BY <2>8, <3>2 DEF s, v
    <2>10. CASE ~p
      <3>1. v = w /\ s = w - 0
        BY <2>1, <2>6, <2>7, <2>10, <2>3, <1>1 DEF s
      <3>2. ~(v >= t) /\ v = s /\ s \in Int
        BY ONLY <1>1, <2>3, <3>1
      <3> QED
        BY <2>8, <3>2 DEF s, v
    <2> QED
      BY <2>1, <2>9, <2>10
  <1>3. BitAnd(MaxBits + 1, a, b) = BitsWhere(Table(TRUE), MaxBits + 1, a, b)
    BY DEF BitAnd, Table
  <1>4. BitOr(MaxBits + 1, a, b) = BitsWhere(Table(FALSE), MaxBits + 1, a, b)
    BY DEF BitOr, Table
  <1>5. TRUE \in BOOLEAN /\ FALSE \in BOOLEAN
    OBVIOUS
  <1> QED
    BY <1>2, <1>3, <1>4, <1>5

=============================================================================
