-------------------------------- MODULE Bits --------------------------------
(***************************************************************************)
(* Powers, and the bitwise operators of C on numbers in two's complement:  *)
(* bit i of a number is that of its quotient by 2^i, rounded down.         *)
(***************************************************************************)
EXTENDS Integers

\* b to the power n.
Pow(b, n) == LET p[i \in Nat] == IF i = 0 THEN 1 ELSE b * p[i - 1] IN p[n]

\* The number whose digits in base b are d[1], the lowest, to d[n].
Number(b, d, n) ==
    LET v[i \in 0 .. n] == IF i = 0 THEN 0 ELSE v[i - 1] + d[i] * Pow(b, i - 1) IN v[n]

BitAt(a, i) == (a \div Pow(2, i)) % 2

\* The number of n bits whose bit i is one when the bits i of a and b are a
\* pair of ones, the truth table of the operator.
BitsWhere(ones, n, a, b) ==
    LET low[i \in Nat] ==
          IF i = 0 THEN 0
          ELSE low[i - 1]
               + IF <<BitAt(a, i - 1), BitAt(b, i - 1)>> \in ones THEN Pow(2, i - 1) ELSE 0
    IN  low[n]

BitAnd(n, a, b) == BitsWhere({<<1, 1>>}, n, a, b)                      \* a & b
BitOr(n, a, b)  == BitsWhere({<<0, 1>>, <<1, 0>>, <<1, 1>>}, n, a, b)   \* a | b
BitXor(n, a, b) == BitsWhere({<<0, 1>>, <<1, 0>>}, n, a, b)            \* a ^ b
=============================================================================
