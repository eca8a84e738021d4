------------------------------- MODULE Words -------------------------------
(***************************************************************************)
(* The fixed-width integers (rts/idris_bitstring.c).  A word of w bits is  *)
(* its unsigned value.  The C operators promote 8 and 16 bits to int, so   *)
(* every operation computes in p bits, p the longer of w and an int, and   *)
(* the constructor cuts the result back to w bits.  What C leaves          *)
(* undefined is Undefined: a caller who gets there has no program any      *)
(* more.                                                                   *)
(***************************************************************************)
EXTENDS Integers, Sequences, Bits

CONSTANTS W8, W16, W32, W64,   \* the widths, scaled down
          IntBits              \* the width of an int

ASSUME WidthsAssumption ==
    /\ {W8, W16, W32, W64, IntBits} \subseteq Nat
    /\ 0 < W8 /\ W8 < W16 /\ W16 < W32 /\ W32 < W64
    /\ W16 < IntBits /\ IntBits <= W32
    /\ W16 % W8 = 0 /\ W32 % W8 = 0 /\ W64 % W8 = 0

Undefined == -1   \* no word

Word(w) == 0 .. Pow(2, w) - 1
Cut(w, n) == n % Pow(2, w)                                    \* (uintw_t)n
Sign(w, a) == IF 2 * a >= Pow(2, w) THEN a - Pow(2, w) ELSE a \* (intw_t)a
Longer(w, v) == IF w >= v THEN w ELSE v

\* The quotient and the remainder of C: towards zero, undefined for zero and
\* for the one quotient that has no room in p bits.
CQuot(a, b) == LET q == (IF a < 0 THEN -a ELSE a) \div (IF b < 0 THEN -b ELSE b)
               IN  IF (a < 0) = (b < 0) THEN q ELSE -q
Overflows(p, n) == n < -(Pow(2, p - 1)) \/ n >= Pow(2, p - 1)
DivUndefined(p, a, b) == IF b = 0 THEN TRUE ELSE Overflows(p, CQuot(a, b))

Bool(t) == IF t THEN 1 ELSE 0

----------------------------------------------------------------------------
(* The operators of C on two words of w bits, computed in p bits.  In an   *)
(* int (p > w) the operands are signed, and a product may overflow; a      *)
(* shift by p or more is undefined whatever p is.  (A left shift of an int *)
(* drops the bits that leave it, as the compilers in use define it.)       *)

Exact(w, p, n) == IF p > w /\ Overflows(p, n) THEN Undefined ELSE Cut(w, n)
Shifted_(w, p, b, n) == IF b < 0 \/ b >= p THEN Undefined ELSE Cut(w, n)

Operators == {"Plus", "Minus", "Times", "UDiv", "SDiv", "URem", "SRem", "Lt", "Gt", "Eq",
              "Lte", "Gte", "Compl", "And", "Or", "Xor", "Shl", "LShr", "AShr"}

BitsOp(w, p, o, a, b) ==
    LET sa == Sign(w, a)
        sb == Sign(w, b)
    IN  CASE o = "Plus"  -> Exact(w, p, a + b)
          [] o = "Minus" -> Exact(w, p, a - b)
          [] o = "Times" -> Exact(w, p, a * b)
          [] o = "UDiv"  -> IF b = 0 THEN Undefined ELSE a \div b
          [] o = "URem"  -> IF b = 0 THEN Undefined ELSE a % b
          [] o = "SDiv"  -> IF DivUndefined(p, sa, sb) THEN Undefined ELSE Cut(w, CQuot(sa, sb))
          [] o = "SRem"  -> IF DivUndefined(p, sa, sb) THEN Undefined
                            ELSE Cut(w, sa - sb * CQuot(sa, sb))
          [] o = "Lt"  -> Bool(a < b)
          [] o = "Gt"  -> Bool(a > b)
          [] o = "Eq"  -> Bool(a = b)
          [] o = "Lte" -> Bool(a <= b)
          [] o = "Gte" -> Bool(a >= b)
          [] o = "Compl" -> Cut(w, -a - 1)
          [] o = "And" -> BitAnd(w, a, b)
          [] o = "Or"  -> BitOr(w, a, b)
          [] o = "Xor" -> BitXor(w, a, b)
          [] o = "Shl"  -> Shifted_(w, p, b, a * Pow(2, b))
          [] o = "LShr" -> Shifted_(w, p, b, a \div Pow(2, b))
          [] o = "AShr" -> IF sb < 0 THEN Undefined ELSE Shifted_(w, p, sb, sa \div Pow(2, sb))

b8Op(o, a, b)  == BitsOp(W8, IntBits, o, a, b)
b16Op(o, a, b) == BitsOp(W16, IntBits, o, a, b)
b32Op(o, a, b) == BitsOp(W32, Longer(W32, IntBits), o, a, b)
b64Op(o, a, b) == BitsOp(W64, Longer(W64, IntBits), o, a, b)

WordOp(w, o, a, b) == IF w = W8 THEN b8Op(o, a, b) ELSE IF w = W16 THEN b16Op(o, a, b)
                      ELSE IF w = W32 THEN b32Op(o, a, b) ELSE b64Op(o, a, b)

----------------------------------------------------------------------------
(* Conversions: to and from a machine integer, between widths with zeros   *)
(* (Z), with the sign (S), or cut (T), and through memory.                 *)

bConst(w, n) == Cut(w, n)              \* idris_b8const ... idris_b64
idris_castB32Int(a) == a
bZ(w, v, a) == a
UnsignedS(w, v, a) == a                \* mutant of bS
bS(w, v, a) == Cut(v, Sign(w, a))
bT(w, v, a) == Cut(v, a)

\* Memory is a sequence of bytes of W8 bits, the least significant first.
Bytes(w) == w \div W8
peek(w, mem, off) == Number(Pow(2, W8), SubSeq(mem, off + 1, off + Bytes(w)), Bytes(w))
\* Mutant of poke: the most significant byte first.
PokeBackwards(w, mem, off, a) ==
    [i \in 1 .. Len(mem) |->
       IF i > off /\ i <= off + Bytes(w) THEN Cut(W8, a \div Pow(2, W8 * (off + Bytes(w) - i)))
       ELSE mem[i]]
poke(w, mem, off, a) ==
    [i \in 1 .. Len(mem) |->
       IF i > off /\ i <= off + Bytes(w) THEN Cut(W8, a \div Pow(2, W8 * (i - off - 1))) ELSE mem[i]]

----------------------------------------------------------------------------
(* Properties of two words, for a module that has some.                    *)

Widths == {W8, W16, W32, W64}

\* The narrow result is the wide one cut: for the ring whatever bits extend
\* the operands, else with the sign or with zeros.
Ring == {"Plus", "Minus", "Times", "And", "Or", "Xor", "Compl"}
SignExtended == {"SDiv", "SRem", "AShr"}

Extensions(o, w, v, a) == IF o \in Ring THEN {bZ(w, v, a), bS(w, v, a)}
                          ELSE IF o \in SignExtended THEN {bS(w, v, a)} ELSE {bZ(w, v, a)}

Agree(o, w, v, a, b) ==
    \A ea \in Extensions(o, w, v, a), eb \in Extensions(o, w, v, b) :
        LET narrow == WordOp(w, o, a, b)
            wide == WordOp(v, o, ea, eb)
        IN  narrow # Undefined /\ wide # Undefined => bT(v, w, wide) = narrow

\* a = quotient * b + remainder, whichever way the operands are read.
Divides(w, a, b) ==
    \A d \in {<<"UDiv", "URem">>, <<"SDiv", "SRem">>} :
        LET q == WordOp(w, d[1], a, b)
            r == WordOp(w, d[2], a, b)
        IN  q # Undefined => Cut(w, q * b + r) = a

\* What poke stores at any offset is what peek loads, and no other byte of
\* the memory changes.
StoresAndLoads(w, mem, a) ==
    \A off \in 0 .. Len(mem) - Bytes(w) :
        LET now == poke(w, mem, off, a)
        IN  /\ peek(w, now, off) = a
            /\ \A i \in 1 .. Len(mem) : now[i] # mem[i] => i > off /\ i <= off + Bytes(w)
            /\ poke(w, now, off, peek(w, mem, off)) = mem

=============================================================================
