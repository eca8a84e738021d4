----------------------------- MODULE MCNumbers -----------------------------
(* BigInt on limbs of eight bits: fixnums have seven, base ten takes two   *)
(* digits to a limb.                                                       *)
EXTENDS BigInt

MCTimesBits == {<<1, 2>>, <<2, 1>>}
MCFixOperands == {-64, -5, -4, -3, -1, 0, 1, 2, 3, 7, 10, 63}
MCBigOperands == {-1, 0, 1, 10, 99, 255, 256, -256, -257, 1000, 34047, 40000, 65535, 65536, -65537,
                  \* dividends and divisors that take every branch of mpn_div_qr_pi1:
                  \* the top limbs are equal, the estimate is one too large, or the
                  \* remainder of three limbs is still not below the divisor
                  217076345, 847955, 497260322, 5290083, 408302750, 572439,
                  -227089225, 13238271, -8388608, 16777215, 536870911, -268435456}
MCAllOperands == -40 .. 140
MCShiftCounts == {0, 1, 3, 7}
=============================================================================
