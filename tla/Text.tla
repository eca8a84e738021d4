-------------------------------- MODULE Text --------------------------------
(***************************************************************************)
(* What strings are to an Idris program (libs/prelude/Prelude/Strings.idr): *)
(* sequences of characters, ordered by their first difference.              *)
(***************************************************************************)
EXTENDS Integers, SequencesExt

Clamp(n, max) == IF n < 0 THEN 0 ELSE IF n > max THEN max ELSE n

\* substr: nothing is before the beginning or behind the end.
Substring(t, from, len) ==
    LET o == Clamp(from, Len(t)) IN SubSeq(t, o + 1, o + Clamp(len, Len(t) - o))

Before(s, t) ==
    \E n \in 0 .. Len(s) :
       /\ n < Len(t)
       /\ SubSeq(s, 1, n) = SubSeq(t, 1, n)
       /\ n = Len(s) \/ s[n + 1] < t[n + 1]
=============================================================================
