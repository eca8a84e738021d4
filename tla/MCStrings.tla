----------------------------- MODULE MCStrings -----------------------------
(* Instances of Strings: the last character of one byte and the first ones  *)
(* of two, three and four.                                                  *)
EXTENDS Strings

MCEncoding == (127 :> <<127>>) @@ (128 :> <<194, 128>>) @@ (2047 :> <<223, 191>>)
           @@ (2048 :> <<224, 160, 128>>) @@ (65536 :> <<240, 144, 128, 128>>)
UpTo3 == 0 .. 3
Signed == -2 .. 2
=============================================================================
