------------------------------ MODULE MCCHeap ------------------------------
(* Instances of CHeap.                                                     *)
EXTENDS CHeap, TLC

CONSTANTS a, b, item1, item2, item3

MCSize == item1 :> 1 @@ item2 :> 2 @@ item3 :> 4
MCOneSize == item1 :> 1 @@ item2 :> 2
=============================================================================
