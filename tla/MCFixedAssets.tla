--------------------------- MODULE MCFixedAssets ---------------------------
(* A small instance of FixedAssets for TLC: eleven cents over two months,  *)
(* which leaves an odd one for the last, over before the last month there  *)
(* is; and seven over two, entered a month before depreciation begins.     *)
EXTENDS FixedAssets, TLC

CONSTANTS s1, s2, a1, a2

SomeCards ==
  {[cost |-> 12, salvage |-> 1, life |-> 2, acquired |-> 1, start |-> 1],
   [cost |-> 7, salvage |-> 0, life |-> 2, acquired |-> 1, start |-> 2],
   [cost |-> 1, salvage |-> 2, life |-> 1, acquired |-> 1, start |-> 1]}

Symmetry == Permutations(Assets) \cup Permutations(Slots)

(* The steps in which transactions overlap in an orderly way.              *)
OrderlySpec == Init /\ [][Next /\ OneMonth' /\ RunsBefore']_vars
=============================================================================
