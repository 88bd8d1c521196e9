----------------------------- MODULE MCPayments -----------------------------
(* Small instances of Payments for TLC.                                    *)
EXTENDS Payments, TLC

CONSTANTS s1, s2, p1, p2, p3, t1, b1, b2

OneDue == [t \in Targets |-> 1]

Symmetry == Permutations(Payments) \cup Permutations(Slots) \cup Permutations(Refs)
=============================================================================
