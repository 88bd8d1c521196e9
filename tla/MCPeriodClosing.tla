-------------------------- MODULE MCPeriodClosing --------------------------
(* Small instances of PeriodClosing for TLC.                               *)
EXTENDS PeriodClosing, TLC

CONSTANTS income, s1, s2

(* Debits and credits of vouchers.                                         *)
Signed == {-1, 1}

Symmetry == Permutations(Slots)

(* Nothing is entered where a closing under way has summed.                *)
OrderlySpec == Init /\ [][Next /\ Undisturbed]_vars

(* No month is locked that a request has found open.                       *)
OpenSpec == Init /\ [][Next /\ NotLocked]_vars
=============================================================================
