-------------------------- MODULE MCVoucherLedger --------------------------
(* Small instances of VoucherLedger for TLC.                               *)
EXTENDS VoucherLedger, TLC

CONSTANTS e1, a1, t1, r1, r2, u1, u2, s1, s2

OneEvent    == [v \in Analysis \cup Template |-> e1]
GeneralWord == [v \in Analysis \cup Template |-> "general"]
FirstMonth  == [e \in Events |-> 1]

Symmetry == Permutations(Users) \cup Permutations(Slots) \cup Permutations(Reversal)

(* The steps in which requests overlap in an orderly way.                  *)
OrderlySpec == Init /\ [][Next /\ PostsAlone' /\ NotRebuilt /\ NotLocked]_vars
=============================================================================
