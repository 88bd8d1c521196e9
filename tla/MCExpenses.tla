----------------------------- MODULE MCExpenses -----------------------------
(* A small instance of Expenses for TLC: two reimbursements compete for an *)
(* invoice, one kind of claim offsets an advance.                          *)
EXTENDS Expenses, TLC

CONSTANTS s1, s2, r1, r2, a1, inv, employee, manager, null

Plain      == [invoices |-> {inv}, amount |-> 1, advance |-> null]
Offsetting == [invoices |-> {inv}, amount |-> 1, advance |-> a1]
BothClaims == {Plain, Offsetting}

Symmetry == Permutations(Slots) \cup Permutations(Reimbursements)
=============================================================================
