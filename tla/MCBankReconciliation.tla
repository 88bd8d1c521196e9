------------------------ MODULE MCBankReconciliation ------------------------
(* A small instance of BankReconciliation for TLC: a payment of 100 yuan   *)
(* and a receipt of 101.50, both on day 1; the voucher for the payment     *)
(* matches by itself, the one for the receipt is dated the day after.      *)
EXTENDS BankReconciliation, TLC

CONSTANTS l1, l2, v1, v2, s1, s2

(* x of the first line or voucher, y of the second.                        *)
ByLine(x, y)    == [l \in Lines |-> IF l = l1 THEN x ELSE y]
ByVoucher(x, y) == [v \in Vouchers |-> IF v = v1 THEN x ELSE y]

DayOfLine    == ByLine(1, 1)
AmountOfLine == ByLine(-10000, 10150)
DayCreated   == ByVoucher(1, 1)
DayEntered   == ByVoucher(1, 2)
TotalOf      == ByVoucher(10000, 10150)
OnAccount    == ByVoucher(-10000, 10150)
Words        == ByLine(ByVoucher(10, 0), ByVoucher(45, 0))
Bonus        == ByLine(ByVoucher(0, 0), ByVoucher(10, 0))

(* One matching run at a time, which RaisedOnce rests on; confirmations    *)
(* and closings overlap with it and with each other.                       *)
OneRun ==
  \A s, t \in Slots :
    {slot[s].op, slot[t].op} \subseteq {"match", "raise", "mark"} => s = t

(* A bound: days are closed only while there is no more than the first     *)
(* line and the first voucher.  Closings change nothing of either, so that *)
(* two of both may as well be matched in behaviours without closings.      *)
FirstOnly ==
  (\E s \in Slots : slot[s].op \in {"bank", "book", "check", "write"})
    \/ (\E d \in Days : sealed[d] # NoRow)
  => (\A l \in Lines \ {l1} : line[l] = NoRow) /\ posted \subseteq {v1}

OneRunSpec == Init /\ [][Next /\ OneRun' /\ FirstOnly']_vars

Symmetry == Permutations(Slots)
=============================================================================
