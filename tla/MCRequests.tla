----------------------------- MODULE MCRequests -----------------------------
(* A small instance of Requests for TLC: a budget for one account and one  *)
(* for both; MCApprovals has the larger flow.                              *)
EXTENDS Requests, FiniteSets, TLC

CONSTANTS s1, s2, r1, b1, b2, owner, ann, f1, null

OneStep      == [f \in Flows |-> {1}]
NoThreshold  == [f \in Flows |-> [o \in Orders |-> 0]]
Everybody    == [f \in Flows |-> [o \in Orders |-> "all"]]
OnlyAnn      == {{ann}}
Small        == [amount |-> 1, account |-> "travel", center |-> null, month |-> 1]
OtherAccount == [amount |-> 1, account |-> "rent", center |-> null, month |-> 1]
TwoContents  == {Small, OtherAccount}
Ranges       == b1 :> [accounts |-> {"travel", "rent"}, center |-> null, months |-> {1}]
             @@ b2 :> [accounts |-> {"travel"}, center |-> null, months |-> {1}]
=============================================================================
