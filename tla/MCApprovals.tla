---------------------------- MODULE MCApprovals ----------------------------
(* A small instance of Approvals for TLC: a flow of three steps, the        *)
(* second of which the smaller amount skips.                               *)
EXTENDS Approvals, TLC

CONSTANTS d1, ann, bob, f1, f2

Steps      == f1 :> {1, 2, 3} @@ f2 :> {1}
SkipSecond == [f \in Flows |-> 1 :> 0 @@ 2 :> 5 @@ 3 :> 0]
Modes      == f1 :> (1 :> "all" @@ 2 :> "all" @@ 3 :> "any")
           @@ f2 :> [o \in Orders |-> "any"]
SomePanels == {{ann}, {ann, bob}}
=============================================================================
