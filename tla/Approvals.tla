----------------------------- MODULE Approvals -----------------------------
(***************************************************************************)
(* The approval engine (approval/engine.ts, approval/store.ts): a document *)
(* is submitted to the active flow, whose steps that its amount calls for  *)
(* and the users of each step are fixed in an instance; the users of the   *)
(* current step approve or reject, or ask further users; the instance      *)
(* moves from step to step and ends.  Every action runs in a transaction   *)
(* that holds the lock of the instance's row, so it is one step here.      *)
(***************************************************************************)
EXTENDS Integers

CONSTANTS
  Documents,     \* documents that need approval, of any type
  Users,
  Flows,         \* approval flows; a flow is never altered once created
  Orders,        \* the orders its steps may have
  StepsOf,       \* the orders of a flow's steps
  Threshold,     \* the amount from which a step of a flow is required
  Mode,          \* whether all of a step's users must approve, or any
  Panels,        \* the sets of users the approvers of a step may resolve to
  Totals,        \* amounts of documents
  MaxInstances,  \* bound: instances ever created
  NoFlow         \* no flow is active

Instances == 1..MaxInstances

ASSUME ApprovalsAssumption ==
  /\ Orders \subseteq Nat \ {0} /\ Totals \subseteq Nat /\ MaxInstances \in Nat
  /\ StepsOf \in [Flows -> SUBSET Orders]
  /\ Threshold \in [Flows -> [Orders -> Nat]]
  /\ Mode \in [Flows -> [Orders -> {"all", "any"}]]
  /\ Panels \subseteq SUBSET Users
  /\ NoFlow \notin Flows

Ended    == {"approved", "rejected", "cancelled"}
Opinions == {"none", "pending", "approved", "rejected"}

(* current = 0 is null; the opinion of a user who is not asked is "none".  *)
Instance == [document : Documents, submitter : Users, flow : Flows,
             status : {"pending"} \cup Ended, current : Orders \cup {0},
             required : SUBSET Orders, opinion : [Orders -> [Users -> Opinions]]]

VARIABLES
  active,    \* approval_flows with is_active
  instance   \* approval_instances and approval_step_participants, in the
             \* order of created_at

approvalVars == <<active, instance>>

NoInstance    == [status |-> "none"]
IsPending(i)  == instance[i].status = "pending"
Asked(i, o)   == {u \in Users : instance[i].opinion[o][u] # "none"}

ApprovalInit ==
  /\ active = NoFlow
  /\ instance = [i \in Instances |-> NoInstance]

-----------------------------------------------------------------------------
(* The engine.                                                             *)

Required(f, amount) == {o \in StepsOf[f] : amount >= Threshold[f][o]}

(* The least of a set of orders, as the set with that single member.       *)
Least(orders) == {o \in orders : \A x \in orders : o <= x}

StepsAfter(required, o) == Least({x \in required : x > o})

IsStepSatisfied(mode, opinion) ==
  LET asked == {u \in Users : opinion[u] # "none"} IN
  /\ asked # {}
  /\ IF mode = "any" THEN \E u \in asked : opinion[u] = "approved"
     ELSE \A u \in asked : opinion[u] = "approved"

(* An approval that satisfies the current step moves to the next one that  *)
(* is required, or ends the instance.                                      *)
Advance(row) ==
  IF ~IsStepSatisfied(Mode[row.flow][row.current], row.opinion[row.current])
  THEN {row}
  ELSE IF {x \in row.required : x > row.current} = {}
       THEN {[row EXCEPT !.status = "approved", !.current = 0]}
       ELSE {[row EXCEPT !.current = o] : o \in StepsAfter(row.required, row.current)}

-----------------------------------------------------------------------------
(* The store.                                                              *)

(* createFlow: the flow before it is no longer active.                     *)
CreateFlow(f) ==
  /\ f # active
  /\ active' = f
  /\ UNCHANGED instance

(* uq_approval_instance_pending                                            *)
Submitted(d) == \E i \in Instances : IsPending(i) /\ instance[i].document = d

NextInstance == {i \in Instances : /\ instance[i] = NoInstance
                                   /\ \A j \in Instances : j < i => instance[j] # NoInstance}

(* The row inserted: all of the required steps' users are asked at once.   *)
NewInstance(d, u, f, required, first, panel) ==
  [document |-> d, submitter |-> u, flow |-> f, status |-> "pending",
   current |-> first, required |-> required,
   opinion |-> [o \in Orders |-> [x \in Users |->
     IF o \in required /\ x \in panel[o] THEN "pending" ELSE "none"]]]

(* submitForApproval: refused when no step is required or one has nobody.  *)
(* The flow and its users are read before the transaction; a flow created  *)
(* meanwhile is as good as created after it, since it alters no instance.  *)
SubmitForApproval(d, u, amount, panel) ==
  LET required == Required(active, amount) IN
  /\ active # NoFlow
  /\ \A o \in required : panel[o] # {}
  /\ ~Submitted(d)
  /\ \E i \in NextInstance, first \in Least(required) :
       instance' = [instance EXCEPT ![i] =
         NewInstance(d, u, active, required, first, panel)]
  /\ UNCHANGED active

(* Whether u is asked for an opinion by the current step and owes it.      *)
Owes(i, u) ==
  IsPending(i) /\ instance[i].opinion[instance[i].current][u] = "pending"

Record(row, u, opinion) == [row EXCEPT !.opinion[row.current][u] = opinion]

(* A plausible bug: the step is judged before the opinion is recorded.     *)
ApproveEarly(i, u) ==
  /\ Owes(i, u)
  /\ \E row \in Advance(instance[i]) :
       instance' = [instance EXCEPT ![i] =
         [row EXCEPT !.opinion[instance[i].current][u] = "approved"]]
  /\ UNCHANGED active

(* act: the opinion is recorded first, then the step is judged with it.    *)
Approve(i, u) ==
  /\ Owes(i, u)
  /\ \E row \in Advance(Record(instance[i], u, "approved")) :
       instance' = [instance EXCEPT ![i] = row]
  /\ UNCHANGED active

(* One rejection ends the instance, in either mode.                        *)
Reject(i, u) ==
  /\ Owes(i, u)
  /\ instance' = [instance EXCEPT ![i] =
       [Record(@, u, "rejected") EXCEPT !.status = "rejected", !.current = 0]]
  /\ UNCHANGED active

(* Only the submitter withdraws; the opinions so far stay.                 *)
Cancel(i, u) ==
  /\ IsPending(i)
  /\ instance[i].submitter = u
  /\ instance' = [instance EXCEPT ![i].status = "cancelled", ![i].current = 0]
  /\ UNCHANGED active

(* A plausible bug: a user may be added to any step.                       *)
AddParticipantAnywhere(i, u, target) ==
  /\ IsPending(i)
  /\ u \in Asked(i, instance[i].current)
  /\ \E o \in instance[i].required :
       instance' = [instance EXCEPT ![i].opinion[o][target] =
         IF @ = "none" THEN "pending" ELSE @]
  /\ UNCHANGED active

(* A user of the current step asks another one; who is asked stays asked.  *)
AddParticipant(i, u, target) ==
  /\ IsPending(i)
  /\ u \in Asked(i, instance[i].current)
  /\ target \notin Asked(i, instance[i].current)
  /\ instance' = [instance EXCEPT ![i].opinion[instance[i].current][target] = "pending"]
  /\ UNCHANGED active

ApprovalNext ==
  \/ \E f \in Flows : CreateFlow(f)
  \/ \E d \in Documents, u \in Users, amount \in Totals, panel \in [Orders -> Panels] :
       SubmitForApproval(d, u, amount, panel)
  \/ \E i \in Instances, u \in Users :
       \/ Approve(i, u)
       \/ Reject(i, u)
       \/ Cancel(i, u)
       \/ \E target \in Users : AddParticipant(i, u, target)

ApprovalSpec == ApprovalInit /\ [][ApprovalNext]_approvalVars

-----------------------------------------------------------------------------
(* Every variable keeps its type.                                          *)
ApprovalTypeOK ==
  /\ active \in Flows \cup {NoFlow}
  /\ instance \in [Instances -> Instance \cup {NoInstance}]

Satisfied(i, o) == IsStepSatisfied(Mode[instance[i].flow][o], instance[i].opinion[o])

(* No step is skipped: those an instance has left behind are satisfied, in *)
(* their mode and by everybody asked, and all of them once it is approved; *)
(* a rejected instance was rejected by somebody it asked, at a step it had *)
(* come to the same way.  Thresholds make gaps between the orders, and     *)
(* users may be added (engine.ts 118-154).                                 *)
NoStepSkipped ==
  \A i \in Instances :
    /\ instance[i].status = "approved" => \A o \in instance[i].required : Satisfied(i, o)
    /\ IsPending(i) =>
         \A o \in instance[i].required : o < instance[i].current => Satisfied(i, o)
    /\ instance[i].status = "rejected" =>
         \E o \in instance[i].required :
           /\ \E u \in Users : instance[i].opinion[o][u] = "rejected"
           /\ \A x \in instance[i].required : x < o => Satisfied(i, x)

(* A pending instance waits for somebody: a step it requires is current,   *)
(* one of its users owes an opinion and no opinion so far decides it       *)
(* (engine.ts 147-148 and 159-160: the document would be stuck for good).  *)
NeverStuck ==
  \A i \in Instances : IsPending(i) =>
    /\ instance[i].current \in instance[i].required
    /\ \E u \in Users : Owes(i, u)
    /\ ~Satisfied(i, instance[i].current)
=============================================================================
