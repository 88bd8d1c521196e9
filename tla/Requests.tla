------------------------------ MODULE Requests ------------------------------
(***************************************************************************)
(* Expense requests (requests/store.ts), the budgets they encumber         *)
(* (budget/) and their approval (Approvals), composed; Documents are the   *)
(* ids of requests, fresh each time.  A transition keeps the request's row *)
(* locked while it reserves or releases the budgets through connections of *)
(* their own, which commit at once; then it commits and the approval       *)
(* instance is brought up to date in a transaction of its own, whose       *)
(* failure is only reported.                                               *)
(***************************************************************************)
EXTENDS Approvals

CONSTANTS
  Slots,     \* HTTP requests the server handles at the same time
  Contents,  \* what the requester may enter
  Budgets,   \* ids of budgets, fresh each time
  Covers,    \* the months, accounts and cost centre of each budget
  NoValue    \* SQL null in account_code and cost_center_id

VARIABLES
  request,      \* requests: the rows, by id
  budget,       \* budgets: "none" before a row is created, "gone" after
  encumbrance,  \* budget_encumbrances, by budget and request
  events,       \* business events derived from each request
  slot          \* the HTTP request each slot is serving

vars == <<request, budget, encumbrance, events, slot, approvalVars>>

ASSUME RequestsAssumption ==
  /\ \A c \in Contents : c.amount \in Totals
  /\ \A b \in Budgets : NoValue \notin Covers[b].accounts

Actions  == {"submit", "approve", "reject", "cancel", "complete"}
Statuses == {"draft", "pending", "approved", "rejected", "completed", "cancelled"}
Final    == {"completed", "cancelled"}

Request == [status : Statuses, owner : Users, content : Contents, event : BOOLEAN]
Encumbrance == [status : {"reserved", "realized", "released"}, amount : Totals]

(* What a slot remembers.  A transition holds the lock of its request.     *)
Editing    == [op : {"edit"}, request : Documents, content : Contents]
Moving     == [op : {"move"}, request : Documents, action : Actions, user : Users,
               row : Request, todo : SUBSET Budgets]
Syncing    == [op : {"sync"}, request : Documents, action : Actions, user : Users,
               amount : Totals]
Deleting   == [op : {"delete"}, budget : Budgets]
Calls      == [op : {"idle"}] \cup Editing \cup Moving \cup Syncing \cup Deleting

NoRow     == [status |-> "none"]
Idle      == [op |-> "idle"]
Free(s)   == slot[s] = Idle
Answer(s) == slot' = [slot EXCEPT ![s] = Idle]
Go(s, c)  == slot' = [slot EXCEPT ![s] = c]
Exists(r) == request[r] # NoRow

(* A plausible bug: the row is read without FOR UPDATE.                    *)
LockFreeAlways(r) == TRUE

LockFree(r) == \A s \in Slots : slot[s].op = "move" => slot[s].request # r

Init ==
  /\ request = [r \in Documents |-> NoRow]
  /\ budget = [b \in Budgets |-> "none"]
  /\ encumbrance = [b \in Budgets |-> [r \in Documents |-> NoRow]]
  /\ events = [r \in Documents |-> 0]
  /\ slot = [s \in Slots |-> Idle]
  /\ ApprovalInit

-----------------------------------------------------------------------------
(* Pure parts.                                                             *)

(* TRANSITIONS and nextStatus, as the set of the next status if any.       *)
NextStatus(status, action) ==
  {t \in Statuses : <<status, action, t>> \in
    {<<"draft", "submit", "pending">>, <<"draft", "cancel", "cancelled">>,
     <<"pending", "approve", "approved">>, <<"pending", "reject", "rejected">>,
     <<"pending", "cancel", "cancelled">>, <<"approved", "complete", "completed">>,
     <<"approved", "cancel", "cancelled">>, <<"rejected", "submit", "pending">>,
     <<"rejected", "cancel", "cancelled">>}}

CanEdit(status) == status \in {"draft", "rejected"}

(* The month, an account under the budget's prefix, its cost centre if any. *)
IsBudgetApplicable(b, c) ==
  /\ c.month \in Covers[b].months
  /\ c.account \in Covers[b].accounts
  /\ Covers[b].center = NoValue \/ Covers[b].center = c.center

(* A plausible bug: the most specific budget only, as for standards.       *)
ApplicableBudgetsOne(c) ==
  IF c.account = NoValue THEN {}
  ELSE LET all == {b \in Budgets : budget[b] = "live" /\ IsBudgetApplicable(b, c)}
       IN IF all = {} THEN {} ELSE {CHOOSE b \in all : TRUE}

(* All of them; a request without an account has none.                     *)
ApplicableBudgets(c) ==
  IF c.account = NoValue THEN {}
  ELSE {b \in Budgets : budget[b] = "live" /\ IsBudgetApplicable(b, c)}

-----------------------------------------------------------------------------
(* Requests.                                                               *)

CreateRequest(s, r, u, c) ==
  /\ Free(s)
  /\ ~Exists(r)
  /\ request' = [request EXCEPT ![r] =
       [status |-> "draft", owner |-> u, content |-> c, event |-> FALSE]]
  /\ UNCHANGED <<budget, encumbrance, events, slot, approvalVars>>

UpdateRead(s, r, c) ==
  /\ Free(s)
  /\ Exists(r) /\ CanEdit(request[r].status)
  /\ Go(s, [op |-> "edit", request |-> r, content |-> c])
  /\ UNCHANGED <<request, budget, encumbrance, events, approvalVars>>

(* The UPDATE waits for the row, and does not look at its status again.    *)
UpdateCommit(s) ==
  LET r == slot[s].request IN
  /\ slot[s].op = "edit"
  /\ LockFree(r)
  /\ request' = [request EXCEPT ![r].content = slot[s].content]
  /\ Answer(s)
  /\ UNCHANGED <<budget, encumbrance, events, approvalVars>>

(* Submitting and cancelling is for the owner, deciding for others.        *)
Permitted(row, action, u) ==
  /\ action \in {"submit", "cancel"} => u = row.owner
  /\ action \in {"approve", "reject"} => u # row.owner

(* transitionRequest locks the row, checks it and finds the budgets.       *)
TransitionStart(s, r, action, u) ==
  /\ Free(s)
  /\ Exists(r) /\ LockFree(r)
  /\ Permitted(request[r], action, u)
  /\ NextStatus(request[r].status, action) # {}
  /\ Go(s, [op |-> "move", request |-> r, action |-> action, user |-> u,
            row |-> request[r],
            todo |-> IF action = "submit" THEN {} ELSE ApplicableBudgets(request[r].content)])
  /\ UNCHANGED <<request, budget, encumbrance, events, approvalVars>>

(* reserveBudget: an upsert, which also revives what was released.         *)
Reserve(b, r, amount) ==
  /\ budget[b] = "live"
  /\ encumbrance' = [encumbrance EXCEPT ![b][r] = [status |-> "reserved", amount |-> amount]]

(* A plausible bug: whatever is there is moved, also when nothing is.      *)
TransitionEncumbranceBlind(b, r, status) ==
  encumbrance' = [encumbrance EXCEPT ![b][r] = [@ EXCEPT !.status = status]]

(* transitionEncumbrance: only of what is reserved.                        *)
TransitionEncumbrance(b, r, status) ==
  encumbrance' = [encumbrance EXCEPT ![b][r] =
    IF @.status = "reserved" THEN [@ EXCEPT !.status = status] ELSE @]

(* One budget, through another connection: it commits by itself.           *)
TransitionBudget(s, b) ==
  LET m == slot[s] IN
  /\ m.op = "move" /\ b \in m.todo
  /\ CASE m.action = "approve"  -> Reserve(b, m.request, m.row.content.amount)
       [] m.action = "complete" -> TransitionEncumbrance(b, m.request, "realized")
       [] OTHER                 -> TransitionEncumbrance(b, m.request, "released")
  /\ Go(s, [m EXCEPT !.todo = @ \ {b}])
  /\ UNCHANGED <<request, budget, events, approvalVars>>

(* derivEventId, once                                                      *)
DerivesEvent(row, target) == target = "approved" /\ ~row.event

TransitionCommit(s) ==
  LET m == slot[s] IN
  /\ m.op = "move" /\ m.todo = {}
  /\ \E target \in NextStatus(m.row.status, m.action) :
       /\ request' = [request EXCEPT ![m.request].status = target,
                                     ![m.request].event = @ \/ target = "approved"]
       /\ events' = [events EXCEPT ![m.request] =
            IF DerivesEvent(m.row, target) THEN @ + 1 ELSE @]
  /\ Go(s, [op |-> "sync", request |-> m.request, action |-> m.action,
            user |-> m.user, amount |-> request[m.request].content.amount])
  /\ UNCHANGED <<budget, encumbrance, approvalVars>>

(* findInstanceByDocument, if it is pending                                *)
LatestPending(r) ==
  {i \in Instances :
     /\ IsPending(i) /\ instance[i].document = r
     /\ \A j \in Instances : instance[j] # NoInstance
                                       /\ instance[j].document = r => j <= i}

(* syncApprovalInstance; when the engine refuses, Abandon stands for it.   *)
Sync(s) ==
  LET c == slot[s] IN
  /\ c.op = "sync"
  /\ \/ /\ c.action = "submit"
        /\ \E panel \in [Orders -> Panels] :
             SubmitForApproval(c.request, c.user, c.amount, panel)
     \/ /\ c.action = "approve"
        /\ \E i \in LatestPending(c.request) : Approve(i, c.user)
     \/ /\ c.action = "reject"
        /\ \E i \in LatestPending(c.request) : Reject(i, c.user)
  /\ Answer(s)
  /\ UNCHANGED <<request, budget, encumbrance, events>>

-----------------------------------------------------------------------------
(* Budgets, and the engine's own routes.                                   *)

CreateBudget(s, b) ==
  /\ Free(s)
  /\ budget[b] = "none"
  /\ budget' = [budget EXCEPT ![b] = "live"]
  /\ UNCHANGED <<request, encumbrance, events, slot, approvalVars>>

DeleteBudgetCount(s, b) ==
  /\ Free(s)
  /\ budget[b] = "live"
  /\ \A r \in Documents : encumbrance[b][r].status # "reserved"
  /\ Go(s, [op |-> "delete", budget |-> b])
  /\ UNCHANGED <<request, budget, encumbrance, events, approvalVars>>

(* The foreign key of the encumbrances cascades.                           *)
DeleteBudget(s) ==
  LET b == slot[s].budget IN
  /\ slot[s].op = "delete"
  /\ budget' = [budget EXCEPT ![b] = "gone"]
  /\ encumbrance' = [encumbrance EXCEPT ![b] = [r \in Documents |-> NoRow]]
  /\ Answer(s)
  /\ UNCHANGED <<request, events, approvalVars>>

(* Flows are created, and instances submitted, decided and extended, by    *)
(* routes that do not look at the document.                                *)
ApprovalRoute ==
  /\ ApprovalNext
  /\ UNCHANGED <<request, budget, encumbrance, events, slot>>

(* The call ends here: refused, failed, or the process has stopped.        *)
Abandon(s) ==
  /\ ~Free(s)
  /\ Answer(s)
  /\ UNCHANGED <<request, budget, encumbrance, events, approvalVars>>

Next ==
  \/ \E s \in Slots :
       \/ \E r \in Documents, u \in Users, c \in Contents : CreateRequest(s, r, u, c)
       \/ \E r \in Documents, c \in Contents : UpdateRead(s, r, c)
       \/ UpdateCommit(s)
       \/ \E r \in Documents, a \in Actions, u \in Users : TransitionStart(s, r, a, u)
       \/ \E b \in Budgets : TransitionBudget(s, b)
       \/ TransitionCommit(s)
       \/ Sync(s)
       \/ \E b \in Budgets : CreateBudget(s, b)
       \/ \E b \in Budgets : DeleteBudgetCount(s, b)
       \/ DeleteBudget(s)
       \/ Abandon(s)
  \/ ApprovalRoute

Spec == Init /\ [][Next]_vars

-----------------------------------------------------------------------------
(* Every variable keeps its type.                                          *)
TypeOK ==
  /\ request \in [Documents -> Request \cup {NoRow}]
  /\ budget \in [Budgets -> {"none", "live", "gone"}]
  /\ encumbrance \in [Budgets -> [Documents -> Encumbrance \cup {NoRow}]]
  /\ events \in [Documents -> Nat]
  /\ slot \in [Slots -> Calls]
  /\ ApprovalTypeOK

(* A request derives one business event however often, by whom and at the  *)
(* same time it is approved, and has it once approved (requests/store.ts   *)
(* 320-325 and 369-375).                                                   *)
OneEvent ==
  \A r \in Documents :
    /\ events[r] = IF Exists(r) /\ request[r].event THEN 1 ELSE 0
    /\ request[r].status \in {"approved", "completed"} => request[r].event

(* When a request is rejected or ends, none of the budgets that apply to   *)
(* it as it is then keeps money reserved for it, whatever was reserved by  *)
(* transitions that failed half-way before (requests/store.ts 439-471).    *)
EndReleasesBudgets ==
  [][\A r \in Documents :
       /\ request[r] # request'[r]
       /\ request'[r].status \in Final \cup {"rejected"}
       /\ request[r].status \in {"pending", "approved"}
       /\ request'[r].content = request[r].content
       => \A b \in Budgets : IsBudgetApplicable(b, request[r].content) =>
            encumbrance[b][r].status # "reserved"]_vars

(* Money realized on a budget, which the ledger counts from then on, is    *)
(* never reserved or released again, also when the request that realized   *)
(* it failed before it was completed (budget-store.ts 237-243).            *)
RealizedIsFinal ==
  [][\A b \in Budgets, r \in Documents :
       encumbrance[b][r].status = "realized" =>
         encumbrance'[b][r].status = "realized" \/ budget'[b] = "gone"]_vars

-----------------------------------------------------------------------------
(* What comments promise and the code does not keep.                       *)

(* What a request asks for does not change while it is pending, so that    *)
(* what is approved is what was seen (requests/store.ts 244-246).          *)
PendingIsFrozen ==
  [][\A r \in Documents : request[r].status = "pending" =>
       request'[r].content = request[r].content]_vars

(* Once a document is finished nobody has an instance of it to deal with   *)
(* (document-sync.ts 20-21).                                               *)
FinishedIsNotPending ==
  \A i \in Instances :
    IsPending(i) =>
      \/ ~Exists(instance[i].document)
      \/ request[instance[i].document].status \notin {"completed", "cancelled"}
      \/ \E s \in Slots : slot[s].op = "sync" /\ slot[s].request = instance[i].document
=============================================================================
