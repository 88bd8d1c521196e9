------------------------------ MODULE Expenses ------------------------------
(***************************************************************************)
(* Cash advances (advances/) and reimbursements (reimbursements/).  A      *)
(* route reads the document, checks the user and, before a submission, the *)
(* invoices; a transaction then moves the document under the lock of its   *)
(* row.  What was read is not read again, except where the code says so.   *)
(* Vouchers are drafts; what an employee owes is what the ledger says.     *)
(* The approval instance that follows a document is not part of the state: *)
(* nothing here reads it (Requests has it).                                *)
(***************************************************************************)
EXTENDS Integers, FiniteSets, FiniteSetsExt

CONSTANTS
  Slots,           \* requests the server handles at the same time
  Users,
  Managers,        \* users with expense.manage
  Advances,        \* ids of advances, fresh each time
  Reimbursements,  \* ids of reimbursements, fresh each time
  Invoices,
  Claims,          \* what the lines of a reimbursement may claim
  Amounts,         \* amounts of advances and of what is paid back
  NoValue,         \* SQL null in advance_id
  MaxRepaid        \* bound: what a user ever pays back

ASSUME ExpensesAssumption ==
  /\ Managers \subseteq Users
  /\ Amounts \subseteq Nat \ {0} /\ MaxRepaid \in Nat
  /\ Claims \subseteq [invoices : SUBSET Invoices, amount : Nat,
                       advance : Advances \cup {NoValue}]
  /\ NoValue \notin Advances
  /\ Advances \cap Reimbursements = {}

Documents == Advances \cup Reimbursements

(* Actions the state machines know; any other is refused.                  *)
AdvanceActions       == {"submit", "approve", "reject", "cancel", "settle"}
ReimbursementActions == {"submit", "approve", "reject", "cancel", "pay"}

AdvanceStatus == {"draft", "pending", "approved", "paid", "settled", "cancelled"}
ReimbursementStatus == {"draft", "pending", "approved", "rejected", "paid", "cancelled"}

(* voucher: payment_voucher_id and voucher_id are not null.                *)
Advance == [status : AdvanceStatus, owner : Users, amount : Amounts, voucher : BOOLEAN]
Reimbursement == [status : ReimbursementStatus, owner : Users, claim : Claims,
                  voucher : BOOLEAN]

(* What a request remembers between its reads and its transaction.         *)
Creating == [op : {"create"}, id : Reimbursements, user : Users, claim : Claims]
Moving   == [op : {"move"}, id : Documents,
             action : AdvanceActions \cup ReimbursementActions]
Paying   == [op : {"pay"}, id : Advances]
Drafting == [op : {"draft"}, id : Reimbursements]
Calls    == [op : {"idle"}] \cup Creating \cup Moving \cup Paying \cup Drafting

VARIABLES
  advance,        \* advances: the rows, by id
  reimbursement,  \* reimbursements with their lines, by id
  drafted,        \* vouchers drafted for each document
  posted,         \* those of them that were posted
  repaid,         \* what manual vouchers credit 1221 with, by user
  slot            \* the request each slot is serving

vars == <<advance, reimbursement, drafted, posted, repaid, slot>>

NoRow     == [status |-> "none"]
Idle      == [op |-> "idle"]
Free(s)   == slot[s] = Idle
Answer(s) == slot' = [slot EXCEPT ![s] = Idle]
Go(s, c)  == slot' = [slot EXCEPT ![s] = c]

Claimed(r) == reimbursement[r] # NoRow

Init ==
  /\ advance = [a \in Advances |-> NoRow]
  /\ reimbursement = [r \in Reimbursements |-> NoRow]
  /\ drafted = [d \in Documents |-> 0]
  /\ posted = [d \in Documents |-> 0]
  /\ repaid = [u \in Users |-> 0]
  /\ slot = [s \in Slots |-> Idle]

-----------------------------------------------------------------------------
(* Who may do what, and when.                                              *)

(* checkExpenseAction: deciding and paying is for managers, never for the  *)
(* owner; the rest for the owner or a manager.                             *)
Permitted(owner, action, u) ==
  IF action \in {"approve", "reject", "pay"}
  THEN u # owner /\ u \in Managers
  ELSE u = owner \/ u \in Managers

(* TRANSITIONS of reimbursements, as the set of the next status if any.    *)
NextReimbursement(status, action) ==
  {t \in ReimbursementStatus : <<status, action, t>> \in
    {<<"draft", "submit", "pending">>, <<"draft", "cancel", "cancelled">>,
     <<"pending", "approve", "approved">>, <<"pending", "reject", "rejected">>,
     <<"pending", "cancel", "cancelled">>, <<"approved", "pay", "paid">>,
     <<"approved", "cancel", "cancelled">>, <<"rejected", "submit", "pending">>,
     <<"rejected", "cancel", "cancelled">>}}

(* TRANSITIONS of advances; a payment is a route of its own.               *)
NextAdvance(status, action) ==
  {t \in AdvanceStatus : <<status, action, t>> \in
    {<<"draft", "submit", "pending">>, <<"draft", "cancel", "cancelled">>,
     <<"pending", "approve", "approved">>, <<"pending", "reject", "cancelled">>,
     <<"pending", "cancel", "cancelled">>, <<"approved", "cancel", "cancelled">>,
     <<"paid", "settle", "settled">>}}

(* The net of 1221 for an employee: by counterparty, not by advance.       *)
Balance(u) ==
  LET lent == {a \in Advances : advance[a] # NoRow /\ advance[a].owner = u}
      offset == {r \in Reimbursements : /\ Claimed(r) /\ reimbursement[r].owner = u
                                        /\ reimbursement[r].claim.advance # NoValue}
  IN  MapThenSumSet(LAMBDA a : posted[a] * advance[a].amount, lent)
      - MapThenSumSet(LAMBDA r : posted[r] * reimbursement[r].claim.amount, offset)
      - repaid[u]

(* A plausible bug: an invoice is in use only once its claim was submitted. *)
InvoiceUsedSubmitted(i, but) ==
  \E r \in Reimbursements \ {but} :
    /\ Claimed(r)
    /\ i \in reimbursement[r].claim.invoices
    /\ reimbursement[r].status \notin {"draft", "cancelled"}

(* findInvoiceUsage and the audit: by a reimbursement that is not          *)
(* cancelled, whatever else its status is.                                 *)
InvoiceUsed(i, but) ==
  \E r \in Reimbursements \ {but} :
    /\ Claimed(r)
    /\ i \in reimbursement[r].claim.invoices
    /\ reimbursement[r].status # "cancelled"

-----------------------------------------------------------------------------
(* Reimbursements.                                                         *)

CreateRead(s, r, u, claim) ==
  /\ Free(s)
  /\ \A i \in claim.invoices : ~InvoiceUsed(i, r)
  /\ Go(s, [op |-> "create", id |-> r, user |-> u, claim |-> claim])
  /\ UNCHANGED <<advance, reimbursement, drafted, posted, repaid>>

CreateCommit(s) ==
  LET c == slot[s] IN
  /\ c.op = "create"
  /\ ~Claimed(c.id)
  /\ c.claim.advance # NoValue => advance[c.claim.advance] # NoRow
  /\ reimbursement' = [reimbursement EXCEPT ![c.id] =
       [status |-> "draft", owner |-> c.user, claim |-> c.claim, voucher |-> FALSE]]
  /\ Answer(s)
  /\ UNCHANGED <<advance, drafted, posted, repaid>>

(* The route: the audit of a submission, then the user.                    *)
ReimbursementRead(s, r, action, u) ==
  /\ Free(s)
  /\ Claimed(r)
  /\ action = "submit" =>
       \A i \in reimbursement[r].claim.invoices : ~InvoiceUsed(i, r)
  /\ Permitted(reimbursement[r].owner, action, u)
  /\ Go(s, [op |-> "move", id |-> r, action |-> action])
  /\ UNCHANGED <<advance, reimbursement, drafted, posted, repaid>>

(* transitionReimbursement; an approved one still needs its voucher.       *)
ReimbursementMove(s) ==
  LET r == slot[s].id IN
  /\ slot[s].op = "move" /\ r \in Reimbursements
  /\ \E target \in NextReimbursement(reimbursement[r].status, slot[s].action) :
       /\ reimbursement' = [reimbursement EXCEPT ![r].status = target]
       /\ IF target = "approved" /\ ~reimbursement[r].voucher
          THEN Go(s, [op |-> "draft", id |-> r])
          ELSE Answer(s)
  /\ UNCHANGED <<advance, drafted, posted, repaid>>

(* createReimbursementVoucher, with the row as the transition returned it. *)
ReimbursementVoucher(s) ==
  LET r == slot[s].id IN
  /\ slot[s].op = "draft"
  /\ drafted' = [drafted EXCEPT ![r] = @ + 1]
  /\ reimbursement' = [reimbursement EXCEPT ![r].voucher = TRUE]
  /\ Answer(s)
  /\ UNCHANGED <<advance, posted, repaid>>

-----------------------------------------------------------------------------
(* Advances.                                                               *)

CreateAdvance(s, a, u, amount) ==
  /\ Free(s)
  /\ advance[a] = NoRow
  /\ advance' = [advance EXCEPT ![a] =
       [status |-> "draft", owner |-> u, amount |-> amount, voucher |-> FALSE]]
  /\ UNCHANGED <<reimbursement, drafted, posted, repaid, slot>>

AdvanceRead(s, a, action, u) ==
  /\ Free(s)
  /\ advance[a] # NoRow
  /\ Permitted(advance[a].owner, action, u)
  /\ Go(s, [op |-> "move", id |-> a, action |-> action])
  /\ UNCHANGED <<advance, reimbursement, drafted, posted, repaid>>

(* transitionAdvance: settled only if the ledger says nothing is owed.     *)
AdvanceMove(s) ==
  LET a == slot[s].id IN
  /\ slot[s].op = "move" /\ a \in Advances
  /\ \E target \in NextAdvance(advance[a].status, slot[s].action) :
       /\ target = "settled" => Balance(advance[a].owner) = 0
       /\ advance' = [advance EXCEPT ![a].status = target]
  /\ Answer(s)
  /\ UNCHANGED <<reimbursement, drafted, posted, repaid>>

(* payAdvanceRoute; with a voucher it is answered at once.                 *)
PayRead(s, a, u) ==
  /\ Free(s)
  /\ advance[a] # NoRow
  /\ Permitted(advance[a].owner, "pay", u)
  /\ advance[a].status \in {"approved", "paid"}
  /\ ~advance[a].voucher
  /\ Go(s, [op |-> "pay", id |-> a])
  /\ UNCHANGED <<advance, reimbursement, drafted, posted, repaid>>

(* A plausible bug, and the one the lock was added for: nothing is read    *)
(* again.                                                                  *)
PayCommitBlind(s) ==
  LET a == slot[s].id IN
  /\ slot[s].op = "pay"
  /\ drafted' = [drafted EXCEPT ![a] = @ + 1]
  /\ advance' = [advance EXCEPT ![a].status = "paid", ![a].voucher = TRUE]
  /\ Answer(s)
  /\ UNCHANGED <<reimbursement, posted, repaid>>

(* payAdvance: the voucher is read again under the lock, the status is not. *)
PayCommit(s) ==
  LET a == slot[s].id IN
  /\ slot[s].op = "pay"
  /\ ~advance[a].voucher
  /\ drafted' = [drafted EXCEPT ![a] = @ + 1]
  /\ advance' = [advance EXCEPT ![a].status = "paid", ![a].voucher = TRUE]
  /\ Answer(s)
  /\ UNCHANGED <<reimbursement, posted, repaid>>

-----------------------------------------------------------------------------
(* The ledger, and requests that end.                                      *)

(* An accountant posts a draft (VoucherLedger).                            *)
PostVoucher(d) ==
  /\ posted[d] < drafted[d]
  /\ posted' = [posted EXCEPT ![d] = @ + 1]
  /\ UNCHANGED <<advance, reimbursement, drafted, repaid, slot>>

(* An employee pays back: a voucher entered and posted by hand.            *)
Repay(u, amount) ==
  /\ repaid[u] + amount <= MaxRepaid
  /\ repaid' = [repaid EXCEPT ![u] = @ + amount]
  /\ UNCHANGED <<advance, reimbursement, drafted, posted, slot>>

(* The request ends: refused, failed, or the process has stopped.          *)
Abandon(s) ==
  /\ ~Free(s)
  /\ Answer(s)
  /\ UNCHANGED <<advance, reimbursement, drafted, posted, repaid>>

Next ==
  \/ \E s \in Slots :
       \/ \E r \in Reimbursements, u \in Users, c \in Claims : CreateRead(s, r, u, c)
       \/ CreateCommit(s)
       \/ \E r \in Reimbursements, x \in ReimbursementActions, u \in Users :
            ReimbursementRead(s, r, x, u)
       \/ ReimbursementMove(s)
       \/ ReimbursementVoucher(s)
       \/ \E a \in Advances, u \in Users, n \in Amounts : CreateAdvance(s, a, u, n)
       \/ \E a \in Advances, x \in AdvanceActions, u \in Users : AdvanceRead(s, a, x, u)
       \/ AdvanceMove(s)
       \/ \E a \in Advances, u \in Users : PayRead(s, a, u)
       \/ PayCommit(s)
       \/ Abandon(s)
  \/ \E d \in Documents : PostVoucher(d)
  \/ \E u \in Users, n \in Amounts : Repay(u, n)

Spec == Init /\ [][Next]_vars

-----------------------------------------------------------------------------
(* Every variable keeps its type.                                          *)
TypeOK ==
  /\ advance \in [Advances -> Advance \cup {NoRow}]
  /\ reimbursement \in [Reimbursements -> Reimbursement \cup {NoRow}]
  /\ drafted \in [Documents -> Nat]
  /\ posted \in [Documents -> Nat]
  /\ repaid \in [Users -> Nat]
  /\ slot \in [Slots -> Calls]

(* Of the reimbursements that share an invoice one at most was submitted   *)
(* and not cancelled, however their creations, audits and submissions      *)
(* interleave: nothing is locked, but each was in the table before it was  *)
(* audited (audit-service.ts 65-81, audit.ts 79-87).                       *)
InvoiceClaimedOnce ==
  \A r, q \in Reimbursements :
    /\ r # q /\ Claimed(r) /\ Claimed(q)
    /\ {reimbursement[r].status, reimbursement[q].status} \subseteq
         {"pending", "approved", "rejected", "paid"}
    => reimbursement[r].claim.invoices \cap reimbursement[q].claim.invoices = {}

(* However often and by whomever an advance is paid or a reimbursement is  *)
(* approved, and wherever a request stops, the document gets one voucher   *)
(* at most and points to it: two would lend or spend the money twice       *)
(* (advances/payment.ts 51-57, reimbursements/voucher.ts 112-113).         *)
OneVoucher ==
  /\ \A a \in Advances :
       drafted[a] = IF advance[a] # NoRow /\ advance[a].voucher THEN 1 ELSE 0
  /\ \A r \in Reimbursements :
       drafted[r] = IF Claimed(r) /\ reimbursement[r].voucher THEN 1 ELSE 0

-----------------------------------------------------------------------------
(* What comments promise and the code does not keep.                       *)

(* An advance is settled only once it is truly paid back (advances/store.ts *)
(* 268-269); while its voucher is a draft the ledger knows of no debt.     *)
SettledWasLent ==
  [][\A a \in Advances : advance[a].status = "paid" /\ advance'[a].status = "settled"
       => posted[a] = 1]_vars

(* A cancelled advance stays unpaid (advances/store.ts 236).               *)
CancelledIsFinal ==
  [][\A a \in Advances : advance[a].status = "cancelled"
       => advance'[a].status = "cancelled"]_vars

(* An invoice is spent once (audit.ts 86): cancelling an approved          *)
(* reimbursement frees the invoice and leaves the voucher.                 *)
InvoiceSpentOnce ==
  \A r, q \in Reimbursements :
    r # q /\ Claimed(r) /\ Claimed(q) /\ posted[r] > 0 /\ posted[q] > 0
    => reimbursement[r].claim.invoices \cap reimbursement[q].claim.invoices = {}
=============================================================================
