------------------------------ MODULE Payments ------------------------------
(***************************************************************************)
(* Payments of contract instalments and reimbursements (payments/store.ts, *)
(* contracts/schedule-store.ts) and the instructions that carry them to a  *)
(* bank (bank-connect/store.ts).  A payment is created against what is     *)
(* still due, submitted for the bank, and confirmed, which drafts its      *)
(* voucher.  An instruction is stored before the bank is called; the call  *)
(* may be lost or late, its answer too, and the process may stop at any    *)
(* statement.  A handler reads, and writes in a later statement or         *)
(* transaction; the statements of several requests interleave.             *)
(***************************************************************************)
EXTENDS Integers, FiniteSets, Functions

CONSTANTS
  Slots,      \* requests the server handles at the same time
  Targets,    \* what is paid: contract instalments and reimbursements
  Schedules,  \* those that are instalments of a contract
  Due,        \* the amount of each target
  Payments,   \* ids of payments
  Amounts,    \* amounts a user may enter
  Months,     \* months of paidOn
  Refs        \* client references of instructions

ASSUME PaymentsAssumption ==
  /\ IsFiniteSet(Slots) /\ IsFiniteSet(Payments)
  /\ Schedules \subseteq Targets
  /\ Due \in [Targets -> Nat]
  /\ Amounts \subseteq Nat \ {0}

Payment == [status : {"draft", "submitted", "paid"}, target : Targets,
            amount : Amounts, month : Months, number : Nat \ {0},
            voucher : BOOLEAN]

(* "processing" stands for "accepted" too, which the code treats alike.    *)
Final       == {"succeeded", "failed"}
Answers     == {"processing", "unknown"} \cup Final
Instruction == [status : {"pending"} \cup Answers, payment : Payments]
BankStates  == {"none", "processing"} \cup Final

(* What a request remembers between two of its statements.                 *)
Creating  == [op : {"create"}, target : Targets, amount : Amounts, month : Months]
Numbered  == [op : {"insert"}, target : Targets, amount : Amounts, month : Months,
              number : Nat \ {0}]
OnPayment == [op : {"submit", "confirm", "send"}, payment : Payments]
OnTarget  == [op : {"cancel"}, target : Schedules]
OnRef     == [op : {"call", "answer"}, ref : Refs]
Answered  == [op : {"update"}, ref : Refs, status : Answers]
Requests  == [op : {"idle"}] \cup Creating \cup Numbered \cup OnPayment
               \cup OnTarget \cup OnRef \cup Answered

VARIABLES
  payment,      \* payments: the rows, by id
  drafted,      \* payment vouchers drafted for each payment
  cancelled,    \* instalments with is_cancelled
  instruction,  \* bank_transfer_instructions: the rows, by client_ref
  wire,         \* calls on their way to the bank
  bank,         \* what the bank knows of each reference
  slot          \* the request each slot is serving

vars == <<payment, drafted, cancelled, instruction, wire, bank, slot>>

NoRow     == [status |-> "none"]
Idle      == [op |-> "idle"]
Free(s)   == slot[s] = Idle
Answer(s) == slot' = [slot EXCEPT ![s] = Idle]
Go(s, r)  == slot' = [slot EXCEPT ![s] = r]

Exists(p) == payment[p] # NoRow
Of(t)     == {p \in Payments : Exists(p) /\ payment[p].target = t}

Init ==
  /\ payment = [p \in Payments |-> NoRow]
  /\ drafted = [p \in Payments |-> 0]
  /\ cancelled = {}
  /\ instruction = [r \in Refs |-> NoRow]
  /\ wire = {}
  /\ bank = [r \in Refs |-> "none"]
  /\ slot = [s \in Slots |-> Idle]

-----------------------------------------------------------------------------
(* Creating a payment: what is due, the number and the row are read and    *)
(* written by three statements.                                            *)

(* A plausible bug: only money already paid counts against what is due.    *)
SpentPaid(t) == SumFunctionOnSet([p \in Of(t) |-> payment[p].amount],
                                 {p \in Of(t) : payment[p].status = "paid"})

(* Drafts and submitted payments count; none is ever cancelled.            *)
Spent(t) == SumFunctionOnSet([p \in Of(t) |-> payment[p].amount], Of(t))

Remaining(t) == Due[t] - Spent(t)

NextNumber(m) == Cardinality({p \in Payments : Exists(p) /\ payment[p].month = m}) + 1

(* uq_payment_no                                                           *)
NumberTaken(m, n) ==
  \E p \in Payments : Exists(p) /\ payment[p].month = m /\ payment[p].number = n

CreateRead(s, t, amount, m) ==
  /\ Free(s)
  /\ amount <= Remaining(t)
  /\ Go(s, [op |-> "create", target |-> t, amount |-> amount, month |-> m])
  /\ UNCHANGED <<payment, drafted, cancelled, instruction, wire, bank>>

CreateNumber(s) ==
  LET c == slot[s] IN
  /\ c.op = "create"
  /\ Go(s, [op |-> "insert", target |-> c.target, amount |-> c.amount,
            month |-> c.month, number |-> NextNumber(c.month)])
  /\ UNCHANGED <<payment, drafted, cancelled, instruction, wire, bank>>

CreateCommit(s, p) ==
  LET c == slot[s] IN
  /\ c.op = "insert"
  /\ ~Exists(p) /\ ~NumberTaken(c.month, c.number)
  /\ payment' = [payment EXCEPT ![p] =
       [status |-> "draft", target |-> c.target, amount |-> c.amount,
        month |-> c.month, number |-> c.number, voucher |-> FALSE]]
  /\ Answer(s)
  /\ UNCHANGED <<drafted, cancelled, instruction, wire, bank>>

-----------------------------------------------------------------------------
(* Submitting, confirming and cancelling.                                  *)

SubmitRead(s, p) ==
  /\ Free(s)
  /\ payment[p].status = "draft"
  /\ Go(s, [op |-> "submit", payment |-> p])
  /\ UNCHANGED <<payment, drafted, cancelled, instruction, wire, bank>>

(* The UPDATE does not look at the status again.                           *)
SubmitCommit(s) ==
  /\ slot[s].op = "submit"
  /\ payment' = [payment EXCEPT ![slot[s].payment].status = "submitted"]
  /\ Answer(s)
  /\ UNCHANGED <<drafted, cancelled, instruction, wire, bank>>

ConfirmRead(s, p) ==
  /\ Free(s)
  /\ Exists(p) /\ ~payment[p].voucher
  /\ Go(s, [op |-> "confirm", payment |-> p])
  /\ UNCHANGED <<payment, drafted, cancelled, instruction, wire, bank>>

(* A plausible bug: only the read before the transaction counts.           *)
ConfirmNeededStill(p) == TRUE

(* Read again under the lock of the row.                                   *)
ConfirmNeeded(p) == ~payment[p].voucher

ConfirmCommit(s) ==
  LET p == slot[s].payment IN
  /\ slot[s].op = "confirm"
  /\ IF ConfirmNeeded(p)
     THEN /\ payment' = [payment EXCEPT ![p].status = "paid", ![p].voucher = TRUE]
          /\ drafted' = [drafted EXCEPT ![p] = @ + 1]
     ELSE UNCHANGED <<payment, drafted>>
  /\ Answer(s)
  /\ UNCHANGED <<cancelled, instruction, wire, bank>>

CancelRead(s, t) ==
  /\ Free(s)
  /\ \A p \in Of(t) : payment[p].status # "paid"
  /\ Go(s, [op |-> "cancel", target |-> t])
  /\ UNCHANGED <<payment, drafted, cancelled, instruction, wire, bank>>

CancelCommit(s) ==
  /\ slot[s].op = "cancel"
  /\ cancelled' = cancelled \cup {slot[s].target}
  /\ Answer(s)
  /\ UNCHANGED <<payment, drafted, instruction, wire, bank>>

-----------------------------------------------------------------------------
(* Sending an instruction and asking for its status.                       *)

(* A plausible bug: any payment may be sent.                               *)
SendableAny(p) == Exists(p)

Sendable(p) == payment[p].status = "submitted"

SendRead(s, p) ==
  /\ Free(s)
  /\ Sendable(p)
  /\ Go(s, [op |-> "send", payment |-> p])
  /\ UNCHANGED <<payment, drafted, cancelled, instruction, wire, bank>>

(* A plausible bug: the row is not inserted before the bank is called.     *)
StoreInstructionLater(r, p) == UNCHANGED instruction

StoreInstruction(r, p) ==
  instruction' = [instruction EXCEPT ![r] = [status |-> "pending", payment |-> p]]

(* Every submission has a fresh reference.                                 *)
SendInsert(s, r) ==
  /\ slot[s].op = "send"
  /\ instruction[r] = NoRow
  /\ StoreInstruction(r, slot[s].payment)
  /\ Go(s, [op |-> "call", ref |-> r])
  /\ UNCHANGED <<payment, drafted, cancelled, wire, bank>>

SendCall(s) ==
  /\ slot[s].op = "call"
  /\ wire' = wire \cup {slot[s].ref}
  /\ Go(s, [op |-> "answer", ref |-> slot[s].ref])
  /\ UNCHANGED <<payment, drafted, cancelled, instruction, bank>>

(* A final instruction is not asked for again.                             *)
RefreshRead(s, r) ==
  /\ Free(s)
  /\ instruction[r] # NoRow /\ instruction[r].status \notin Final
  /\ Go(s, [op |-> "answer", ref |-> r])
  /\ UNCHANGED <<payment, drafted, cancelled, instruction, wire, bank>>

(* A plausible bug: a reference the bank does not find counts as failed.   *)
BankAnswersFailed(r) == IF bank[r] = "none" THEN {"failed"} ELSE {bank[r], "unknown"}

(* What the adapter may answer, to a transfer or a query alike.            *)
BankAnswers(r) == IF bank[r] = "none" THEN {"unknown"} ELSE {bank[r], "unknown"}

BankAnswered(s, st) ==
  /\ slot[s].op = "answer"
  /\ st \in BankAnswers(slot[s].ref)
  /\ Go(s, [op |-> "update", ref |-> slot[s].ref, status |-> st])
  /\ UNCHANGED <<payment, drafted, cancelled, instruction, wire, bank>>

UpdateInstruction(s) ==
  /\ slot[s].op = "update"
  /\ instruction' = [instruction EXCEPT ![slot[s].ref].status = slot[s].status]
  /\ Answer(s)
  /\ UNCHANGED <<payment, drafted, cancelled, wire, bank>>

-----------------------------------------------------------------------------
(* The bank: takes a reference once, whenever its call arrives, if ever.   *)
BankReceive(r) ==
  /\ r \in wire
  /\ wire' = wire \ {r}
  /\ bank' = [bank EXCEPT ![r] = IF @ = "none" THEN "processing" ELSE @]
  /\ UNCHANGED <<payment, drafted, cancelled, instruction, slot>>

BankSettle(r, st) ==
  /\ bank[r] = "processing"
  /\ bank' = [bank EXCEPT ![r] = st]
  /\ UNCHANGED <<payment, drafted, cancelled, instruction, wire, slot>>

(* A statement fails, its transaction is refused, or the process stops.    *)
Abandon(s) ==
  /\ ~Free(s)
  /\ Answer(s)
  /\ UNCHANGED <<payment, drafted, cancelled, instruction, wire, bank>>

Next ==
  \/ \E s \in Slots :
       \/ \E t \in Targets, a \in Amounts, m \in Months : CreateRead(s, t, a, m)
       \/ CreateNumber(s)
       \/ \E p \in Payments : CreateCommit(s, p)
       \/ \E p \in Payments : SubmitRead(s, p)
       \/ SubmitCommit(s)
       \/ \E p \in Payments : ConfirmRead(s, p)
       \/ ConfirmCommit(s)
       \/ \E t \in Schedules : CancelRead(s, t)
       \/ CancelCommit(s)
       \/ \E p \in Payments : SendRead(s, p)
       \/ \E r \in Refs : SendInsert(s, r)
       \/ SendCall(s)
       \/ \E r \in Refs : RefreshRead(s, r)
       \/ \E st \in Answers : BankAnswered(s, st)
       \/ UpdateInstruction(s)
       \/ Abandon(s)
  \/ \E r \in Refs : BankReceive(r)
  \/ \E r \in Refs, st \in Final : BankSettle(r, st)

Spec == Init /\ [][Next]_vars

-----------------------------------------------------------------------------
(* Every variable keeps its type.                                          *)
TypeOK ==
  /\ payment \in [Payments -> Payment \cup {NoRow}]
  /\ drafted \in [Payments -> Nat]
  /\ cancelled \subseteq Schedules
  /\ instruction \in [Refs -> Instruction \cup {NoRow}]
  /\ wire \subseteq Refs
  /\ bank \in [Refs -> BankStates]
  /\ slot \in [Slots -> Requests]

(* However often and at the same time a payment is confirmed, it has one   *)
(* voucher, and a paid one has one (store.ts 330-335, 363-367).            *)
OneVoucher ==
  \A p \in Payments :
    /\ drafted[p] = IF Exists(p) /\ payment[p].voucher THEN 1 ELSE 0
    /\ payment[p].status = "paid" => payment[p].voucher

(* Whatever the bank has been or will be asked to pay is on record here,   *)
(* wherever the process stopped (bank-connect/store.ts 382-384).           *)
SentIsRecorded ==
  \A r \in Refs : bank[r] # "none" \/ r \in wire => instruction[r] # NoRow

(* An instruction is said to have succeeded or failed only if the bank has *)
(* settled it so: not found is not failed (migration 093 112-113).         *)
FinalIsTrue ==
  \A r \in Refs : instruction[r].status \in Final => bank[r] = instruction[r].status

(* No draft is ever sent to the bank, also when the payment was sent while *)
(* others submit and confirm it (bank-connect/store.ts 413).               *)
DraftsAreNotSent ==
  \A r \in Refs : instruction[r] # NoRow =>
    payment[instruction[r].payment].status \in {"submitted", "paid"}

(* Requests at the same time overpay a target at most once each: drafts    *)
(* are counted (store.ts 131-138).                                         *)
OverpaymentBounded ==
  \A t \in Targets : Spent(t) <= Cardinality(Slots) * Due[t]

-----------------------------------------------------------------------------
(* What comments and tests promise and the code does not keep.             *)

(* Payments never exceed what is due (store.ts 131-138 and                 *)
(* payments.integration.test.ts 5).                                        *)
NeverOverpaid == \A t \in Targets : Spent(t) <= Due[t]

(* A cancelled instalment has no paid payment (schedule-store.ts 200-201). *)
CancelledIsUnpaid ==
  \A t \in cancelled : \A p \in Of(t) : payment[p].status # "paid"
=============================================================================
