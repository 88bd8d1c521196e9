--------------------------- MODULE PaymentsProofs ---------------------------
(* Proofs about Payments, for every number of overlapping requests, of     *)
(* targets, payments and instructions.                                     *)
EXTENDS Payments, Sums

-----------------------------------------------------------------------------
(* Shapes of the data.                                                     *)

(* A row that is not absent is a payment.                                  *)
LEMMA PaymentShape ==
  ASSUME TypeOK, NEW p \in Payments, Exists(p)
  PROVE  payment[p] \in Payment
BY DEF TypeOK, Exists

(* The absent row has none of the statuses the code writes.                *)
LEMMA NoStatus == NoRow.status = "none"
BY DEF NoRow

(* A row that has a status the code writes exists.                         *)
LEMMA StatusExists ==
  ASSUME NEW p \in Payments, payment[p].status \in {"draft", "submitted", "paid"}
  PROVE  Exists(p)
BY NoStatus DEF Exists

(* The absent row is neither a payment nor an instruction.                 *)
LEMMA GapIsNoRow == NoRow \notin Payment /\ NoRow \notin Instruction
BY DEF NoRow, Payment, Instruction, Answers, Final

LEMMA InstructionShape ==
  ASSUME TypeOK, NEW r \in Refs, instruction[r] # NoRow
  PROVE  instruction[r] \in Instruction
BY DEF TypeOK

(* The step a request is at tells what its slot remembers.                 *)
LEMMA RequestShape ==
  ASSUME TypeOK, NEW s \in Slots
  PROVE  /\ slot[s].op = "create" => slot[s] \in Creating
         /\ slot[s].op = "insert" => slot[s] \in Numbered
         /\ slot[s].op \in {"submit", "confirm", "send"} => slot[s] \in OnPayment
         /\ slot[s].op = "cancel" => slot[s] \in OnTarget
         /\ slot[s].op \in {"call", "answer"} => slot[s] \in OnRef
         /\ slot[s].op = "update" => slot[s] \in Answered
<1>1. slot[s] \in Requests
  BY DEF TypeOK
<1> QED
  BY <1>1 DEF Requests, Creating, Numbered, OnPayment, OnTarget, OnRef, Answered

(* The number of a new payment is positive.                                *)
LEMMA NumberType == ASSUME NEW m PROVE NextNumber(m) \in Nat \ {0}
<1> DEFINE same == {p \in Payments : Exists(p) /\ payment[p].month = m}
<1>1. IsFiniteSet(same)
  BY PaymentsAssumption, FS_Subset
<1>2. Cardinality(same) \in Nat
  BY <1>1, FS_CardinalityType
<1> QED
  BY <1>2 DEF NextNumber

-----------------------------------------------------------------------------
(* The inductive invariant.                                                *)

(* What the requests in flight still rely on when they write: the rows     *)
(* they have read are there, a payment on its way to the bank has left the *)
(* draft, and a final answer is the bank's own state.                      *)
InFlight ==
  \A s \in Slots :
    /\ slot[s].op \in {"submit", "confirm", "send"} => Exists(slot[s].payment)
    /\ slot[s].op = "send" => payment[slot[s].payment].status \in {"submitted", "paid"}
    /\ slot[s].op \in {"call", "answer", "update"} => instruction[slot[s].ref] # NoRow
    /\ slot[s].op = "update" /\ slot[s].status \in Final
         => bank[slot[s].ref] = slot[s].status

IInv ==
  /\ TypeOK
  /\ OneVoucher
  /\ SentIsRecorded
  /\ FinalIsTrue
  /\ DraftsAreNotSent
  /\ InFlight

(* A statement that only changes what its own request remembers.           *)
rows == <<payment, drafted, cancelled, instruction, wire, bank>>

-----------------------------------------------------------------------------
(* The initial states.                                                     *)
LEMMA Initially == Init => IInv
<1> SUFFICES ASSUME Init PROVE IInv
  OBVIOUS
<1>1. TypeOK
  BY DEF Init, TypeOK, BankStates, Requests, Idle
<1>2. OneVoucher /\ SentIsRecorded /\ FinalIsTrue /\ DraftsAreNotSent
  BY NoStatus DEF Init, OneVoucher, SentIsRecorded, FinalIsTrue, DraftsAreNotSent,
                  Exists, Final, NoRow
<1>3. InFlight
  BY DEF Init, InFlight, Idle
<1> QED
  BY <1>1, <1>2, <1>3 DEF IInv

(* A request that reads or is abandoned disturbs nothing but its slot.     *)
LEMMA OwnSlot ==
  ASSUME IInv, UNCHANGED rows, NEW s \in Slots, NEW x \in Requests,
         slot' = [slot EXCEPT ![s] = x],
         x.op \in {"submit", "confirm", "send"} => Exists(x.payment),
         x.op = "send" => payment[x.payment].status \in {"submitted", "paid"},
         x.op \in {"call", "answer", "update"} => instruction[x.ref] # NoRow,
         x.op = "update" /\ x.status \in Final => bank[x.ref] = x.status
  PROVE  IInv'
<1>1. TypeOK'
  BY DEF IInv, TypeOK, rows
<1>2. OneVoucher' /\ SentIsRecorded' /\ FinalIsTrue' /\ DraftsAreNotSent'
  BY DEF IInv, OneVoucher, SentIsRecorded, FinalIsTrue, DraftsAreNotSent, Exists, rows
<1>3. InFlight'
  <2> SUFFICES ASSUME NEW q \in Slots
               PROVE  (/\ slot[q].op \in {"submit", "confirm", "send"} => Exists(slot[q].payment)
                       /\ slot[q].op = "send"
                            => payment[slot[q].payment].status \in {"submitted", "paid"}
                       /\ slot[q].op \in {"call", "answer", "update"}
                            => instruction[slot[q].ref] # NoRow
                       /\ slot[q].op = "update" /\ slot[q].status \in Final
                            => bank[slot[q].ref] = slot[q].status)'
    BY DEF InFlight
  <2>1. CASE q = s
    BY <2>1 DEF IInv, TypeOK, Exists, rows
  <2>2. CASE q # s
    <3>1. slot'[q] = slot[q]
      BY <2>2 DEF IInv, TypeOK
    <3> QED
      BY <3>1 DEF IInv, InFlight, Exists, rows
  <2> QED
    BY <2>1, <2>2
<1> QED
  BY <1>1, <1>2, <1>3 DEF IInv

(* An answered request leaves its slot idle.                               *)
LEMMA Answering ==
  ASSUME IInv, UNCHANGED rows, NEW s \in Slots, Answer(s)
  PROVE  IInv'
<1>1. Idle \in Requests /\ Idle.op = "idle"
  BY DEF Requests, Idle
<1> QED
  BY <1>1, OwnSlot DEF Answer

(* A row written over another keeps the invariant if what is on its way to *)
(* the bank does not become a draft and its vouchers are accounted for.    *)
LEMMA RowWritten ==
  ASSUME IInv, NEW s \in Slots, NEW p \in Payments, NEW x \in Payment,
         payment' = [payment EXCEPT ![p] = x],
         UNCHANGED <<cancelled, instruction, wire, bank>>, Answer(s),
         drafted' \in [Payments -> Nat], OneVoucher',
         payment[p].status \in {"submitted", "paid"} => x.status \in {"submitted", "paid"}
  PROVE  IInv'
<1>1. slot' = [slot EXCEPT ![s] = Idle] /\ Idle \in Requests /\ Idle.op = "idle"
  BY DEF Answer, Idle, Requests
<1>2. TypeOK'
  BY <1>1 DEF IInv, TypeOK
<1>3. \A q \in Payments :
        /\ Exists(q) => Exists(q)'
        /\ payment[q].status \in {"submitted", "paid"}
             => payment'[q].status \in {"submitted", "paid"}
  BY GapIsNoRow DEF IInv, TypeOK, Exists
<1>4. DraftsAreNotSent'
  <2> SUFFICES ASSUME NEW r \in Refs, instruction[r] # NoRow
               PROVE  payment'[instruction[r].payment].status \in {"submitted", "paid"}
    BY DEF DraftsAreNotSent
  <2>1. /\ instruction[r].payment \in Payments
        /\ payment[instruction[r].payment].status \in {"submitted", "paid"}
    BY InstructionShape DEF IInv, DraftsAreNotSent, Instruction
  <2> QED
    BY <1>3, <2>1
<1>5. InFlight'
  <2> SUFFICES ASSUME NEW q \in Slots, q # s
               PROVE  (/\ slot[q].op \in {"submit", "confirm", "send"}
                            => Exists(slot[q].payment)
                       /\ slot[q].op = "send"
                            => payment[slot[q].payment].status \in {"submitted", "paid"}
                       /\ slot[q].op \in {"call", "answer", "update"}
                            => instruction[slot[q].ref] # NoRow
                       /\ slot[q].op = "update" /\ slot[q].status \in Final
                            => bank[slot[q].ref] = slot[q].status)'
    BY <1>1 DEF IInv, TypeOK, InFlight
  <2>1. slot'[q] = slot[q]
    BY <1>1 DEF IInv, TypeOK
  <2>2. slot[q].op \in {"submit", "confirm", "send"} => slot[q].payment \in Payments
    BY RequestShape DEF IInv, OnPayment
  <2> QED
    BY <1>3, <2>1, <2>2 DEF IInv, InFlight
<1> QED
  BY <1>2, <1>4, <1>5 DEF IInv, SentIsRecorded, FinalIsTrue

-----------------------------------------------------------------------------
(* The steps of one request.                                               *)
LEMMA CreateReadStep ==
  ASSUME IInv, NEW s \in Slots, NEW t \in Targets, NEW a \in Amounts, NEW m \in Months,
         CreateRead(s, t, a, m)
  PROVE  IInv'
<1> DEFINE x == [op |-> "create", target |-> t, amount |-> a, month |-> m]
<1>1. x \in Requests /\ x.op = "create"
  BY DEF Requests, Creating
<1>2. slot' = [slot EXCEPT ![s] = x] /\ UNCHANGED rows
  BY DEF CreateRead, Go, rows
<1> HIDE DEF x
<1> QED
  BY <1>1, <1>2, OwnSlot

LEMMA CreateNumberStep ==
  ASSUME IInv, NEW s \in Slots, CreateNumber(s)
  PROVE  IInv'
<1> DEFINE c == slot[s]
           x == [op |-> "insert", target |-> c.target, amount |-> c.amount,
                 month |-> c.month, number |-> NextNumber(c.month)]
<1>1. c \in Creating
  BY RequestShape DEF CreateNumber, IInv
<1>2. slot' = [slot EXCEPT ![s] = x] /\ UNCHANGED rows
  BY DEF CreateNumber, Go, rows
<1>3. NextNumber(c.month) \in Nat \ {0}
  BY NumberType
<1> HIDE DEF c
<1>4. x \in Requests /\ x.op = "insert"
  BY <1>1, <1>3 DEF Creating, Requests, Numbered
<1> HIDE DEF x
<1> QED
  BY <1>2, <1>4, OwnSlot

LEMMA CreateCommitStep ==
  ASSUME IInv, NEW s \in Slots, NEW p \in Payments, CreateCommit(s, p)
  PROVE  IInv'
<1> DEFINE c == slot[s]
           x == [status |-> "draft", target |-> c.target, amount |-> c.amount,
                 month |-> c.month, number |-> c.number, voucher |-> FALSE]
<1>1. c \in Numbered
  BY RequestShape DEF CreateCommit, IInv
<1>2. /\ payment' = [payment EXCEPT ![p] = x] /\ payment[p] = NoRow
      /\ UNCHANGED <<drafted, cancelled, instruction, wire, bank>>
      /\ Answer(s)
  BY DEF CreateCommit, Exists
<1> HIDE DEF c
<1>3. x \in Payment /\ x.status = "draft" /\ x.voucher = FALSE
  BY <1>1 DEF Numbered, Payment
<1> HIDE DEF x
<1>4. OneVoucher'
  BY <1>2, <1>3, GapIsNoRow DEF IInv, TypeOK, OneVoucher, Exists
<1>5. drafted' \in [Payments -> Nat]
  BY <1>2 DEF IInv, TypeOK
<1> QED
  BY <1>2, <1>3, <1>4, <1>5, NoStatus, RowWritten

LEMMA OnPaymentRead ==
  ASSUME IInv, NEW s \in Slots, NEW p \in Payments,
         SubmitRead(s, p) \/ ConfirmRead(s, p) \/ SendRead(s, p)
  PROVE  IInv'
<1>1. PICK o \in {"submit", "confirm", "send"} :
        /\ slot' = [slot EXCEPT ![s] = [op |-> o, payment |-> p]]
        /\ UNCHANGED rows
        /\ Exists(p)
        /\ o = "send" => payment[p].status = "submitted"
  BY StatusExists DEF SubmitRead, ConfirmRead, SendRead, Sendable, Go, rows
<1>2. [op |-> o, payment |-> p] \in Requests
  BY DEF Requests, OnPayment
<1> QED
  BY <1>1, <1>2, OwnSlot

LEMMA SubmitCommitStep ==
  ASSUME IInv, NEW s \in Slots, SubmitCommit(s)
  PROVE  IInv'
<1> DEFINE p == slot[s].payment
           x == [payment[p] EXCEPT !.status = "submitted"]
<1>1. p \in Payments /\ Exists(p)
  BY RequestShape DEF SubmitCommit, IInv, InFlight, OnPayment
<1>2. payment[p] \in Payment
  BY <1>1, PaymentShape DEF IInv
<1>3. x \in Payment /\ x.status = "submitted" /\ x.voucher = payment[p].voucher
  BY <1>2 DEF Payment
<1>4. /\ payment' = [payment EXCEPT ![p] = x] /\ Answer(s)
      /\ UNCHANGED <<drafted, cancelled, instruction, wire, bank>>
  BY DEF SubmitCommit
<1> HIDE DEF p, x
<1>5. OneVoucher'
  BY <1>1, <1>3, <1>4, GapIsNoRow DEF IInv, TypeOK, OneVoucher, Exists
<1>6. drafted' \in [Payments -> Nat]
  BY <1>4 DEF IInv, TypeOK
<1> QED
  BY <1>1, <1>3, <1>4, <1>5, <1>6, RowWritten

LEMMA ConfirmCommitStep ==
  ASSUME IInv, NEW s \in Slots, ConfirmCommit(s)
  PROVE  IInv'
<1> DEFINE p == slot[s].payment
           x == [payment[p] EXCEPT !.status = "paid", !.voucher = TRUE]
<1>1. p \in Payments /\ Exists(p)
  BY RequestShape DEF ConfirmCommit, IInv, InFlight, OnPayment
<1>2. payment[p] \in Payment
  BY <1>1, PaymentShape DEF IInv
<1>3. CASE ConfirmNeeded(p)
  <2>1. x \in Payment /\ x.status = "paid" /\ x.voucher = TRUE
    BY <1>2 DEF Payment
  <2>2. /\ payment' = [payment EXCEPT ![p] = x] /\ Answer(s)
        /\ drafted' = [drafted EXCEPT ![p] = @ + 1] /\ ~payment[p].voucher
        /\ UNCHANGED <<cancelled, instruction, wire, bank>>
    BY <1>3 DEF ConfirmCommit, ConfirmNeeded
  <2> HIDE DEF p, x
  <2>3. drafted' \in [Payments -> Nat] /\ drafted[p] = 0 /\ drafted'[p] = 1
    BY <1>1, <2>2 DEF IInv, TypeOK, OneVoucher
  <2>4. OneVoucher'
    BY <1>1, <2>1, <2>2, <2>3, GapIsNoRow DEF IInv, TypeOK, OneVoucher, Exists
  <2> QED
    BY <1>1, <2>1, <2>2, <2>3, <2>4, RowWritten
<1>4. CASE ~ConfirmNeeded(p)
  BY <1>4, Answering DEF ConfirmCommit, rows
<1> QED
  BY <1>3, <1>4

LEMMA CancelReadStep ==
  ASSUME IInv, NEW s \in Slots, NEW t \in Schedules, CancelRead(s, t)
  PROVE  IInv'
<1>1. [op |-> "cancel", target |-> t] \in Requests
  BY DEF Requests, OnTarget
<1> QED
  BY <1>1, OwnSlot DEF CancelRead, Go, rows

LEMMA CancelCommitStep ==
  ASSUME IInv, NEW s \in Slots, CancelCommit(s)
  PROVE  IInv'
<1>1. cancelled' \subseteq Schedules
  BY RequestShape DEF CancelCommit, IInv, TypeOK, OnTarget
<1>2. slot' = [slot EXCEPT ![s] = Idle] /\ Idle \in Requests /\ Idle.op = "idle"
  BY DEF CancelCommit, Answer, Idle, Requests
<1>3. TypeOK'
  BY <1>1, <1>2 DEF CancelCommit, IInv, TypeOK
<1>4. OneVoucher' /\ SentIsRecorded' /\ FinalIsTrue' /\ DraftsAreNotSent'
  BY DEF CancelCommit, IInv, OneVoucher, SentIsRecorded, FinalIsTrue, DraftsAreNotSent,
         Exists
<1>5. InFlight'
  BY <1>2 DEF CancelCommit, IInv, TypeOK, InFlight, Exists
<1> QED
  BY <1>3, <1>4, <1>5 DEF IInv

-----------------------------------------------------------------------------
(* The steps of an instruction.                                            *)
LEMMA SendInsertStep ==
  ASSUME IInv, NEW s \in Slots, NEW r \in Refs, SendInsert(s, r)
  PROVE  IInv'
<1> DEFINE p == slot[s].payment
           i == [status |-> "pending", payment |-> p]
           x == [op |-> "call", ref |-> r]
<1>1. p \in Payments /\ payment[p].status \in {"submitted", "paid"}
  BY RequestShape DEF SendInsert, IInv, InFlight, OnPayment
<1>2. /\ instruction' = [instruction EXCEPT ![r] = i] /\ instruction[r] = NoRow
      /\ slot' = [slot EXCEPT ![s] = x]
      /\ UNCHANGED <<payment, drafted, cancelled, wire, bank>>
  BY DEF SendInsert, StoreInstruction, Go
<1> HIDE DEF p
<1>3. i \in Instruction /\ i.status \notin Final /\ i.payment = p
  BY <1>1 DEF Instruction, Final
<1>4. x \in Requests /\ x.op = "call" /\ x.ref = r
  BY DEF Requests, OnRef
<1> HIDE DEF i, x
<1>5. TypeOK'
  BY <1>2, <1>3, <1>4 DEF IInv, TypeOK
<1>6. OneVoucher' /\ SentIsRecorded' /\ FinalIsTrue' /\ DraftsAreNotSent'
  BY <1>1, <1>2, <1>3, GapIsNoRow
     DEF IInv, TypeOK, OneVoucher, SentIsRecorded, FinalIsTrue, DraftsAreNotSent, Exists
<1>7. InFlight'
  <2> SUFFICES ASSUME NEW q \in Slots
               PROVE  (/\ slot[q].op \in {"submit", "confirm", "send"}
                            => Exists(slot[q].payment)
                       /\ slot[q].op = "send"
                            => payment[slot[q].payment].status \in {"submitted", "paid"}
                       /\ slot[q].op \in {"call", "answer", "update"}
                            => instruction[slot[q].ref] # NoRow
                       /\ slot[q].op = "update" /\ slot[q].status \in Final
                            => bank[slot[q].ref] = slot[q].status)'
    BY DEF InFlight
  <2>1. CASE q = s
    BY <1>2, <1>3, <1>4, <2>1, GapIsNoRow DEF IInv, TypeOK
  <2>2. CASE q # s
    <3>1. slot'[q] = slot[q]
      BY <1>2, <2>2 DEF IInv, TypeOK
    <3>2. slot[q].op \in {"call", "answer", "update"} => slot[q].ref \in Refs
      BY RequestShape DEF IInv, OnRef, Answered
    <3> QED
      BY <1>2, <1>3, <3>1, <3>2, GapIsNoRow DEF IInv, TypeOK, InFlight, Exists
  <2> QED
    BY <2>1, <2>2
<1> QED
  BY <1>5, <1>6, <1>7 DEF IInv

LEMMA SendCallStep ==
  ASSUME IInv, NEW s \in Slots, SendCall(s)
  PROVE  IInv'
<1> DEFINE r == slot[s].ref
           x == [op |-> "answer", ref |-> r]
<1>1. r \in Refs /\ instruction[r] # NoRow
  BY RequestShape DEF SendCall, IInv, InFlight, OnRef
<1>2. /\ wire' = wire \cup {r} /\ slot' = [slot EXCEPT ![s] = x]
      /\ UNCHANGED <<payment, drafted, cancelled, instruction, bank>>
  BY DEF SendCall, Go
<1> HIDE DEF r
<1>3. x \in Requests /\ x.op = "answer" /\ x.ref = r
  BY <1>1 DEF Requests, OnRef
<1> HIDE DEF x
<1>4. TypeOK'
  BY <1>1, <1>2, <1>3 DEF IInv, TypeOK
<1>5. OneVoucher' /\ SentIsRecorded' /\ FinalIsTrue' /\ DraftsAreNotSent'
  BY <1>1, <1>2
     DEF IInv, OneVoucher, SentIsRecorded, FinalIsTrue, DraftsAreNotSent, Exists
<1>6. InFlight'
  BY <1>1, <1>2, <1>3 DEF IInv, TypeOK, InFlight, Exists
<1> QED
  BY <1>4, <1>5, <1>6 DEF IInv

LEMMA RefreshReadStep ==
  ASSUME IInv, NEW s \in Slots, NEW r \in Refs, RefreshRead(s, r)
  PROVE  IInv'
<1>1. [op |-> "answer", ref |-> r] \in Requests
  BY DEF Requests, OnRef
<1> QED
  BY <1>1, OwnSlot DEF RefreshRead, Go, rows

(* A final answer is what the bank has settled.                            *)
LEMMA BankAnsweredStep ==
  ASSUME IInv, NEW s \in Slots, NEW st \in Answers, BankAnswered(s, st)
  PROVE  IInv'
<1> DEFINE r == slot[s].ref
           x == [op |-> "update", ref |-> r, status |-> st]
<1>1. r \in Refs /\ instruction[r] # NoRow
  BY RequestShape DEF BankAnswered, IInv, InFlight, OnRef
<1>2. st \in Final => bank[r] = st
  BY DEF BankAnswered, BankAnswers, Final
<1>3. slot' = [slot EXCEPT ![s] = x] /\ UNCHANGED rows
  BY DEF BankAnswered, Go, rows
<1> HIDE DEF r
<1>4. /\ x \in Requests /\ x.op = "update" /\ x.ref = r /\ x.status = st
  BY <1>1 DEF Requests, Answered
<1> HIDE DEF x
<1> QED
  BY <1>1, <1>2, <1>3, <1>4, OwnSlot

LEMMA UpdateInstructionStep ==
  ASSUME IInv, NEW s \in Slots, UpdateInstruction(s)
  PROVE  IInv'
<1> DEFINE r == slot[s].ref
           i == [instruction[r] EXCEPT !.status = slot[s].status]
<1>1. r \in Refs /\ slot[s].status \in Answers /\ instruction[r] # NoRow
  BY RequestShape DEF UpdateInstruction, IInv, InFlight, Answered
<1>2. slot[s].status \in Final => bank[r] = slot[s].status
  BY DEF UpdateInstruction, IInv, InFlight
<1>3. instruction[r] \in Instruction
  BY <1>1, InstructionShape DEF IInv
<1>4. /\ i \in Instruction /\ i.payment = instruction[r].payment
      /\ i.status \in Final => bank[r] = i.status
  BY <1>1, <1>2, <1>3 DEF Instruction
<1>5. /\ instruction' = [instruction EXCEPT ![r] = i]
      /\ slot' = [slot EXCEPT ![s] = Idle]
      /\ UNCHANGED <<payment, drafted, cancelled, wire, bank>>
  BY DEF UpdateInstruction, Answer
<1> HIDE DEF r, i
<1>6. Idle \in Requests /\ Idle.op = "idle"
  BY DEF Idle, Requests
<1>7. TypeOK'
  BY <1>4, <1>5, <1>6 DEF IInv, TypeOK
<1>8. OneVoucher' /\ SentIsRecorded' /\ FinalIsTrue' /\ DraftsAreNotSent'
  BY <1>1, <1>4, <1>5, GapIsNoRow
     DEF IInv, TypeOK, OneVoucher, SentIsRecorded, FinalIsTrue, DraftsAreNotSent, Exists
<1>9. InFlight'
  <2> SUFFICES ASSUME NEW q \in Slots, q # s
               PROVE  (/\ slot[q].op \in {"submit", "confirm", "send"}
                            => Exists(slot[q].payment)
                       /\ slot[q].op = "send"
                            => payment[slot[q].payment].status \in {"submitted", "paid"}
                       /\ slot[q].op \in {"call", "answer", "update"}
                            => instruction[slot[q].ref] # NoRow
                       /\ slot[q].op = "update" /\ slot[q].status \in Final
                            => bank[slot[q].ref] = slot[q].status)'
    BY <1>5, <1>6 DEF IInv, TypeOK, InFlight
  <2>1. slot'[q] = slot[q]
    BY <1>5 DEF IInv, TypeOK
  <2>2. slot[q].op \in {"call", "answer", "update"} => slot[q].ref \in Refs
    BY RequestShape DEF IInv, OnRef, Answered
  <2> QED
    BY <1>4, <1>5, <2>1, <2>2, GapIsNoRow DEF IInv, TypeOK, InFlight, Exists
<1> QED
  BY <1>7, <1>8, <1>9 DEF IInv

(* The bank takes only what is on the wire, and settles it once.           *)
LEMMA BankStep ==
  ASSUME IInv, NEW r \in Refs,
         BankReceive(r) \/ (\E st \in Final : BankSettle(r, st))
  PROVE  IInv'
<1>1. /\ UNCHANGED <<payment, drafted, cancelled, instruction, slot>>
      /\ wire' \subseteq wire
      /\ bank' \in [Refs -> BankStates]
      /\ \A q \in Refs : bank[q] \in Final => bank'[q] = bank[q]
      /\ \A q \in Refs : bank'[q] # "none" => bank[q] # "none" \/ q \in wire
  BY DEF BankReceive, BankSettle, IInv, TypeOK, BankStates, Final
<1>2. TypeOK'
  BY <1>1 DEF IInv, TypeOK
<1>3. OneVoucher' /\ SentIsRecorded' /\ DraftsAreNotSent'
  BY <1>1 DEF IInv, OneVoucher, SentIsRecorded, DraftsAreNotSent, Exists
<1>4. FinalIsTrue'
  BY <1>1 DEF IInv, FinalIsTrue
<1>5. InFlight'
  <2>1. \A q \in Slots : slot[q].op = "update" => slot[q].ref \in Refs
    BY RequestShape DEF IInv, Answered
  <2> QED
    BY <1>1, <2>1 DEF IInv, InFlight, Exists
<1> QED
  BY <1>2, <1>3, <1>4, <1>5 DEF IInv

LEMMA AbandonStep ==
  ASSUME IInv, NEW s \in Slots, Abandon(s)
  PROVE  IInv'
BY Answering DEF Abandon, rows

-----------------------------------------------------------------------------
(* Every step preserves the invariant.                                     *)
LEMMA Step == IInv /\ [Next]_vars => IInv'
<1> SUFFICES ASSUME IInv, [Next]_vars PROVE IInv'
  OBVIOUS
<1>1. CASE UNCHANGED vars
  BY <1>1 DEF vars, IInv, TypeOK, OneVoucher, SentIsRecorded, FinalIsTrue,
              DraftsAreNotSent, InFlight, Exists
<1>2. CASE Next
  BY <1>2, CreateReadStep, CreateNumberStep, CreateCommitStep, OnPaymentRead,
     SubmitCommitStep, ConfirmCommitStep, CancelReadStep, CancelCommitStep,
     SendInsertStep, SendCallStep, RefreshReadStep, BankAnsweredStep,
     UpdateInstructionStep, BankStep, AbandonStep
     DEF Next
<1> QED
  BY <1>1, <1>2

LEMMA Invariance == Spec => []IInv
BY Initially, Step, PTL DEF Spec

(* Every variable keeps its type, whatever interleaves, fails or stops     *)
(* (payments/store.ts, bank-connect/store.ts).                             *)
THEOREM TypeCorrect == Spec => []TypeOK
<1>1. IInv => TypeOK
  BY DEF IInv
<1> QED
  BY <1>1, Invariance, PTL

(* A payment is given one voucher however often it is confirmed: the check *)
(* repeated under the lock of its row is enough (store.ts 363-385).        *)
THEOREM ConfirmedOnce == Spec => []OneVoucher
<1>1. IInv => OneVoucher
  BY DEF IInv
<1> QED
  BY <1>1, Invariance, PTL

(* Whatever reaches the bank, now or later, is on record: the row is       *)
(* stored before the call (bank-connect/store.ts 382-384).                 *)
THEOREM NothingUnrecorded == Spec => []SentIsRecorded
<1>1. IInv => SentIsRecorded
  BY DEF IInv
<1> QED
  BY <1>1, Invariance, PTL

(* An instruction is called succeeded or failed only if the bank settled   *)
(* it so, whatever order the answers come in (bank-connect/store.ts 480).  *)
THEOREM FinalStatusIsTrue == Spec => []FinalIsTrue
<1>1. IInv => FinalIsTrue
  BY DEF IInv
<1> QED
  BY <1>1, Invariance, PTL

(* What has an instruction has left the draft for good, although its       *)
(* status was read before (bank-connect/store.ts 413).                     *)
THEOREM OnlySubmittedIsSent == Spec => []DraftsAreNotSent
<1>1. IInv => DraftsAreNotSent
  BY DEF IInv
<1> QED
  BY <1>1, Invariance, PTL

-----------------------------------------------------------------------------
(* By how much a target may be overpaid.  A request that has read what is  *)
(* due adds a payment later; each has been found to be within what is due. *)

Pending(s, t) == IF slot[s].op \in {"create", "insert"} /\ slot[s].target = t
                 THEN slot[s].amount ELSE 0

AllPending(t) == SumFunctionOnSet([s \in Slots |-> Pending(s, t)], Slots)

Committed(t) ==
  /\ Spent(t) + AllPending(t) <= Cardinality(Slots) * Due[t]
  /\ \A s \in Slots : Pending(s, t) <= Due[t]

LEMMA PendingType ==
  ASSUME TypeOK, NEW s \in Slots, NEW t
  PROVE  Pending(s, t) \in Nat
BY RequestShape, PaymentsAssumption DEF Pending, Creating, Numbered

LEMMA SpentType ==
  ASSUME TypeOK, NEW t PROVE Spent(t) \in Nat /\ IsFiniteSet(Of(t))
<1> DEFINE f == [p \in Of(t) |-> payment[p].amount]
<1>1. IsFiniteSet(Of(t))
  BY PaymentsAssumption, FS_Subset DEF Of
<1>2. \A p \in Of(t) : f[p] \in Nat
  BY PaymentShape, PaymentsAssumption DEF Of, Payment
<1> HIDE DEF f
<1>3. SumFunctionOnSet(f, Of(t)) \in Nat
  BY <1>1, <1>2, SumNatural
<1> QED
  BY <1>1, <1>3 DEF Spent, f

LEMMA AllPendingType ==
  ASSUME TypeOK, NEW t PROVE AllPending(t) \in Nat
<1> DEFINE f == [s \in Slots |-> Pending(s, t)]
<1>1. \A s \in Slots : f[s] \in Nat
  BY PendingType
<1> HIDE DEF f
<1>2. SumFunctionOnSet(f, Slots) \in Nat
  BY <1>1, SumNatural, PaymentsAssumption
<1> QED
  BY <1>2 DEF AllPending, f

LEMMA AmountTypes == \A t : TypeOK => Spent(t) \in Nat /\ AllPending(t) \in Nat
BY SpentType, AllPendingType

LEMMA AmountTypesAfter == (\A t : TypeOK => Spent(t) \in Nat /\ AllPending(t) \in Nat)'
BY AmountTypes, PTL

LEMMA PendingTypes == \A t : \A s \in Slots : TypeOK => Pending(s, t) \in Nat
BY PendingType

LEMMA PendingTypesAfter == (\A t : \A s \in Slots : TypeOK => Pending(s, t) \in Nat)'
BY PendingTypes, PTL

(* Which steps add a payment or remember the amount of one.                *)
SameAmounts ==
  \A p \in Payments :
    /\ Exists(p)' <=> Exists(p)
    /\ Exists(p) => /\ payment'[p].target = payment[p].target
                    /\ payment'[p].amount = payment[p].amount

NoMorePending ==
  \A s \in Slots, t \in Targets : Pending(s, t)' = Pending(s, t) \/ Pending(s, t)' = 0

LEMMA PaymentSteps ==
  ASSUME IInv, [Next]_vars
  PROVE  \/ \E s \in Slots, t \in Targets, a \in Amounts, m \in Months : CreateRead(s, t, a, m)
         \/ \E s \in Slots, p \in Payments : CreateCommit(s, p)
         \/ SameAmounts /\ NoMorePending
<1> DEFINE Goal == \/ \E s \in Slots, t \in Targets, a \in Amounts, m \in Months :
                        CreateRead(s, t, a, m)
                   \/ \E s \in Slots, p \in Payments : CreateCommit(s, p)
                   \/ SameAmounts /\ NoMorePending
<1>a. TypeOK /\ slot \in [Slots -> Requests]
  BY DEF IInv, TypeOK
<1>0. CASE UNCHANGED <<payment, slot>>
  BY <1>0 DEF SameAmounts, NoMorePending, Pending, Exists
<1>b. ASSUME NEW s \in Slots, NEW call, slot' = [slot EXCEPT ![s] = call],
             call.op \notin {"create", "insert"}
      PROVE  NoMorePending
  BY <1>a, <1>b DEF NoMorePending, Pending
<1>c. UNCHANGED payment => SameAmounts
  BY DEF SameAmounts, Exists
<1>1. ASSUME NEW s \in Slots, CreateNumber(s) PROVE Goal
  <2> DEFINE n == NextNumber(slot[s].month)
             call == [op |-> "insert", target |-> slot[s].target, amount |-> slot[s].amount,
                      month |-> slot[s].month, number |-> n]
  <2>1. slot[s].op = "create" /\ slot' = [slot EXCEPT ![s] = call] /\ UNCHANGED payment
    BY <1>1 DEF CreateNumber, Go
  <2> HIDE DEF n
  <2>2. call.op = "insert" /\ call.target = slot[s].target /\ call.amount = slot[s].amount
    OBVIOUS
  <2> HIDE DEF call
  <2>3. NoMorePending
    BY <1>a, <2>1, <2>2 DEF NoMorePending, Pending
  <2> QED
    BY <1>c, <2>1, <2>3
<1>2. ASSUME NEW s \in Slots, SubmitCommit(s) PROVE Goal
  <2>1. slot[s].payment \in Payments /\ Exists(slot[s].payment)
    BY <1>a, <1>2, RequestShape DEF SubmitCommit, IInv, InFlight, OnPayment
  <2>2. payment[slot[s].payment] \in Payment
    BY <1>a, <2>1, PaymentShape
  <2>3. SameAmounts
    BY <1>a, <1>2, <2>1, <2>2, GapIsNoRow DEF SubmitCommit, SameAmounts, Exists, TypeOK, Payment, NoRow
  <2>4. NoMorePending
    BY <1>2, <1>b DEF SubmitCommit, Answer, Idle
  <2> QED
    BY <2>3, <2>4
<1>3. ASSUME NEW s \in Slots, ConfirmCommit(s) PROVE Goal
  <2>1. slot[s].payment \in Payments /\ Exists(slot[s].payment)
    BY <1>a, <1>3, RequestShape DEF ConfirmCommit, IInv, InFlight, OnPayment
  <2>2. payment[slot[s].payment] \in Payment
    BY <1>a, <2>1, PaymentShape
  <2>3. \/ UNCHANGED payment
        \/ payment' = [payment EXCEPT ![slot[s].payment].status = "paid",
                                      ![slot[s].payment].voucher = TRUE]
    BY <1>3 DEF ConfirmCommit
  <2>4. SameAmounts
    BY <1>a, <1>c, <2>1, <2>2, <2>3 DEF SameAmounts, Exists, TypeOK, Payment, NoRow
  <2>5. NoMorePending
    BY <1>3, <1>b DEF ConfirmCommit, Answer, Idle
  <2> QED
    BY <2>4, <2>5
<1>4. ASSUME NEW s \in Slots, NEW p \in Payments,
             SubmitRead(s, p) \/ ConfirmRead(s, p) \/ SendRead(s, p)
      PROVE  Goal
  BY <1>4, <1>b, <1>c DEF SubmitRead, ConfirmRead, SendRead, Go
<1>5. ASSUME NEW s \in Slots, NEW t \in Schedules, CancelRead(s, t) PROVE Goal
  BY <1>5, <1>b, <1>c DEF CancelRead, Go
<1>6. ASSUME NEW s \in Slots, CancelCommit(s) \/ UpdateInstruction(s) \/ Abandon(s) PROVE Goal
  BY <1>6, <1>b, <1>c DEF CancelCommit, UpdateInstruction, Abandon, Answer, Idle
<1>7. ASSUME NEW s \in Slots, NEW r \in Refs, SendInsert(s, r) \/ RefreshRead(s, r) PROVE Goal
  BY <1>7, <1>b, <1>c DEF SendInsert, RefreshRead, Go
<1>8. ASSUME NEW s \in Slots, SendCall(s) PROVE Goal
  BY <1>8, <1>b, <1>c DEF SendCall, Go
<1>9. ASSUME NEW s \in Slots, NEW st \in Answers, BankAnswered(s, st) PROVE Goal
  BY <1>9, <1>b, <1>c DEF BankAnswered, Go
<1>10. ASSUME NEW r \in Refs, BankReceive(r) \/ \E st \in Final : BankSettle(r, st) PROVE Goal
  BY <1>0, <1>10 DEF BankReceive, BankSettle
<1>11. CASE UNCHANGED vars
  BY <1>0, <1>11 DEF vars
<1>12. ASSUME Next PROVE Goal
  <2> HIDE DEF Goal
  <2>1. (\E s \in Slots, t \in Targets, a \in Amounts, m \in Months : CreateRead(s, t, a, m)) => Goal
    BY DEF Goal
  <2>2. (\E s \in Slots, p \in Payments : CreateCommit(s, p)) => Goal
    BY DEF Goal
  <2> QED
    BY <1>1, <1>2, <1>3, <1>4, <1>5, <1>6, <1>7, <1>8, <1>9, <1>10, <1>12, <2>1, <2>2 DEF Next
<1> QED
  BY <1>11, <1>12

LEMMA SpentKept ==
  ASSUME SameAmounts, TypeOK, NEW t PROVE Spent(t)' = Spent(t)
<1>1. Of(t)' = Of(t)
  BY DEF SameAmounts, Of
<1>2. [p \in Of(t) |-> payment[p].amount]' = [p \in Of(t) |-> payment[p].amount]
  BY <1>1 DEF SameAmounts, Of
<1> QED
  BY <1>1, <1>2 DEF Spent

(* Fewer payments to come leave less committed.                            *)
LEMMA LessPending ==
  ASSUME TypeOK, TypeOK', NEW t \in Targets, Committed(t), Spent(t)' = Spent(t),
         \A s \in Slots : Pending(s, t)' = Pending(s, t) \/ Pending(s, t)' = 0
  PROVE  Committed(t)'
<1> DEFINE f == [s \in Slots |-> Pending(s, t)]
           g == [s \in Slots |-> Pending(s, t)']
           b == Cardinality(Slots) * Due[t]
<1>1. /\ Due[t] \in Nat /\ Cardinality(Slots) \in Nat /\ IsFiniteSet(Slots)
  BY PaymentsAssumption, FS_CardinalityType
<1>2. \A s \in Slots : g[s] \in Int /\ f[s] \in Int /\ g[s] <= f[s]
  BY PendingTypes, PendingTypesAfter
<1>3. AllPending(t) = SumFunctionOnSet(f, Slots) /\ AllPending(t)' = SumFunctionOnSet(g, Slots)
  BY DEF AllPending
<1> HIDE DEF f, g
<1>4. AllPending(t)' <= AllPending(t)
  BY <1>1, <1>2, <1>3, SumMonotone
<1>5. Spent(t) \in Nat /\ AllPending(t) \in Nat /\ AllPending(t)' \in Nat /\ b \in Nat
  BY <1>1, AmountTypes, AmountTypesAfter
<1>6. Spent(t) + AllPending(t) <= b
  BY DEF Committed
<1> HIDE DEF b
<1>7. Spent(t)' + AllPending(t)' <= b
  BY <1>4, <1>5, <1>6
<1>8. \A s \in Slots : Pending(s, t)' <= Due[t]
  BY <1>1 DEF Committed
<1> QED
  BY <1>7, <1>8 DEF Committed, b

(* The payment that is read to be possible fits what is due.               *)
LEMMA CommittedRead ==
  ASSUME IInv, TypeOK', NEW t \in Targets, Committed(t),
         NEW s \in Slots, NEW u \in Targets, NEW a \in Amounts, NEW m \in Months,
         CreateRead(s, u, a, m)
  PROVE  Committed(t)'
<1> DEFINE call == [op |-> "create", target |-> u, amount |-> a, month |-> m]
           g == [x \in Slots |-> Pending(x, t)']
           n == Cardinality(Slots)
           d == Due[t]
<1>1. slot[s] = Idle /\ a <= Due[u] - Spent(u) /\ slot' = [slot EXCEPT ![s] = call] /\ payment' = payment
  BY DEF CreateRead, Free, Go, Remaining
<1>2. call.op = "create" /\ call.target = u /\ call.amount = a
  OBVIOUS
<1> HIDE DEF call
<1>3. TypeOK /\ Spent(t)' = Spent(t)
  BY <1>1, SpentKept DEF SameAmounts, Exists, IInv
<1>4. /\ \A x \in Slots \ {s} : Pending(x, t)' = Pending(x, t)
      /\ Pending(s, t)' = IF u = t THEN a ELSE 0
  BY <1>1, <1>2, <1>3 DEF Pending, TypeOK
<1>5. CASE u # t
  BY <1>3, <1>4, <1>5, LessPending
<1>6. CASE u = t
  <2>1. n \in Nat /\ d \in Nat /\ IsFiniteSet(Slots)
    BY PaymentsAssumption, FS_CardinalityType
  <2>2. Spent(t) \in Nat /\ a \in Nat /\ a <= d - Spent(t)
    BY <1>1, <1>3, <1>6, AmountTypes, PaymentsAssumption
  <2>3. \A x \in Slots : g[x] = Pending(x, t)' /\ g[x] \in Int /\ g[x] <= d
    BY <1>4, <1>6, <2>1, <2>2, PendingTypesAfter DEF Committed
  <2>4. AllPending(t)' = SumFunctionOnSet(g, Slots)
    BY DEF AllPending
  <2>5. g[s] = a
    BY <1>4, <1>6
  <2> HIDE DEF g, n, d
  <2>6. SumFunctionOnSet(g, Slots) = g[s] + SumFunctionOnSet(g, Slots \ {s})
    BY <2>1, <2>3, SumRemove
  <2>7. IsFiniteSet(Slots \ {s}) /\ Cardinality(Slots \ {s}) = n - 1
    BY <2>1, FS_RemoveElement DEF n
  <2>8. SumFunctionOnSet(g, Slots \ {s}) <= (n - 1) * d /\ SumFunctionOnSet(g, Slots \ {s}) \in Int
    BY <2>1, <2>3, <2>7, SumBound, SumType
  <2>9. (n - 1) * d = n * d - d /\ n * d \in Int
    BY <2>1
  <2>10. Spent(t)' + AllPending(t)' <= n * d
    BY <1>3, <2>1, <2>2, <2>4, <2>5, <2>6, <2>8, <2>9
  <2> QED
    BY <2>3, <2>10 DEF Committed, n, d
<1> QED
  BY <1>5, <1>6

(* A payment that is added was pending.                                    *)
LEMMA CommittedAdded ==
  ASSUME IInv, TypeOK', NEW t \in Targets, Committed(t),
         NEW s \in Slots, NEW p \in Payments, CreateCommit(s, p)
  PROVE  Committed(t)'
<1> DEFINE u == slot[s].target
           a == slot[s].amount
           row == [status |-> "draft", target |-> u, amount |-> a, month |-> slot[s].month,
                   number |-> slot[s].number, voucher |-> FALSE]
           f == [x \in Slots |-> Pending(x, t)]
           g == [x \in Slots |-> Pending(x, t)']
           v == [q \in Of(t) |-> payment[q].amount]
           w == [q \in Of(t) \cup {p} |-> payment'[q].amount]
<1>1. /\ slot[s].op = "insert" /\ payment[p] = NoRow
      /\ payment' = [payment EXCEPT ![p] = row] /\ slot' = [slot EXCEPT ![s] = Idle]
  BY DEF CreateCommit, Exists, Answer
<1>2. TypeOK /\ a \in Nat /\ row \in Payment
  BY <1>1, RequestShape, PaymentsAssumption DEF IInv, Numbered, Payment
<1>3. /\ \A x \in Slots \ {s} : Pending(x, t)' = Pending(x, t)
      /\ Pending(s, t)' = 0
      /\ Pending(s, t) = IF u = t THEN a ELSE 0
  BY <1>1, <1>2 DEF Pending, TypeOK, Idle
<1>4. row.target = u /\ row.amount = a /\ row # NoRow
  BY <1>2, GapIsNoRow
<1> HIDE DEF u, a, row
<1>5. /\ \A q \in Payments \ {p} : payment'[q] = payment[q]
      /\ payment'[p] = row /\ p \notin Of(t)
      /\ Of(t)' = IF u = t THEN Of(t) \cup {p} ELSE Of(t)
  BY <1>1, <1>2, <1>4 DEF Of, Exists, TypeOK
<1>6. CASE u # t
  <2>1. [q \in Of(t) |-> payment[q].amount]' = [q \in Of(t) |-> payment[q].amount]
    BY <1>5, <1>6 DEF Of
  <2>2. Spent(t)' = Spent(t)
    BY <1>5, <1>6, <2>1 DEF Spent
  <2> QED
    BY <1>2, <1>3, <1>6, <2>2, LessPending
<1>7. CASE u = t
  <2>1. Spent(t)' = SumFunctionOnSet(w, Of(t) \cup {p}) /\ Spent(t) = SumFunctionOnSet(v, Of(t))
    BY <1>5, <1>7 DEF Spent
  <2>2. /\ \A q \in Of(t) : v[q] \in Int /\ w[q] = v[q]
        /\ w[p] = a /\ \A q \in Of(t) \cup {p} : w[q] \in Int
    <3>1. \A q \in Of(t) : payment[q].amount \in Nat
      BY <1>2, PaymentShape, PaymentsAssumption DEF Of, Payment
    <3>2. \A q \in Of(t) : payment'[q] = payment[q]
      BY <1>5 DEF Of
    <3> QED
      BY <1>2, <1>4, <1>5, <3>1, <3>2
  <2>3. IsFiniteSet(Of(t)) /\ Spent(t) \in Nat
    BY <1>2, SpentType
  <2> HIDE DEF v, w
  <2>4. SumFunctionOnSet(w, Of(t) \cup {p}) = w[p] + SumFunctionOnSet(w, Of(t))
    BY <1>5, <2>2, <2>3, SumAdd
  <2>5. SumFunctionOnSet(v, Of(t)) = SumFunctionOnSet(w, Of(t))
    BY <2>2, <2>3, SumAgree
  <2>6. Spent(t)' = Spent(t) + a
    BY <1>2, <2>1, <2>2, <2>3, <2>4, <2>5
  <2>7. /\ \A x \in Slots : f[x] \in Int /\ g[x] \in Int
        /\ \A x \in Slots \ {s} : f[x] = g[x]
        /\ f[s] = a /\ g[s] = 0
    BY <1>2, <1>3, <1>7, PendingTypes, PendingTypesAfter
  <2>8. AllPending(t) = SumFunctionOnSet(f, Slots) /\ AllPending(t)' = SumFunctionOnSet(g, Slots)
    BY DEF AllPending
  <2> HIDE DEF f, g
  <2>9. AllPending(t)' = AllPending(t) + 0 - a
    BY <2>7, <2>8, SumChange, PaymentsAssumption
  <2>10. AllPending(t) \in Nat
    BY <1>2, AmountTypes
  <2>11. Spent(t)' + AllPending(t)' = Spent(t) + AllPending(t)
    BY <1>2, <2>3, <2>6, <2>9, <2>10
  <2>12. \A x \in Slots : Pending(x, t)' <= Due[t]
    BY <1>3, PaymentsAssumption DEF Committed
  <2> QED
    BY <2>11, <2>12 DEF Committed
<1> QED
  BY <1>6, <1>7

LEMMA CommittedStep ==
  ASSUME IInv, [Next]_vars, \A t \in Targets : Committed(t)
  PROVE  \A t \in Targets : Committed(t)'
<1> SUFFICES ASSUME NEW t \in Targets PROVE Committed(t)'
  OBVIOUS
<1>1. Committed(t) /\ TypeOK /\ TypeOK'
  BY Step DEF IInv
<1>2. ASSUME SameAmounts, NoMorePending PROVE Committed(t)'
  BY <1>1, <1>2, SpentKept, LessPending DEF NoMorePending
<1> QED
  BY <1>1, <1>2, PaymentSteps, CommittedRead, CommittedAdded

(* A target is overpaid at most once by each request at the same time.     *)
THEOREM OverpaymentIsBounded == Spec => []OverpaymentBounded
<1> DEFINE CInv == IInv /\ \A t \in Targets : Committed(t)
<1>1. Init => CInv
  <2> SUFFICES ASSUME Init, NEW t \in Targets PROVE Committed(t)
    BY Initially
  <2>1. Of(t) = {} /\ \A s \in Slots : Pending(s, t) = 0
    BY DEF Init, Of, Exists, Pending, Idle
  <2>2. Spent(t) = 0
    BY <2>1, SumEmpty DEF Spent
  <2>3. AllPending(t) = 0
    <3> DEFINE f == [s \in Slots |-> Pending(s, t)]
    <3>1. \A s \in Slots : f[s] = 0
      BY <2>1
    <3> HIDE DEF f
    <3>2. SumFunctionOnSet(f, Slots) = 0
      BY <3>1, SumZero, PaymentsAssumption
    <3> QED
      BY <3>2 DEF AllPending, f
  <2>4. Due[t] \in Nat /\ Cardinality(Slots) \in Nat
    BY PaymentsAssumption, FS_CardinalityType
  <2>5. Cardinality(Slots) * Due[t] \in Nat
    BY <2>4
  <2> QED
    BY <2>1, <2>2, <2>3, <2>4, <2>5 DEF Committed
<1>2. CInv /\ [Next]_vars => CInv'
  BY Step, CommittedStep
<1>3. CInv => OverpaymentBounded
  <2> SUFFICES ASSUME CInv, NEW t \in Targets PROVE Spent(t) <= Cardinality(Slots) * Due[t]
    BY DEF OverpaymentBounded
  <2>1. Spent(t) + AllPending(t) <= Cardinality(Slots) * Due[t]
    BY DEF Committed
  <2>2. Spent(t) \in Nat /\ AllPending(t) \in Nat
    BY AmountTypes DEF IInv
  <2>3. Cardinality(Slots) * Due[t] \in Nat
    BY PaymentsAssumption, FS_CardinalityType
  <2> QED
    BY <2>1, <2>2, <2>3
<1> QED
  BY <1>1, <1>2, <1>3, PTL DEF Spec
=============================================================================
