--------------------------- MODULE ExpensesProofs ---------------------------
(***************************************************************************)
(* Proofs about Expenses, for every number of overlapping requests, users, *)
(* advances, reimbursements and invoices.  Nothing locks an invoice: that  *)
(* it is claimed once rests on a submission being audited only after its   *)
(* reimbursement is in the table, where the audit of any other finds it.   *)
(***************************************************************************)
EXTENDS Expenses, TLAPS

-----------------------------------------------------------------------------
(* Shapes of the data.                                                     *)

LEMMA NoRowShape ==
  /\ NoRow.status = "none" /\ NoRow \notin Advance /\ NoRow \notin Reimbursement
  /\ Idle \in Calls /\ Idle.op = "idle"
BY DEF NoRow, Advance, Reimbursement, AdvanceStatus, ReimbursementStatus, Idle, Calls

LEMMA ReimbursementShape ==
  ASSUME TypeOK, NEW r \in Reimbursements
  PROVE  /\ Claimed(r) => reimbursement[r] \in Reimbursement
         /\ reimbursement[r].status # "none" => Claimed(r)
BY NoRowShape DEF TypeOK, Claimed

LEMMA AdvanceShape ==
  ASSUME TypeOK, NEW a \in Advances
  PROVE  /\ advance[a] # NoRow => advance[a] \in Advance
         /\ advance[a].status # "none" => advance[a] # NoRow
BY NoRowShape DEF TypeOK

(* The step a request is at tells what its slot remembers.                 *)
LEMMA CallShape ==
  ASSUME TypeOK, NEW s \in Slots
  PROVE  /\ slot[s].op = "create" => slot[s] \in Creating
         /\ slot[s].op = "move" => slot[s] \in Moving
         /\ slot[s].op = "pay" => slot[s] \in Paying
         /\ slot[s].op = "draft" => slot[s] \in Drafting
<1>1. slot[s] \in Calls
  BY DEF TypeOK
<1> QED
  BY <1>1 DEF Calls, Creating, Moving, Paying, Drafting

-----------------------------------------------------------------------------
(* The inductive invariant.                                                *)

Live == {"pending", "approved", "rejected", "paid"}

(* r was submitted, or its submission has passed the audit.                *)
Cleared(r) ==
  \/ reimbursement[r].status \in Live
  \/ \E s \in Slots : slot[s].op = "move" /\ slot[s].id = r /\ slot[s].action = "submit"

Rivals(r, q) ==
  /\ r # q /\ Claimed(r) /\ Claimed(q)
  /\ reimbursement[r].status # "cancelled" /\ reimbursement[q].status # "cancelled"
  /\ reimbursement[r].claim.invoices \cap reimbursement[q].claim.invoices # {}

ClearedOnce ==
  \A r, q \in Reimbursements : Rivals(r, q) => ~(Cleared(r) /\ Cleared(q))

(* What the requests in flight rely on: the rows they have read are there, *)
(* and only the request that approved a reimbursement drafts its voucher.  *)
InFlight ==
  /\ \A s \in Slots :
       /\ slot[s].op = "pay" => advance[slot[s].id] # NoRow
       /\ slot[s].op = "move" /\ slot[s].id \in Reimbursements => Claimed(slot[s].id)
       /\ slot[s].op = "draft" =>
            /\ reimbursement[slot[s].id].status \in {"approved", "paid", "cancelled"}
            /\ ~reimbursement[slot[s].id].voucher
  /\ \A s, t \in Slots :
       slot[s].op = "draft" /\ slot[t].op = "draft" /\ slot[s].id = slot[t].id => s = t

IInv == TypeOK /\ OneVoucher /\ ClearedOnce /\ InFlight

rows == <<advance, reimbursement, drafted, posted, repaid>>

LEMMA Initially == Init => IInv
<1> SUFFICES ASSUME Init PROVE IInv
  OBVIOUS
<1>1. TypeOK
  BY NoRowShape DEF Init, TypeOK
<1>2. OneVoucher /\ ClearedOnce
  BY DEF Init, OneVoucher, ClearedOnce, Rivals, Claimed, Documents
<1>3. InFlight
  BY NoRowShape DEF Init, InFlight
<1> QED
  BY <1>1, <1>2, <1>3 DEF IInv

-----------------------------------------------------------------------------
(* Steps that leave the rows of reimbursements alone.                      *)

(* A request that reads, is answered or abandoned changes its slot only;   *)
(* if it is to submit, it found no rival.                                  *)
LEMMA OwnSlot ==
  ASSUME IInv, UNCHANGED rows, NEW s \in Slots, NEW x \in Calls,
         slot' = [slot EXCEPT ![s] = x], x.op # "draft",
         x.op = "pay" => advance[x.id] # NoRow,
         x.op = "move" /\ x.id \in Reimbursements => Claimed(x.id),
         \A q \in Reimbursements :
           x.op = "move" /\ x.id \in Reimbursements /\ x.action = "submit"
             => ~Rivals(x.id, q)
  PROVE  IInv'
<1>1. TypeOK' /\ OneVoucher'
  BY DEF IInv, TypeOK, OneVoucher, Claimed, rows
<1>2. ClearedOnce'
  <2> SUFFICES ASSUME NEW r \in Reimbursements, NEW q \in Reimbursements,
                      Rivals(r, q)', Cleared(r)', Cleared(q)'
               PROVE  FALSE
    BY DEF ClearedOnce
  <2>1. Rivals(r, q) /\ Rivals(q, r)
    BY DEF Rivals, Claimed, rows
  <2>2. \A p \in {r, q} : Cleared(p)
    <3> SUFFICES ASSUME NEW p \in {r, q} PROVE Cleared(p)
      OBVIOUS
    <3>1. \A t \in Slots : t # s => slot'[t] = slot[t]
      BY DEF IInv, TypeOK
    <3>2. slot'[s] = x
      BY DEF IInv, TypeOK
    <3> QED
      BY <2>1, <3>1, <3>2 DEF Cleared, rows
  <2> QED
    BY <2>1, <2>2 DEF IInv, ClearedOnce
<1>3. InFlight'
  BY DEF IInv, TypeOK, InFlight, Claimed, rows
<1> QED
  BY <1>1, <1>2, <1>3 DEF IInv

LEMMA Answering ==
  ASSUME IInv, UNCHANGED rows, NEW s \in Slots, Answer(s)
  PROVE  IInv'
BY NoRowShape, OwnSlot DEF Answer

(* A row of an advance is written, and at most a slot is answered.         *)
LEMMA AdvanceWritten ==
  ASSUME IInv, NEW a \in Advances, NEW x \in Advance,
         advance' = [advance EXCEPT ![a] = x],
         drafted' \in [Documents -> Nat], OneVoucher', UNCHANGED <<reimbursement, posted, repaid>>,
         NEW s \in Slots, slot' = slot \/ Answer(s)
  PROVE  IInv'
<1>1. \A t \in Slots : slot'[t] = slot[t] \/ slot'[t] = Idle
  BY DEF IInv, TypeOK, Answer
<1>2. TypeOK'
  BY NoRowShape DEF IInv, TypeOK, Answer
<1>3. ClearedOnce'
  <2>1. \A r \in Reimbursements : Cleared(r)' => Cleared(r)
    BY <1>1, NoRowShape DEF Cleared
  <2> QED
    BY <2>1 DEF IInv, ClearedOnce, Rivals, Claimed
<1>4. \A b \in Advances : advance[b] # NoRow => advance'[b] # NoRow
  BY NoRowShape DEF IInv, TypeOK
<1>5. InFlight'
  <2>1. \A t \in Slots : slot'[t].op = "pay" => advance'[slot'[t].id] # NoRow
    <3> SUFFICES ASSUME NEW t \in Slots, slot'[t].op = "pay"
                 PROVE  advance'[slot'[t].id] # NoRow
      OBVIOUS
    <3>1. slot'[t] = slot[t]
      BY <1>1, NoRowShape
    <3>2. slot[t].id \in Advances /\ advance[slot[t].id] # NoRow
      BY <3>1, CallShape DEF IInv, InFlight, Paying
    <3> QED
      BY <1>4, <3>1, <3>2
  <2> QED
    BY <1>1, <2>1, NoRowShape DEF IInv, InFlight, Claimed
<1> QED
  BY <1>2, <1>3, <1>5 DEF IInv

LEMMA CreateAdvanceStep ==
  ASSUME IInv, NEW s \in Slots, NEW a \in Advances, NEW u \in Users, NEW n \in Amounts,
         CreateAdvance(s, a, u, n)
  PROVE  IInv'
<1> DEFINE x == [status |-> "draft", owner |-> u, amount |-> n, voucher |-> FALSE]
<1>1. x \in Advance /\ x.voucher = FALSE
  BY DEF Advance, AdvanceStatus
<1>2. advance' = [advance EXCEPT ![a] = x] /\ UNCHANGED <<reimbursement, drafted, posted, repaid, slot>>
  BY DEF CreateAdvance
<1>3. advance[a] = NoRow
  BY DEF CreateAdvance
<1> HIDE DEF x
<1>4. OneVoucher'
  BY <1>1, <1>2, <1>3 DEF IInv, TypeOK, OneVoucher, Claimed
<1> QED
  BY <1>1, <1>2, <1>4, AdvanceWritten DEF IInv, TypeOK

LEMMA AdvanceMoveStep ==
  ASSUME IInv, NEW s \in Slots, AdvanceMove(s)
  PROVE  IInv'
<1> DEFINE a == slot[s].id
<1>1. PICK t \in NextAdvance(advance[a].status, slot[s].action) :
        advance' = [advance EXCEPT ![a].status = t]
  BY DEF AdvanceMove
<1>2. a \in Advances
  BY DEF AdvanceMove
<1>3. t \in AdvanceStatus /\ advance[a].status # "none"
  BY DEF NextAdvance
<1>4. advance[a] \in Advance /\ advance[a] # NoRow
  BY <1>2, <1>3, AdvanceShape DEF IInv
<1> DEFINE x == [advance[a] EXCEPT !.status = t]
<1>5. x \in Advance /\ x.voucher = advance[a].voucher
  BY <1>3, <1>4 DEF Advance
<1>6. advance' = [advance EXCEPT ![a] = x]
  BY <1>1
<1>7. Answer(s) /\ UNCHANGED <<reimbursement, drafted, posted, repaid>>
  BY DEF AdvanceMove
<1> HIDE DEF x, a
<1>8. OneVoucher'
  BY <1>2, <1>4, <1>5, <1>6, <1>7, NoRowShape DEF IInv, TypeOK, OneVoucher, Claimed
<1> QED
  BY <1>2, <1>5, <1>6, <1>7, <1>8, AdvanceWritten DEF IInv, TypeOK

(* The lock and the second look are what pays an advance once.             *)
LEMMA PayCommitStep ==
  ASSUME IInv, NEW s \in Slots, PayCommit(s)
  PROVE  IInv'
<1> DEFINE a == slot[s].id
           x == [advance[a] EXCEPT !.status = "paid", !.voucher = TRUE]
<1>1. a \in Advances /\ advance[a] # NoRow /\ ~advance[a].voucher
  BY CallShape DEF PayCommit, IInv, InFlight, Paying
<1>2. advance[a] \in Advance
  BY <1>1, AdvanceShape DEF IInv
<1>3. x \in Advance /\ x.voucher = TRUE
  BY <1>2 DEF Advance, AdvanceStatus
<1>4. advance' = [advance EXCEPT ![a] = x]
  BY DEF PayCommit
<1>5. /\ drafted' = [drafted EXCEPT ![a] = @ + 1]
      /\ Answer(s) /\ UNCHANGED <<reimbursement, posted, repaid>>
  BY DEF PayCommit
<1> HIDE DEF x, a
<1>6. a \in Documents /\ \A r \in Reimbursements : r # a /\ r \in Documents
  BY <1>1, ExpensesAssumption DEF Documents
<1>7. drafted' \in [Documents -> Nat]
  BY <1>5, <1>6 DEF IInv, TypeOK
<1>8. OneVoucher'
  <2>1. drafted[a] = 0
    BY <1>1 DEF IInv, OneVoucher
  <2>2. drafted'[a] = 1 /\ \A d \in Documents : d # a => drafted'[d] = drafted[d]
    BY <1>5, <1>6, <2>1 DEF IInv, TypeOK
  <2>3. \A b \in Advances : advance'[b] = IF b = a THEN x ELSE advance[b]
    BY <1>1, <1>4 DEF IInv, TypeOK
  <2> QED
    BY <1>3, <1>5, <1>6, <2>2, <2>3, NoRowShape DEF IInv, OneVoucher, Claimed, Documents
<1> QED
  BY <1>1, <1>3, <1>4, <1>5, <1>7, <1>8, AdvanceWritten

-----------------------------------------------------------------------------
(* Steps that write a reimbursement.                                       *)

(* A row is written and the request answered.  A row that is new is a      *)
(* draft; another keeps its claim, and becomes live only when cleared.     *)
RowWrite(s, c, r, x) ==
  /\ reimbursement' = [reimbursement EXCEPT ![r] = x]
  /\ slot' = [slot EXCEPT ![s] = c]
  /\ UNCHANGED <<advance, posted, repaid>>
  /\ ~Claimed(r) => x.status = "draft"
  /\ Claimed(r) => /\ x.claim = reimbursement[r].claim
                   /\ reimbursement[r].status = "cancelled" => x.status = "cancelled"
                   /\ x.status \in Live => Cleared(r)
  /\ c.op \in {"idle", "draft"}
  /\ c.op = "draft" => c.id = r /\ x.status = "approved" /\ ~x.voucher
  /\ \A t \in Slots : t # s /\ slot[t].op = "draft" /\ slot[t].id = r =>
       c.op # "draft" /\ x.status \in {"approved", "paid", "cancelled"} /\ ~x.voucher

LEMMA ReimbursementWritten ==
  ASSUME IInv, NEW s \in Slots, NEW c \in Calls,
         NEW r \in Reimbursements, NEW x \in Reimbursement,
         RowWrite(s, c, r, x), drafted' \in [Documents -> Nat], OneVoucher'
  PROVE  IInv'
<1> USE DEF RowWrite
<1>1. /\ slot'[s] = c /\ \A t \in Slots : t # s => slot'[t] = slot[t]
      /\ reimbursement'[r] = x
      /\ \A q \in Reimbursements : q # r => reimbursement'[q] = reimbursement[q]
  BY DEF IInv, TypeOK
<1>2. TypeOK'
  BY DEF IInv, TypeOK
<1>3. \A q \in Reimbursements : Claimed(q) => Claimed(q)'
  BY <1>1, NoRowShape DEF Claimed
<1>4. \A q \in Reimbursements : Cleared(q)' => Cleared(q)
  <2> SUFFICES ASSUME NEW q \in Reimbursements, Cleared(q)' PROVE Cleared(q)
    OBVIOUS
  <2>1. CASE reimbursement'[q].status \in Live
    <3>1. CASE q = r
      BY <1>1, <2>1, <3>1 DEF Live
    <3>2. CASE q # r
      BY <1>1, <2>1, <3>2 DEF Cleared
    <3> QED
      BY <3>1, <3>2
  <2>2. CASE \E t \in Slots :
               slot'[t].op = "move" /\ slot'[t].id = q /\ slot'[t].action = "submit"
    BY <1>1, <2>2 DEF Cleared
  <2> QED
    BY <2>1, <2>2 DEF Cleared
<1>5. ClearedOnce'
  <2> SUFFICES ASSUME NEW p \in Reimbursements, NEW q \in Reimbursements,
                      Rivals(p, q)', Cleared(p)', Cleared(q)'
               PROVE  FALSE
    BY DEF ClearedOnce
  <2>1. Cleared(p) /\ Cleared(q)
    BY <1>4
  <2>2. Claimed(p) /\ Claimed(q)
    <3> SUFFICES ASSUME NEW y \in {p, q}, ~Claimed(y), Cleared(y) PROVE FALSE
      BY <2>1
    <3>1. reimbursement[y].status = "none"
      BY NoRowShape DEF Claimed
    <3>2. PICK t \in Slots : slot[t].op = "move" /\ slot[t].id = y
      BY <3>1 DEF Cleared, Live
    <3> QED
      BY <3>2 DEF IInv, InFlight
  <2>3. Rivals(p, q)
    BY <1>1, <2>2 DEF Rivals, Claimed
  <2> QED
    BY <2>1, <2>3 DEF IInv, ClearedOnce
<1>6. InFlight'
  <2>1. ASSUME NEW t \in Slots
        PROVE  (/\ slot[t].op = "pay" => advance[slot[t].id] # NoRow
                /\ slot[t].op = "move" /\ slot[t].id \in Reimbursements => Claimed(slot[t].id)
                /\ slot[t].op = "draft" =>
                     /\ reimbursement[slot[t].id].status \in {"approved", "paid", "cancelled"}
                     /\ ~reimbursement[slot[t].id].voucher)'
    <3>1. CASE t = s
      BY <1>1, <3>1
    <3>2. CASE t # s
      <4>1. slot'[t] = slot[t]
        BY <1>1, <3>2
      <4>2. slot[t].op = "draft" => slot[t].id \in Reimbursements
        BY CallShape DEF IInv, Drafting
      <4>3. slot[t].op = "draft" =>
               /\ reimbursement'[slot[t].id].status \in {"approved", "paid", "cancelled"}
               /\ ~reimbursement'[slot[t].id].voucher
        BY <1>1, <3>2, <4>2 DEF IInv, InFlight
      <4>4. slot'[t].op = "move" /\ slot'[t].id \in Reimbursements => Claimed(slot[t].id)'
        BY <1>1, <1>3, <4>1 DEF IInv, InFlight, Claimed
      <4> QED
        BY <4>1, <4>3, <4>4 DEF IInv, InFlight
    <3> QED
      BY <3>1, <3>2
  <2>2. ASSUME NEW t \in Slots, NEW v \in Slots,
               slot'[t].op = "draft", slot'[v].op = "draft", slot'[t].id = slot'[v].id
        PROVE  t = v
    BY <1>1, <2>2 DEF IInv, InFlight
  <2> QED
    BY <2>1, <2>2 DEF InFlight
<1> QED
  BY <1>2, <1>5, <1>6 DEF IInv

LEMMA CreateCommitStep ==
  ASSUME IInv, NEW s \in Slots, CreateCommit(s)
  PROVE  IInv'
<1> DEFINE r == slot[s].id
           x == [status |-> "draft", owner |-> slot[s].user, claim |-> slot[s].claim,
                 voucher |-> FALSE]
<1>1. slot[s] \in Creating
  BY CallShape DEF CreateCommit, IInv
<1>2. r \in Reimbursements /\ x \in Reimbursement /\ x.status = "draft" /\ ~x.voucher
  BY <1>1 DEF Creating, Reimbursement, ReimbursementStatus
<1>3. ~Claimed(r)
  BY DEF CreateCommit
<1>4. /\ reimbursement' = [reimbursement EXCEPT ![r] = x]
      /\ slot' = [slot EXCEPT ![s] = Idle]
      /\ UNCHANGED <<advance, drafted, posted, repaid>>
  BY DEF CreateCommit, Answer
<1> HIDE DEF x, r
<1>5. OneVoucher'
  BY <1>2, <1>3, <1>4 DEF IInv, TypeOK, OneVoucher, Claimed
<1>6. \A t \in Slots : slot[t].op = "draft" => slot[t].id # r
  BY <1>3, NoRowShape DEF IInv, InFlight, Claimed
<1>7. drafted' \in [Documents -> Nat]
  BY <1>4 DEF IInv, TypeOK
<1>8. RowWrite(s, Idle, r, x)
  BY <1>2, <1>3, <1>4, <1>6, NoRowShape DEF RowWrite
<1> QED
  BY <1>2, <1>5, <1>7, <1>8, NoRowShape, ReimbursementWritten

(* A transition holds the lock: what it reads is what it moves.            *)
LEMMA ReimbursementMoveStep ==
  ASSUME IInv, NEW s \in Slots, ReimbursementMove(s)
  PROVE  IInv'
<1> DEFINE r == slot[s].id
           y == slot[s].action
<1>1. PICK t \in NextReimbursement(reimbursement[r].status, y) :
        /\ reimbursement' = [reimbursement EXCEPT ![r].status = t]
        /\ IF t = "approved" /\ ~reimbursement[r].voucher
           THEN Go(s, [op |-> "draft", id |-> r])
           ELSE Answer(s)
  BY DEF ReimbursementMove
<1>2. /\ r \in Reimbursements /\ slot[s].op = "move"
      /\ UNCHANGED <<advance, drafted, posted, repaid>>
  BY DEF ReimbursementMove
<1>3. /\ t \in ReimbursementStatus
      /\ reimbursement[r].status \in {"draft", "pending", "approved", "rejected"}
      /\ t = "pending" => y = "submit"
      /\ t \in {"approved", "rejected", "paid"} => reimbursement[r].status \in Live
      /\ reimbursement[r].status = "approved" => t \in {"paid", "cancelled"}
      /\ t = "approved" => reimbursement[r].status = "pending"
  BY DEF NextReimbursement, Live
<1>4. Claimed(r) /\ reimbursement[r] \in Reimbursement
  BY <1>2, <1>3, ReimbursementShape DEF IInv
<1> DEFINE x == [reimbursement[r] EXCEPT !.status = t]
           c == IF t = "approved" /\ ~reimbursement[r].voucher
                THEN [op |-> "draft", id |-> r] ELSE Idle
<1>5. /\ x \in Reimbursement /\ x.status = t
      /\ x.claim = reimbursement[r].claim /\ x.voucher = reimbursement[r].voucher
  BY <1>3, <1>4 DEF Reimbursement
<1>6. /\ c \in Calls /\ c.op \in {"idle", "draft"}
      /\ c.op = "draft" => t = "approved" /\ ~reimbursement[r].voucher /\ c.id = r
  BY <1>2, NoRowShape DEF Calls, Drafting
<1>7. reimbursement' = [reimbursement EXCEPT ![r] = x] /\ slot' = [slot EXCEPT ![s] = c]
  BY <1>1 DEF Go, Answer
<1>8. t \in Live => Cleared(r)
  BY <1>2, <1>3 DEF Live, Cleared
<1> HIDE DEF x, c
<1>9. OneVoucher'
  BY <1>2, <1>4, <1>5, <1>7, NoRowShape DEF IInv, TypeOK, OneVoucher, Claimed
<1>10. \A v \in Slots : v # s /\ slot[v].op = "draft" /\ slot[v].id = r =>
         c.op # "draft" /\ x.status \in {"approved", "paid", "cancelled"} /\ ~x.voucher
  BY <1>3, <1>5, <1>6 DEF IInv, InFlight
<1>11. drafted' \in [Documents -> Nat]
  BY <1>2 DEF IInv, TypeOK
<1>12. RowWrite(s, c, r, x)
  BY <1>2, <1>3, <1>4, <1>5, <1>6, <1>7, <1>8, <1>10 DEF RowWrite
<1> HIDE DEF r, y
<1> QED
  BY <1>2, <1>5, <1>6, <1>9, <1>11, <1>12, ReimbursementWritten

(* The voucher is drafted by the request that approved, and by no other.   *)
LEMMA ReimbursementVoucherStep ==
  ASSUME IInv, NEW s \in Slots, ReimbursementVoucher(s)
  PROVE  IInv'
<1> DEFINE r == slot[s].id
           x == [reimbursement[r] EXCEPT !.voucher = TRUE]
<1>1. /\ r \in Reimbursements /\ ~reimbursement[r].voucher
      /\ reimbursement[r].status \in {"approved", "paid", "cancelled"}
  BY CallShape DEF ReimbursementVoucher, IInv, InFlight, Drafting
<1>2. Claimed(r) /\ reimbursement[r] \in Reimbursement
  BY <1>1, ReimbursementShape DEF IInv
<1>3. /\ x \in Reimbursement /\ x.status = reimbursement[r].status
      /\ x.claim = reimbursement[r].claim /\ x.voucher = TRUE
  BY <1>2 DEF Reimbursement
<1>4. /\ reimbursement' = [reimbursement EXCEPT ![r] = x]
      /\ drafted' = [drafted EXCEPT ![r] = @ + 1]
      /\ slot' = [slot EXCEPT ![s] = Idle]
      /\ UNCHANGED <<advance, posted, repaid>>
  BY DEF ReimbursementVoucher, Answer
<1>5. \A t \in Slots : t # s /\ slot[t].op = "draft" => slot[t].id # r
  BY DEF ReimbursementVoucher, IInv, InFlight
<1> HIDE DEF x, r
<1>6. r \in Documents /\ \A a \in Advances : a # r /\ a \in Documents
  BY <1>1, ExpensesAssumption DEF Documents
<1>7. drafted' \in [Documents -> Nat]
  BY <1>4, <1>6 DEF IInv, TypeOK
<1>8. OneVoucher'
  <2>1. drafted[r] = 0
    BY <1>1 DEF IInv, OneVoucher
  <2>2. drafted'[r] = 1 /\ \A d \in Documents : d # r => drafted'[d] = drafted[d]
    BY <1>4, <1>6, <2>1 DEF IInv, TypeOK
  <2>3. \A q \in Reimbursements : reimbursement'[q] = IF q = r THEN x ELSE reimbursement[q]
    BY <1>1, <1>4 DEF IInv, TypeOK
  <2> QED
    BY <1>3, <1>4, <1>6, <2>2, <2>3, NoRowShape DEF IInv, OneVoucher, Claimed, Documents
<1>9. x.status \in Live => Cleared(r)
  BY <1>3 DEF Cleared
<1>10. RowWrite(s, Idle, r, x)
  BY <1>2, <1>3, <1>4, <1>5, <1>9, NoRowShape DEF RowWrite
<1> QED
  BY <1>1, <1>3, <1>7, <1>8, <1>10, NoRowShape, ReimbursementWritten

-----------------------------------------------------------------------------
(* Requests that read.                                                     *)

LEMMA ReadSteps ==
  ASSUME IInv, NEW s \in Slots,
         \/ \E r \in Reimbursements, u \in Users, c \in Claims : CreateRead(s, r, u, c)
         \/ \E a \in Advances, y \in AdvanceActions, u \in Users : AdvanceRead(s, a, y, u)
         \/ \E a \in Advances, u \in Users : PayRead(s, a, u)
  PROVE  IInv'
<1>1. ASSUME NEW r \in Reimbursements, NEW u \in Users, NEW c \in Claims,
             CreateRead(s, r, u, c)
      PROVE  IInv'
  <2> DEFINE x == [op |-> "create", id |-> r, user |-> u, claim |-> c]
  <2>1. x \in Calls /\ x.op = "create"
    BY DEF Calls, Creating
  <2>2. slot' = [slot EXCEPT ![s] = x] /\ UNCHANGED rows
    BY <1>1 DEF CreateRead, Go, rows
  <2> HIDE DEF x
  <2> QED
    BY <2>1, <2>2, OwnSlot
<1>2. ASSUME NEW a \in Advances, NEW y \in AdvanceActions, NEW u \in Users,
             AdvanceRead(s, a, y, u)
      PROVE  IInv'
  <2> DEFINE x == [op |-> "move", id |-> a, action |-> y]
  <2>1. x \in Calls /\ x.op = "move" /\ x.id \notin Reimbursements
    BY ExpensesAssumption DEF Calls, Moving, Documents
  <2>2. slot' = [slot EXCEPT ![s] = x] /\ UNCHANGED rows
    BY <1>2 DEF AdvanceRead, Go, rows
  <2> HIDE DEF x
  <2> QED
    BY <2>1, <2>2, OwnSlot
<1>3. ASSUME NEW a \in Advances, NEW u \in Users, PayRead(s, a, u)
      PROVE  IInv'
  <2> DEFINE x == [op |-> "pay", id |-> a]
  <2>1. x \in Calls /\ x.op = "pay" /\ x.id = a
    BY DEF Calls, Paying
  <2>2. slot' = [slot EXCEPT ![s] = x] /\ UNCHANGED rows /\ advance[a] # NoRow
    BY <1>3 DEF PayRead, Go, rows
  <2> HIDE DEF x
  <2> QED
    BY <2>1, <2>2, OwnSlot
<1> QED
  BY <1>1, <1>2, <1>3

(* The audit finds every rival that is not cancelled.                      *)
LEMMA ReimbursementReadStep ==
  ASSUME IInv, NEW s \in Slots, NEW r \in Reimbursements, NEW y \in ReimbursementActions,
         NEW u \in Users, ReimbursementRead(s, r, y, u)
  PROVE  IInv'
<1> DEFINE x == [op |-> "move", id |-> r, action |-> y]
<1>1. x \in Calls /\ x.op = "move" /\ x.id = r /\ x.action = y
  BY DEF Calls, Moving, Documents
<1>2. slot' = [slot EXCEPT ![s] = x] /\ UNCHANGED rows /\ Claimed(r)
  BY DEF ReimbursementRead, Go, rows
<1>3. ASSUME y = "submit", NEW q \in Reimbursements, Rivals(r, q)
      PROVE  FALSE
  <2>1. PICK i \in reimbursement[r].claim.invoices : i \in reimbursement[q].claim.invoices
    BY <1>3 DEF Rivals
  <2>2. InvoiceUsed(i, r)
    BY <1>3, <2>1 DEF Rivals, InvoiceUsed
  <2> QED
    BY <1>3, <2>1, <2>2 DEF ReimbursementRead
<1> HIDE DEF x
<1> QED
  BY <1>1, <1>2, <1>3, OwnSlot

LEMMA LedgerSteps ==
  ASSUME IInv,
         \/ \E d \in Documents : PostVoucher(d)
         \/ \E u \in Users, n \in Amounts : Repay(u, n)
         \/ UNCHANGED vars
  PROVE  IInv'
<1>1. UNCHANGED <<advance, reimbursement, drafted, slot>>
  BY DEF PostVoucher, Repay, vars
<1>2. posted' \in [Documents -> Nat] /\ repaid' \in [Users -> Nat]
  BY ExpensesAssumption DEF IInv, TypeOK, PostVoucher, Repay, vars
<1> QED
  BY <1>1, <1>2 DEF IInv, TypeOK, OneVoucher, ClearedOnce, Rivals, Cleared, Claimed, InFlight

LEMMA Stepwise == IInv /\ [Next]_vars => IInv'
<1> SUFFICES ASSUME IInv, [Next]_vars PROVE IInv'
  OBVIOUS
<1>1. ASSUME NEW s \in Slots, Abandon(s) PROVE IInv'
  BY <1>1, Answering DEF Abandon, rows
<1> QED
  BY <1>1, ReadSteps, ReimbursementReadStep, CreateCommitStep, ReimbursementMoveStep,
     ReimbursementVoucherStep, CreateAdvanceStep, AdvanceMoveStep, PayCommitStep,
     LedgerSteps DEF Next

LEMMA Safety == Spec => []IInv
BY Initially, Stepwise, PTL DEF Spec

(* Every variable keeps its type.                                          *)
THEOREM TypeCorrect == Spec => []TypeOK
<1>1. IInv => TypeOK
  BY DEF IInv
<1> QED
  BY <1>1, Safety, PTL

(* However requests overlap, a document gets one voucher at most.          *)
THEOREM VoucherDraftedOnce == Spec => []OneVoucher
<1>1. IInv => OneVoucher
  BY DEF IInv
<1> QED
  BY <1>1, Safety, PTL

(* However requests overlap, an invoice is claimed by one reimbursement.   *)
THEOREM InvoiceClaims == Spec => []InvoiceClaimedOnce
<1>1. IInv => InvoiceClaimedOnce
  <2> SUFFICES ASSUME IInv, NEW r \in Reimbursements, NEW q \in Reimbursements,
                      r # q, Claimed(r), Claimed(q),
                      reimbursement[r].status \in Live, reimbursement[q].status \in Live
               PROVE  reimbursement[r].claim.invoices \cap reimbursement[q].claim.invoices = {}
    BY DEF InvoiceClaimedOnce, Live
  <2> QED
    BY DEF IInv, ClearedOnce, Rivals, Cleared, Live
<1> QED
  BY <1>1, Safety, PTL
=============================================================================
