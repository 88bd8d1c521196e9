------------------------ MODULE VoucherLedgerProofs ------------------------
(* Proofs about VoucherLedger, for every number of overlapping requests,    *)
(* users, events, vouchers and periods.                                     *)
EXTENDS VoucherLedger, FiniteSetTheorems, TLAPS

-----------------------------------------------------------------------------
(* Shapes of the data.                                                     *)

(* Negating the lines of a voucher gives lines again.                      *)
LEMMA NegatedLines == \A x \in Lines : -x \in Lines
BY ConstantsAssumption DEF Lines

(* A row that is not absent is a voucher.                                  *)
LEMMA RowShape ==
  ASSUME TypeOK, NEW v \in Ids, Exists(v)
  PROVE  voucher[v] \in Voucher
BY DEF TypeOK, Exists

(* No voucher is the absent row, whatever was written into it.             *)
LEMMA VoucherIsNoGap == ASSUME NEW x \in Voucher PROVE x # NoRow
BY DEF Voucher, NoRow, Statuses

(* The step a request is at tells what its slot remembers.                 *)
LEMMA RequestShape ==
  ASSUME TypeOK, NEW s \in Slots
  PROVE  /\ slot[s].op = "approve" => slot[s] \in Approval
         /\ slot[s].op = "update" => slot[s] \in Edit
         /\ slot[s].op = "reverse" => slot[s] \in Reversing
         /\ slot[s].op \in {"post.read", "post.checked"} => slot[s] \in Posting
         /\ slot[s].op = "post.started" => slot[s] \in Writing
<1>1. slot[s] \in Requests
  BY DEF TypeOK
<1> QED
  BY <1>1 DEF Requests, Approval, Edit, Reversing, Posting, Writing

LEMMA DraftShape ==
  ASSUME NEW e \in Events, NEW w \in Words, NEW p \in Periods, NEW a \in Lines,
         NEW o \in Ids \cup {NoVoucher}, NEW st \in Statuses
  PROVE  Draft(e, w, p, a, o, st) \in Voucher
BY DEF Draft, Voucher

-----------------------------------------------------------------------------
(* Type correctness.                                                       *)

LEMMA TypeInit == Init => TypeOK
BY ConstantsAssumption
   DEF Init, TypeOK, NoRow, NoEntry, RunStates, Requests, Idle, Periods

LEMMA TypeStep == TypeOK /\ [Next]_vars => TypeOK'
<1> SUFFICES ASSUME TypeOK, [Next]_vars PROVE TypeOK'
  OBVIOUS
<1> USE DEF TypeOK
<1>1. ASSUME NEW s \in Slots, NEW t \in Template, NEW a \in Amounts,
             CreateVoucherFromTemplate(s, t, a)
      PROVE  TypeOK'
  <2>1. Draft(EventOf[t], WordOf[t], PeriodOf[EventOf[t]], a, NoVoucher, "draft") \in Voucher
    BY ConstantsAssumption, DraftShape DEF Lines, Statuses
  <2> QED
    BY <1>1, <2>1 DEF CreateVoucherFromTemplate, Ids
<1>2. ASSUME NEW s \in Slots, NEW e \in Events, NEW built \in SUBSET Analysis,
             NEW a \in Amounts, NEW st \in Statuses \ {"posted"},
             AnalyzeEvent(s, e, built, a, st)
      PROVE  TypeOK'
  <2> DEFINE gone == VouchersOf(e)
  <2>1. \A v \in built : Draft(e, WordOf[v], PeriodOf[e], a, NoVoucher, st) \in Voucher
    BY ConstantsAssumption, DraftShape DEF Lines
  <2>2. voucher' \in [Ids -> Voucher \cup {NoRow}]
    BY <1>2, <2>1 DEF AnalyzeEvent
  <2>3. stamp' \in [Ids -> Nat] /\ entry' \in [Ids -> Entry \cup {NoEntry}]
    BY <1>2 DEF AnalyzeEvent
  <2>4. slot' \in [Slots -> Requests]
    <3>1. \A x \in Slots : slot[x].op = "post.started"
            => [slot[x] EXCEPT !.hit = FALSE] \in Requests
      BY RequestShape DEF Requests, Writing
    <3> QED
      BY <1>2, <3>1 DEF AnalyzeEvent
  <2> QED
    BY <1>2, <2>2, <2>3, <2>4 DEF AnalyzeEvent
<1>3. ASSUME NEW s \in Slots, NEW u \in Users, NEW v \in Ids, ApproveRead(s, u, v)
      PROVE  TypeOK'
  BY <1>3 DEF ApproveRead, books, Requests, Approval
<1>4. ASSUME NEW s \in Slots, ApproveCommit(s)
      PROVE  TypeOK'
  <2>1. slot[s] \in Approval
    BY <1>4, RequestShape DEF ApproveCommit
  <2>2. slot[s].id \in Ids /\ slot[s].user \in Users
    BY <2>1 DEF Approval
  <2>3. voucher' \in [Ids -> Voucher \cup {NoRow}] /\ stamp' \in [Ids -> Nat]
    <3>1. CASE ~Exists(slot[s].id)
      BY <1>4, <3>1 DEF ApproveCommit
    <3>2. CASE Exists(slot[s].id)
      <4>1. voucher[slot[s].id] \in Voucher
        BY <2>2, <3>2, RowShape
      <4>2. [voucher[slot[s].id] EXCEPT !.status = "review_required",
                                        !.approver = slot[s].user] \in Voucher
        BY <2>2, <4>1 DEF Voucher, Statuses
      <4> QED
        BY <1>4, <2>2, <3>2, <4>2 DEF ApproveCommit
    <3> QED
      BY <3>1, <3>2
  <2>4. slot' \in [Slots -> Requests] /\ run' \in [Ids -> RunStates]
    BY <1>4, <2>2 DEF ApproveCommit, Answer, Idle, Requests, RunStates
  <2> QED
    BY <1>4, <2>3, <2>4 DEF ApproveCommit
<1>5. ASSUME NEW s \in Slots, NEW v \in Ids, NEW st \in Statuses \ {"posted"},
             UpdateRead(s, v, st)
      PROVE  TypeOK'
  BY <1>5 DEF UpdateRead, books, Requests, Edit
<1>6. ASSUME NEW s \in Slots, UpdateCommit(s)
      PROVE  TypeOK'
  <2>1. slot[s] \in Edit
    BY <1>6, RequestShape DEF UpdateCommit
  <2>2. slot[s].id \in Ids /\ slot[s].status \in Statuses
    BY <2>1 DEF Edit
  <2>3. voucher' \in [Ids -> Voucher \cup {NoRow}] /\ stamp' \in [Ids -> Nat]
    <3>1. CASE ~Exists(slot[s].id)
      BY <1>6, <3>1 DEF UpdateCommit
    <3>2. CASE Exists(slot[s].id)
      <4>1. [voucher[slot[s].id] EXCEPT !.status = slot[s].status] \in Voucher
        BY <2>2, <3>2, RowShape DEF Voucher
      <4> QED
        BY <1>6, <2>2, <3>2, <4>1 DEF UpdateCommit
    <3> QED
      BY <3>1, <3>2
  <2> QED
    BY <1>6, <2>3 DEF UpdateCommit, Answer, Idle, Requests
<1>7. ASSUME NEW s \in Slots, NEW u \in Users, NEW v \in Ids, PostRead(s, u, v)
      PROVE  TypeOK'
  <2>1. voucher[v] \in Voucher
    BY <1>7, RowShape DEF PostRead
  <2> QED
    BY <1>7, <2>1 DEF PostRead, books, Requests, Posting
<1>8. ASSUME NEW s \in Slots, PostCheck(s)
      PROVE  TypeOK'
  <2>1. slot[s] \in Posting
    BY <1>8, RequestShape DEF PostCheck
  <2>2. [slot[s] EXCEPT !.op = "post.checked"] \in Posting
    BY <2>1 DEF Posting
  <2> QED
    BY <1>8, <2>2 DEF PostCheck, books, Requests
<1>9. ASSUME NEW s \in Slots, PostStart(s)
      PROVE  TypeOK'
  <2>1. slot[s] \in Posting
    BY <1>9, RequestShape DEF PostStart
  <2>2. PICK n \in NextSeqs(slot[s].target.period, slot[s].target.word) :
          slot' = [slot EXCEPT ![s] =
            [op |-> "post.started", user |-> @.user, id |-> @.id, target |-> @.target,
             stamp |-> @.stamp, seq |-> n, hit |-> Exists(@.id)]]
    BY <1>9 DEF PostStart
  <2>3. n \in Nat
    BY ConstantsAssumption DEF NextSeqs
  <2>4. [op |-> "post.started", user |-> slot[s].user, id |-> slot[s].id,
         target |-> slot[s].target, stamp |-> slot[s].stamp, seq |-> n,
         hit |-> Exists(slot[s].id)] \in Writing
    BY <2>1, <2>3 DEF Posting, Writing, Exists
  <2> QED
    BY <1>9, <2>2, <2>4 DEF PostStart, books, Requests
<1>10. ASSUME NEW s \in Slots, PostCommit(s)
       PROVE  TypeOK'
  <2> DEFINE r == slot[s]
  <2>1. r \in Writing
    BY <1>10, RequestShape DEF PostCommit
  <2>2. /\ r.id \in Ids /\ r.target \in Voucher /\ r.user \in Users
        /\ r.seq \in Nat /\ r.stamp \in Nat
    BY <2>1 DEF Writing
  <2>3. voucher[r.id] \in Voucher
    BY <1>10, <2>2, RowShape DEF PostCommit, PostRefused
  <2>4. MarkPosted(voucher[r.id], r.target, r.seq) \in Voucher
    BY <2>2, <2>3 DEF MarkPosted, Voucher, Statuses
  <2>5. voucher' \in [Ids -> Voucher \cup {NoRow}] /\ stamp' \in [Ids -> Nat]
    BY <1>10, <2>2, <2>4 DEF PostCommit
  <2>6. entry' \in [Ids -> Entry \cup {NoEntry}]
    <3>1. [lines |-> r.target.lines, period |-> r.target.period, poster |-> r.user] \in Entry
      BY <2>2 DEF Entry, Voucher
    <3> QED
      BY <1>10, <2>2, <3>1 DEF PostCommit
  <2>7. run' \in [Ids -> RunStates] /\ command' \subseteq Ids \X Nat
    BY <1>10, <2>2 DEF PostCommit, RunStates
  <2> QED
    BY <1>10, <2>5, <2>6, <2>7 DEF PostCommit, Answer, Idle, Requests
<1>11. ASSUME NEW s \in Slots, NEW v \in Ids, ReverseRead(s, v)
       PROVE  TypeOK'
  <2>1. voucher[v] \in Voucher
    BY <1>11, RowShape DEF ReverseRead
  <2> QED
    BY <1>11, <2>1 DEF ReverseRead, books, Requests, Reversing
<1>12. ASSUME NEW s \in Slots, NEW r \in Reversal, ReverseCommit(s, r)
       PROVE  TypeOK'
  <2> DEFINE t == slot[s].target
             d == Draft(t.event, t.word, month, -t.lines, slot[s].id, "draft")
  <2>1. slot[s] \in Reversing
    BY <1>12, RequestShape DEF ReverseCommit
  <2>2. slot[s].id \in Ids /\ t \in Voucher
    BY <2>1 DEF Reversing
  <2>3. t.event \in Events /\ t.word \in Words /\ -t.lines \in Lines
    BY <2>2, NegatedLines DEF Voucher
  <2>4. d \in Voucher
    BY <2>2, <2>3, DraftShape DEF Statuses
  <2>5. voucher' = [voucher EXCEPT ![r] = d]
    BY <1>12 DEF ReverseCommit
  <2>6. voucher' \in [Ids -> Voucher \cup {NoRow}]
    BY <2>4, <2>5
  <2> QED
    BY <1>12, <2>6 DEF ReverseCommit, Answer, Idle, Requests
<1>13. ASSUME NEW s \in Slots, Abandon(s)
       PROVE  TypeOK'
  BY <1>13 DEF Abandon, Answer, books, Idle, Requests
<1>14. ASSUME NEW s \in Slots, NEW p \in Periods,
              LockAccountingPeriod(s, p) \/ UnlockAccountingPeriod(s, p)
       PROVE  TypeOK'
  BY <1>14 DEF LockAccountingPeriod, UnlockAccountingPeriod, books
<1>15. CASE NextMonth
  BY <1>15, ConstantsAssumption DEF NextMonth, books, Periods
<1>16. CASE UNCHANGED vars
  BY <1>16 DEF vars
<1> QED
  BY <1>1, <1>2, <1>3, <1>4, <1>5, <1>6, <1>7, <1>8, <1>9, <1>10, <1>11, <1>12,
     <1>13, <1>14, <1>15, <1>16 DEF Next

(* Every variable keeps its type.                                          *)
THEOREM TypeCorrect == Spec => []TypeOK
BY TypeInit, TypeStep, PTL DEF Spec

-----------------------------------------------------------------------------
(* Safety under overlapping requests.  The five parts are inductive only   *)
(* together: a post keeps numbers unique because only an existing row is   *)
(* numbered, and ids that reverse are told from ids that are reversed.     *)
IInv ==
  /\ TypeOK
  /\ UniqueNumbers
  /\ PostedHasEntries
  /\ EntryHasVoucher
  /\ ReversalIds
  /\ ReversedOnce

LEMMA SafetyInit == Init => IInv
<1> SUFFICES ASSUME Init PROVE IInv
  OBVIOUS
<1>1. TypeOK
  BY TypeInit
<1>2. \A v \in Ids : ~Exists(v) /\ ~IsPosted(v) /\ entry[v] = NoEntry
  BY DEF Init, Exists, IsPosted, NoRow
<1>3. \A s \in Slots : slot[s].op # "reverse"
  BY DEF Init, Idle
<1> QED
  BY <1>1, <1>2, <1>3
     DEF IInv, UniqueNumbers, PostedHasEntries, EntryHasVoucher, ReversalIds, ReversedOnce

(* A step that leaves every row, and every entry, as it is keeps all that  *)
(* is said of rows and entries.                                            *)
LEMMA SameRows ==
  ASSUME IInv, TypeOK', UNCHANGED <<voucher, entry>>,
         \A s \in Slots : slot'[s].op = "reverse" => slot'[s].id \notin Reversal
  PROVE  IInv'
BY DEF IInv, UniqueNumbers, PostedHasEntries, EntryHasVoucher, ReversalIds,
       ReversedOnce, Exists, IsPosted

(* A step that writes one row v, and its entries, keeps the invariant when *)
(* the new row is sound and keeps what it reverses.                        *)
LEMMA OneRow ==
  ASSUME IInv, TypeOK', NEW v \in Ids, NEW row \in Voucher, Exists(v),
         voucher' = [voucher EXCEPT ![v] = row],
         row.reverses = voucher[v].reverses,
         \A x \in Ids \ {v} : entry'[x] = entry[x],
         row.status = "posted" =>
           /\ entry'[v] # NoEntry
           /\ \A x \in Numbered(row.period, row.word) \ {v} : voucher[x].seq # row.seq,
         \A s \in Slots : slot'[s].op = "reverse" =>
             slot[s].op = "reverse" /\ slot'[s].id = slot[s].id
  PROVE  IInv'
<1>1. row # NoRow
  BY VoucherIsNoGap
<1>2. /\ voucher'[v] = row
      /\ \A x \in Ids \ {v} : voucher'[x] = voucher[x]
  BY DEF IInv, TypeOK
<1>3. UniqueNumbers'
  <2>1. \A x \in Ids : IsPosted(x) => Exists(x)
    BY DEF IsPosted, Exists, NoRow
  <2>2. \A x \in Ids \ {v} : row.status = "posted" /\ IsPosted(x)
          /\ voucher[x].period = row.period /\ voucher[x].word = row.word
          => voucher[x].seq # row.seq
    BY <2>1 DEF Numbered
  <2> QED
    BY <1>2, <2>2 DEF IInv, UniqueNumbers, IsPosted
<1>4. PostedHasEntries'
  BY <1>2 DEF IInv, PostedHasEntries, IsPosted
<1>5. EntryHasVoucher'
  BY <1>1, <1>2 DEF IInv, EntryHasVoucher, Exists
<1>6. \A x \in Ids : /\ Exists(x)' <=> Exists(x)
                     /\ voucher'[x].reverses = voucher[x].reverses
  BY <1>1, <1>2 DEF Exists
<1>7. ReversalIds' /\ ReversedOnce'
  BY <1>6 DEF IInv, ReversalIds, ReversedOnce
<1> QED
  BY <1>3, <1>4, <1>5, <1>7 DEF IInv

(* A step that adds a draft under the id v, or removes and adds several,   *)
(* only takes rows and entries away from what the invariant constrains.    *)
LEMMA FewerPosted ==
  ASSUME IInv, TypeOK',
         \A v \in Ids : IsPosted(v)' => voucher'[v] = voucher[v] /\ entry'[v] = entry[v]
  PROVE  UniqueNumbers' /\ PostedHasEntries'
BY DEF IInv, UniqueNumbers, PostedHasEntries, IsPosted

LEMMA SafetyStep == IInv /\ [Next]_vars => IInv'
<1> SUFFICES ASSUME IInv, [Next]_vars PROVE IInv'
  OBVIOUS
<1>0. TypeOK /\ TypeOK'
  BY TypeStep DEF IInv
<1> DEFINE SameReversals ==
      \A x \in Slots : slot'[x].op = "reverse" =>
        slot[x].op = "reverse" /\ slot'[x].id = slot[x].id
<1>a. ASSUME NEW s \in Slots, Answer(s)
      PROVE  SameReversals
  BY <1>0, <1>a DEF Answer, Idle, TypeOK
<1>b. ASSUME SameReversals
      PROVE  \A x \in Slots : slot'[x].op = "reverse" => slot'[x].id \notin Reversal
  BY <1>b DEF IInv, ReversalIds
<1>1. ASSUME NEW s \in Slots, NEW t \in Template, NEW a \in Amounts,
             CreateVoucherFromTemplate(s, t, a)
      PROVE  IInv'
  <2>1. PICK d \in {Draft(EventOf[t], WordOf[t], PeriodOf[EventOf[t]], a, NoVoucher, "draft")} :
          voucher' = [voucher EXCEPT ![t] = d]
    BY <1>1 DEF CreateVoucherFromTemplate
  <2>2. d.status = "draft" /\ d.reverses = NoVoucher /\ d # NoRow
    BY <2>1 DEF Draft, NoRow
  <2>3. t \in Ids /\ t \notin Reversal /\ NoVoucher \notin Reversal
    BY ConstantsAssumption DEF Ids
  <2>4. voucher'[t] = d /\ \A x \in Ids \ {t} : voucher'[x] = voucher[x]
    BY <1>0, <2>1, <2>3 DEF TypeOK
  <2>5. UNCHANGED <<entry, slot>>
    BY <1>1 DEF CreateVoucherFromTemplate
  <2>6. UniqueNumbers' /\ PostedHasEntries'
    <3>1. \A x \in Ids : IsPosted(x)' => x # t
      BY <2>2, <2>4 DEF IsPosted
    <3> QED
      BY <1>0, <2>4, <2>5, <3>1, FewerPosted
  <2>7. EntryHasVoucher'
    BY <2>2, <2>4, <2>5 DEF IInv, EntryHasVoucher, Exists
  <2>8. ReversalIds'
    BY <2>2, <2>3, <2>4, <2>5 DEF IInv, ReversalIds, Exists
  <2>9. ReversedOnce'
    BY <2>2, <2>4, ConstantsAssumption DEF IInv, ReversedOnce, Exists
  <2> QED
    BY <1>0, <2>6, <2>7, <2>8, <2>9 DEF IInv
<1>2. ASSUME NEW s \in Slots, NEW e \in Events, NEW built \in SUBSET Analysis,
             NEW a \in Amounts, NEW st \in Statuses \ {"posted"},
             AnalyzeEvent(s, e, built, a, st)
      PROVE  IInv'
  <2> DEFINE gone == VouchersOf(e)
             d(v) == Draft(e, WordOf[v], PeriodOf[e], a, NoVoucher, st)
  <2>1. \A v \in Ids : voucher'[v] =
          IF v \in built THEN d(v) ELSE IF v \in gone THEN NoRow ELSE voucher[v]
    BY <1>2 DEF AnalyzeEvent
  <2>2. \A v \in Ids : entry'[v] = IF v \in gone THEN NoEntry ELSE entry[v]
    BY <1>2 DEF AnalyzeEvent
  <2>3. \A v \in Ids : d(v).status # "posted" /\ d(v).reverses = NoVoucher /\ d(v) # NoRow
    BY DEF Draft, NoRow, Statuses
  <2>4. NoVoucher \notin Reversal /\ \A v \in built : v \notin Reversal
    BY ConstantsAssumption DEF Ids
  <2>5. UniqueNumbers' /\ PostedHasEntries'
    <3>1. \A v \in Ids : IsPosted(v)' => v \notin built /\ v \notin gone
      BY <2>1, <2>3 DEF IsPosted, NoRow
    <3> QED
      BY <1>0, <2>1, <2>2, <3>1, FewerPosted
  <2>6. EntryHasVoucher'
    BY <2>1, <2>2, <2>3 DEF IInv, EntryHasVoucher, Exists
  <2>7. SameReversals
    BY <1>0, <1>2 DEF AnalyzeEvent, TypeOK
  <2>8. ReversalIds'
    BY <1>b, <2>1, <2>3, <2>4, <2>7 DEF IInv, ReversalIds, Exists
  <2>9. \A v \in Ids : Exists(v)' /\ voucher'[v].reverses # NoVoucher
           => Exists(v) /\ voucher'[v] = voucher[v]
    BY <2>1, <2>3 DEF Exists
  <2>10. ReversedOnce'
    <3>1. \A r, q \in Ids : Exists(r)' /\ voucher'[r].reverses # NoVoucher /\ Exists(q)'
             => q = r \/ voucher'[q].reverses # voucher'[r].reverses
      BY <2>9 DEF IInv, ReversedOnce
    <3>2. \A r \in Ids : Exists(r)' /\ voucher'[r].reverses # NoVoucher
             => r \in Reversal
      BY <2>9 DEF IInv, ReversalIds
    <3>3. \A q \in Ids : Exists(q)' => voucher'[q].reverses \notin Reversal
      BY <2>8 DEF ReversalIds
    <3> QED
      BY <3>1, <3>2, <3>3 DEF ReversedOnce
  <2> QED
    BY <1>0, <2>5, <2>6, <2>8, <2>10 DEF IInv
<1>3. ASSUME NEW s \in Slots, NEW u \in Users, NEW v \in Ids, ApproveRead(s, u, v)
      PROVE  IInv'
  <2>1. SameReversals
    BY <1>0, <1>3 DEF ApproveRead, TypeOK
  <2> QED
    BY <1>0, <1>3, <1>b, <2>1, SameRows DEF ApproveRead, books
<1>4. ASSUME NEW s \in Slots, ApproveCommit(s)
      PROVE  IInv'
  <2> DEFINE v == slot[s].id
             row == [voucher[v] EXCEPT !.status = "review_required", !.approver = slot[s].user]
  <2>1. v \in Ids /\ slot[s].user \in Users
    BY <1>0, <1>4, RequestShape DEF ApproveCommit, Approval
  <2>2. SameReversals
    BY <1>4, <1>a DEF ApproveCommit
  <2>3. CASE ~Exists(v)
    BY <1>0, <1>4, <1>b, <2>2, <2>3, SameRows DEF ApproveCommit
  <2>4. CASE Exists(v)
    <3>1. voucher[v] \in Voucher
      BY <1>0, <2>1, <2>4, RowShape
    <3>2. row \in Voucher /\ row.status = "review_required" /\ row.reverses = voucher[v].reverses
      BY <2>1, <3>1 DEF Voucher, Statuses
    <3>3. voucher' = [voucher EXCEPT ![v] = row] /\ entry' = entry
      BY <1>4, <2>4 DEF ApproveCommit
    <3> HIDE DEF row, v
    <3> QED
      BY <1>0, <2>1, <2>2, <2>4, <3>2, <3>3, OneRow
  <2> QED
    BY <2>3, <2>4
<1>5. ASSUME NEW s \in Slots, NEW v \in Ids, NEW st \in Statuses \ {"posted"},
             UpdateRead(s, v, st)
      PROVE  IInv'
  <2>1. SameReversals
    BY <1>0, <1>5 DEF UpdateRead, TypeOK
  <2> QED
    BY <1>0, <1>5, <1>b, <2>1, SameRows DEF UpdateRead, books
<1>6. ASSUME NEW s \in Slots, UpdateCommit(s)
      PROVE  IInv'
  <2> DEFINE v == slot[s].id
             row == [voucher[v] EXCEPT !.status = slot[s].status]
  <2>1. v \in Ids /\ slot[s].status \in Statuses \ {"posted"}
    BY <1>0, <1>6, RequestShape DEF UpdateCommit, Edit
  <2>2. SameReversals
    BY <1>6, <1>a DEF UpdateCommit
  <2>3. CASE ~Exists(v)
    BY <1>0, <1>6, <1>b, <2>2, <2>3, SameRows DEF UpdateCommit
  <2>4. CASE Exists(v)
    <3>1. voucher[v] \in Voucher
      BY <1>0, <2>1, <2>4, RowShape
    <3>2. row \in Voucher /\ row.status # "posted" /\ row.reverses = voucher[v].reverses
      BY <2>1, <3>1 DEF Voucher
    <3>3. voucher' = [voucher EXCEPT ![v] = row] /\ entry' = entry
      BY <1>6, <2>4 DEF UpdateCommit
    <3> HIDE DEF row, v
    <3> QED
      BY <1>0, <2>1, <2>2, <2>4, <3>2, <3>3, OneRow
  <2> QED
    BY <2>3, <2>4
<1>7. ASSUME NEW s \in Slots, NEW u \in Users, NEW v \in Ids, PostRead(s, u, v)
      PROVE  IInv'
  <2>1. SameReversals
    BY <1>0, <1>7 DEF PostRead, TypeOK
  <2> QED
    BY <1>0, <1>7, <1>b, <2>1, SameRows DEF PostRead, books
<1>8. ASSUME NEW s \in Slots, PostCheck(s)
      PROVE  IInv'
  <2>1. SameReversals
    <3>1. slot[s] \in Posting
      BY <1>0, <1>8, RequestShape DEF PostCheck
    <3>2. [slot[s] EXCEPT !.op = "post.checked"].op = "post.checked"
      BY <3>1 DEF Posting
    <3> QED
      BY <1>0, <1>8, <3>2 DEF PostCheck, TypeOK
  <2> QED
    BY <1>0, <1>8, <1>b, <2>1, SameRows DEF PostCheck, books
<1>9. ASSUME NEW s \in Slots, PostStart(s)
      PROVE  IInv'
  <2>1. SameReversals
    BY <1>0, <1>9 DEF PostStart, TypeOK
  <2> QED
    BY <1>0, <1>9, <1>b, <2>1, SameRows DEF PostStart, books
<1>10. ASSUME NEW s \in Slots, PostCommit(s)
       PROVE  IInv'
  <2> DEFINE r == slot[s]
             v == r.id
             row == MarkPosted(voucher[v], r.target, r.seq)
  <2>1. /\ v \in Ids /\ r.target \in Voucher /\ r.user \in Users
        /\ r.seq \in Nat /\ r.hit \in BOOLEAN
    BY <1>0, <1>10, RequestShape DEF PostCommit, Writing
  <2>2. SameReversals
    BY <1>10, <1>a DEF PostCommit
  <2>3. Exists(v) /\ (r.hit => ~NumberTaken(v, r.target.period, r.target.word, r.seq))
    BY <1>10 DEF PostCommit, PostRefused
  <2>4. entry'[v] # NoEntry /\ \A x \in Ids \ {v} : entry'[x] = entry[x]
    BY <1>0, <1>10, <2>1 DEF PostCommit, TypeOK, NoEntry
  <2>5. CASE ~r.hit
    <3>1. UNCHANGED voucher
      BY <1>10, <2>5 DEF PostCommit
    <3>2. PostedHasEntries' /\ EntryHasVoucher'
      BY <2>3, <2>4, <3>1 DEF IInv, PostedHasEntries, EntryHasVoucher, IsPosted, Exists
    <3>3. UniqueNumbers' /\ ReversedOnce'
      BY <3>1 DEF IInv, UniqueNumbers, ReversedOnce, IsPosted, Exists
    <3>4. ReversalIds'
      BY <1>b, <2>2, <3>1 DEF IInv, ReversalIds, Exists
    <3> QED
      BY <1>0, <3>2, <3>3, <3>4 DEF IInv
  <2>6. CASE r.hit
    <3>1. voucher[v] \in Voucher
      BY <1>0, <2>1, <2>3, RowShape
    <3>2. row \in Voucher /\ row.reverses = voucher[v].reverses
      BY <2>1, <3>1 DEF MarkPosted, Voucher, Statuses
    <3>3. row.period = r.target.period /\ row.word = r.target.word /\ row.seq = r.seq
      BY <3>1 DEF MarkPosted, Voucher
    <3>4. \A x \in Numbered(row.period, row.word) \ {v} : voucher[x].seq # row.seq
      BY <2>3, <2>6, <3>3 DEF NumberTaken
    <3>5. voucher' = [voucher EXCEPT ![v] = row]
      BY <1>10, <2>6 DEF PostCommit
    <3> HIDE DEF row, v
    <3> QED
      BY <1>0, <2>1, <2>2, <2>3, <2>4, <3>2, <3>4, <3>5, OneRow
  <2> QED
    BY <2>1, <2>5, <2>6
<1>11. ASSUME NEW s \in Slots, NEW v \in Ids, ReverseRead(s, v)
       PROVE  IInv'
  <2>1. v \notin Reversal
    BY <1>11 DEF ReverseRead, CanReverse, IInv, ReversalIds
  <2>2. \A x \in Slots : slot'[x].op = "reverse" => slot'[x].id \notin Reversal
    BY <1>0, <1>11, <2>1 DEF ReverseRead, TypeOK, IInv, ReversalIds
  <2> QED
    BY <1>0, <1>11, <2>2, SameRows DEF ReverseRead, books
<1>12. ASSUME NEW s \in Slots, NEW r \in Reversal, ReverseCommit(s, r)
       PROVE  IInv'
  <2> DEFINE v == slot[s].id
             t == slot[s].target
  <2>1. PICK d \in {Draft(t.event, t.word, month, -t.lines, v, "draft")} :
          voucher' = [voucher EXCEPT ![r] = d]
    BY <1>12 DEF ReverseCommit
  <2>2. d.status = "draft" /\ d.reverses = v /\ d # NoRow
    BY <2>1 DEF Draft, NoRow
  <2>3. v \in Ids \ Reversal
    BY <1>0, <1>12, RequestShape DEF ReverseCommit, Reversing, IInv, ReversalIds
  <2>4. v # NoVoucher /\ r \in Ids
    BY <2>3, ConstantsAssumption DEF Ids
  <2>5. voucher'[r] = d /\ \A x \in Ids \ {r} : voucher'[x] = voucher[x]
    BY <1>0, <2>1, <2>4 DEF TypeOK
  <2>6. entry' = entry /\ SameReversals
    BY <1>12, <1>a DEF ReverseCommit
  <2>7. UniqueNumbers' /\ PostedHasEntries'
    <3>1. \A x \in Ids : IsPosted(x)' => x # r
      BY <2>2, <2>5 DEF IsPosted
    <3> QED
      BY <1>0, <2>5, <2>6, <3>1, FewerPosted
  <2>8. EntryHasVoucher'
    BY <2>2, <2>5, <2>6 DEF IInv, EntryHasVoucher, Exists
  <2>9. ReversalIds'
    BY <1>b, <2>2, <2>3, <2>4, <2>5, <2>6 DEF IInv, ReversalIds, Exists
  <2>10. \A x \in Ids : Exists(x) => voucher[x].reverses # v
    BY <1>12 DEF ReverseCommit, ReversalRefused, ReversalsOf
  <2>11. ReversedOnce'
    <3>1. \A x, q \in Ids : /\ Exists(x)' /\ voucher'[x].reverses # NoVoucher
                            /\ Exists(q)' /\ voucher'[q].reverses = voucher'[x].reverses
                            => q = x
      BY <2>2, <2>5, <2>10 DEF IInv, ReversedOnce, Exists
    <3>2. \A x \in Ids : Exists(x)' /\ voucher'[x].reverses # NoVoucher => x \in Reversal
      BY <2>9 DEF ReversalIds
    <3>3. \A q \in Ids : Exists(q)' => voucher'[q].reverses \notin Reversal
      BY <2>9 DEF ReversalIds
    <3> QED
      BY <3>1, <3>2, <3>3 DEF ReversedOnce
  <2> QED
    BY <1>0, <2>7, <2>8, <2>9, <2>11 DEF IInv
<1>13. ASSUME NEW s \in Slots, Abandon(s)
       PROVE  IInv'
  BY <1>0, <1>13, <1>a, <1>b, SameRows DEF Abandon, books
<1>14. ASSUME NEW s \in Slots, NEW p \in Periods,
              LockAccountingPeriod(s, p) \/ UnlockAccountingPeriod(s, p)
       PROVE  IInv'
  <2>1. UNCHANGED <<voucher, entry, slot>>
    BY <1>14 DEF LockAccountingPeriod, UnlockAccountingPeriod, books
  <2> QED
    BY <1>0, <1>b, <2>1, SameRows
<1>15. CASE NextMonth \/ UNCHANGED vars
  <2>1. UNCHANGED <<voucher, entry, slot>>
    BY <1>15 DEF NextMonth, vars, books
  <2> QED
    BY <1>0, <1>b, <2>1, SameRows
<1> QED
  BY <1>1, <1>2, <1>3, <1>4, <1>5, <1>6, <1>7, <1>8, <1>9, <1>10, <1>11, <1>12,
     <1>13, <1>14, <1>15 DEF Next

LEMMA SafetyInvariant == Spec => []IInv
BY SafetyInit, SafetyStep, PTL DEF Spec

(* However requests overlap, no two posted vouchers share a number.        *)
THEOREM NumbersAreUnique == Spec => []UniqueNumbers
<1>1. IInv => UniqueNumbers
  BY DEF IInv
<1> QED
  BY <1>1, SafetyInvariant, PTL

(* However requests overlap, a posted voucher has its entries.             *)
THEOREM PostedIsInLedger == Spec => []PostedHasEntries
<1>1. IInv => PostedHasEntries
  BY DEF IInv
<1> QED
  BY <1>1, SafetyInvariant, PTL

(* However requests overlap, no entry outlives its voucher.                *)
THEOREM EntriesHaveVouchers == Spec => []EntryHasVoucher
<1>1. IInv => EntryHasVoucher
  BY DEF IInv
<1> QED
  BY <1>1, SafetyInvariant, PTL

(* However requests overlap, a voucher is reversed once, a reversal never. *)
THEOREM OneReversal == Spec => []ReversedOnce
<1>1. IInv => ReversedOnce
  BY DEF IInv
<1> QED
  BY <1>1, SafetyInvariant, PTL

-----------------------------------------------------------------------------
(* Safety of requests that overlap in an orderly way (VoucherLedger says   *)
(* which overlaps are excluded).                                           *)
Orderly == []PostsAlone /\ [][NotRebuilt]_vars

OneAtATime == \A s, t \in Slots : s = t

(* Requests served one at a time are orderly, and lock no month under a    *)
(* posting: what is proved of orderly overlaps holds of them, too.         *)
THEOREM OneAtATimeIsOrderly == OneAtATime /\ Spec => Orderly /\ [][NotLocked]_vars
<1>1. OneAtATime => PostsAlone
  BY DEF OneAtATime, PostsAlone
<1>2. OneAtATime => NotRebuilt
  BY DEF OneAtATime, NotRebuilt, AnalyzeEvent, Free, Idle, Posts, PostOps
<1>3. OneAtATime => NotLocked
  BY DEF OneAtATime, NotLocked, LockAccountingPeriod, Free, Idle
<1>4. OneAtATime => OneAtATime'
  BY DEF OneAtATime
<1> QED
  BY <1>1, <1>2, <1>3, <1>4, PTL DEF Orderly

-----------------------------------------------------------------------------
(* What makes it inductive: a row, its entries, its run and its command    *)
(* agree (RowsAgree), a reversal mirrors a posted voucher                  *)
(* (ReversalsMirror), the numbers of a period and word have no gap         *)
(* (NumbersDense), and what each request in flight has read is still so    *)
(* where it matters (ReadStill): the number a posting computed may be      *)
(* taken meanwhile, but those below it stay in use.                        *)

PostedSoundly(v) ==
  /\ voucher[v].postedAt
  /\ voucher[v].approver \notin {NoUser, entry[v].poster}
  /\ entry[v].lines = voucher[v].lines
  /\ entry[v].period = voucher[v].period
  /\ voucher[v].seq > 0

RowsAgree ==
  \A v \in Ids :
    /\ IsPosted(v) <=> entry[v] # NoEntry
    /\ IsPosted(v) <=> run[v] = "completed"
    /\ IsPosted(v) => PostedSoundly(v)
    /\ Exists(v) /\ ~IsPosted(v) => ~voucher[v].postedAt
    /\ Exists(v) => stamp[v] > 0
    /\ Exists(v) /\ v \notin Reversal => voucher[v].event = EventOf[v]

(* A version of a voucher that was posted is not its current version.      *)
CommandsPast == \A c \in command : c[2] < stamp[c[1]]

Mirrors(r, v) ==
  /\ IsPosted(v)
  /\ voucher[r].event = voucher[v].event
  /\ voucher[r].lines = -voucher[v].lines

ReversalsMirror ==
  \A r \in Ids : Exists(r) /\ voucher[r].reverses # NoVoucher
                   => Mirrors(r, voucher[r].reverses)

NumbersDense ==
  \A p \in Periods, w \in Words : \A v \in Numbered(p, w) :
    \A n \in 1..voucher[v].seq : \E x \in Numbered(p, w) : voucher[x].seq = n

Unposted(v) == Exists(v) /\ ~IsPosted(v)

(* What a request between two of its steps relies on.                      *)
ReliesOn(r) ==
  /\ r.op \in {"approve", "update"} => ~IsPosted(r.id)
  /\ r.op = "reverse" => IsPosted(r.id) /\ voucher[r.id] = r.target
  /\ r.op \in PostOps =>
       /\ Unposted(r.id)
       /\ voucher[r.id] = r.target /\ stamp[r.id] = r.stamp
       /\ r.target.approver # NoUser
  /\ r.op \in {"post.checked", "post.started"} => DutiesAllowed(r.target.approver, r.user)
  /\ r.op = "post.started" =>
       /\ r.hit /\ r.seq \in 1..MaxSeq
       /\ \A k \in 1..(r.seq - 1) :
            \E x \in Numbered(r.target.period, r.target.word) : voucher[x].seq = k

ReadStill == \A s \in Slots : ReliesOn(slot[s])

OrderlyInv ==
  /\ IInv
  /\ RowsAgree
  /\ CommandsPast
  /\ ReversalsMirror
  /\ NumbersDense
  /\ ReadStill

LEMMA OrderlyInit == Init => OrderlyInv
<1> SUFFICES ASSUME Init PROVE OrderlyInv
  OBVIOUS
<1>1. \A v \in Ids : /\ ~Exists(v) /\ ~IsPosted(v) /\ entry[v] = NoEntry
                     /\ run[v] # "completed"
  BY DEF Init, Exists, IsPosted, NoRow
<1>2. ReadStill
  BY DEF Init, Idle, ReadStill, ReliesOn, PostOps
<1>3. RowsAgree /\ ReversalsMirror /\ NumbersDense
  BY <1>1 DEF RowsAgree, ReversalsMirror, NumbersDense, Numbered
<1>4. CommandsPast
  BY DEF Init, CommandsPast
<1> QED
  BY <1>2, <1>3, <1>4, SafetyInit DEF OrderlyInv

LEMMA PostedExist == ASSUME NEW v, IsPosted(v) PROVE Exists(v)
BY DEF IsPosted, Exists, NoRow

LEMMA IdleRelies == ReliesOn(Idle)'
BY DEF ReliesOn, Idle, PostOps

(* A step of the slot s keeps what the others rely on when it leaves the   *)
(* posted rows alone, and the rows being posted, and posts none that       *)
(* another handles.                                                        *)
LEMMA OthersRely ==
  ASSUME TypeOK, ReadStill, NEW s \in Slots,
         \A t \in Slots \ {s} : slot'[t] = slot[t],
         \A x \in Ids : IsPosted(x) => voucher'[x] = voucher[x],
         \A t \in Slots \ {s}, x \in Ids :
            /\ Posts(t, x) => voucher'[x] = voucher[x] /\ stamp'[x] = stamp[x]
            /\ Handles(t, x) /\ IsPosted(x)' => IsPosted(x),
         ReliesOn(slot[s])'
  PROVE  ReadStill'
<1> SUFFICES ASSUME NEW t \in Slots \ {s} PROVE ReliesOn(slot[t])'
  BY DEF ReadStill
<1>1. slot'[t] = slot[t] /\ ReliesOn(slot[t])
  BY DEF ReadStill
<1>2. slot[t].op # "idle" => slot[t].id \in Ids
  BY DEF TypeOK, Requests, Approval, Edit, Reversing, Posting, Writing
<1>3. slot[t].op \in {"approve", "update"} => ~IsPosted(slot[t].id)'
  BY <1>1, <1>2 DEF ReliesOn, Handles
<1>4. slot[t].op = "reverse" =>
        IsPosted(slot[t].id)' /\ voucher'[slot[t].id] = slot[t].target
  BY <1>1, <1>2 DEF ReliesOn, IsPosted
<1>5. slot[t].op \in PostOps =>
        /\ Unposted(slot[t].id)'
        /\ voucher'[slot[t].id] = slot[t].target /\ stamp'[slot[t].id] = slot[t].stamp
        /\ slot[t].target.approver # NoUser
  BY <1>1, <1>2 DEF ReliesOn, Posts, PostOps, Unposted, IsPosted, Exists
<1>6. \A p, w : \A x \in Numbered(p, w) : x \in Numbered(p, w)' /\ voucher'[x] = voucher[x]
  BY DEF Numbered, IsPosted, Exists
<1>7. slot[t].op = "post.started" =>
        /\ slot[t].hit /\ slot[t].seq \in 1..MaxSeq
        /\ \A k \in 1..(slot[t].seq - 1) :
             \E x \in Numbered(slot[t].target.period, slot[t].target.word)' :
               voucher'[x].seq = k
  BY <1>1, <1>6 DEF ReliesOn
<1> QED
  BY <1>1, <1>3, <1>4, <1>5, <1>7 DEF ReliesOn, DutiesAllowed

(* A writer of one row v that no other slot posts has answered.            *)
LEMMA WriterAnswers ==
  ASSUME TypeOK, ReadStill, NEW s \in Slots, NEW v \in Ids,
         slot'[s] = Idle, \A t \in Slots \ {s} : slot'[t] = slot[t],
         \A t \in Slots \ {s} : ~Posts(t, v) /\ (Handles(t, v) => ~IsPosted(v)'),
         \A x \in Ids \ {v} : voucher'[x] = voucher[x] /\ stamp'[x] = stamp[x],
         IsPosted(v) => voucher'[v] = voucher[v]
  PROVE  ReadStill'
<1>1. \A x \in Ids \ {v} : IsPosted(x)' => IsPosted(x)
  BY DEF IsPosted
<1>2. \A t \in Slots \ {s}, x \in Ids : Posts(t, x) => x # v
  OBVIOUS
<1>3. \A t \in Slots \ {s}, x \in Ids : Handles(t, x) /\ IsPosted(x)' => x # v
  OBVIOUS
<1>4. ReliesOn(slot[s])'
  BY IdleRelies DEF ReliesOn
<1>5. \A x \in Ids : IsPosted(x) => voucher'[x] = voucher[x]
  OBVIOUS
<1> QED
  BY <1>1, <1>2, <1>3, <1>4, <1>5, OthersRely

LEMMA OtherSlots ==
  ASSUME TypeOK, NEW s \in Slots, Answer(s)
  PROVE  slot'[s] = Idle /\ \A t \in Slots \ {s} : slot'[t] = slot[t]
BY DEF Answer, TypeOK

(* A request that has read changed nothing the others rely on.             *)
LEMMA ReaderAlone ==
  ASSUME TypeOK, ReadStill, NEW s \in Slots, UNCHANGED books,
         \A t \in Slots \ {s} : slot'[t] = slot[t],
         ReliesOn(slot[s])'
  PROVE  ReadStill'
<1>1. \A x \in Ids : /\ voucher'[x] = voucher[x] /\ stamp'[x] = stamp[x]
                     /\ IsPosted(x)' => IsPosted(x)
  BY DEF books, IsPosted
<1> QED
  BY <1>1, OthersRely

(* A step that only reads keeps what is said of the books.                 *)
LEMMA SameBooks ==
  ASSUME OrderlyInv, IInv', UNCHANGED books, ReadStill'
  PROVE  OrderlyInv'
<1>1. UNCHANGED <<voucher, stamp, entry, run, command>>
  BY DEF books
<1>2. \A v \in Ids : Exists(v)' = Exists(v) /\ IsPosted(v)' = IsPosted(v)
  BY <1>1 DEF Exists, IsPosted
<1>3. \A p, w : Numbered(p, w)' = Numbered(p, w)
  BY <1>1 DEF Numbered, Exists, IsPosted
<1>4. RowsAgree'
  BY <1>1, <1>2 DEF OrderlyInv, RowsAgree, PostedSoundly
<1>5. ReversalsMirror'
  BY <1>1 DEF OrderlyInv, ReversalsMirror, Mirrors, Exists, IsPosted
<1>6. NumbersDense'
  BY <1>1, <1>3 DEF OrderlyInv, NumbersDense
<1> QED
  BY <1>1, <1>4, <1>5, <1>6 DEF OrderlyInv, CommandsPast

(* A step that leaves the posted rows alone and posts none keeps the       *)
(* series of numbers.                                                      *)
PostedKept ==
  \A v \in Ids : /\ IsPosted(v)' <=> IsPosted(v)
                 /\ IsPosted(v) => voucher'[v] = voucher[v]

LEMMA SameSeries ==
  ASSUME OrderlyInv, PostedKept
  PROVE  /\ \A p, w : Numbered(p, w)' = Numbered(p, w)
         /\ NumbersDense'
<1>1. \A v \in Ids : IsPosted(v)' => Exists(v)'
  BY DEF IsPosted, Exists, NoRow
<1>2. \A p, w : Numbered(p, w)' = Numbered(p, w)
  BY <1>1, PostedExist DEF PostedKept, Numbered
<1>3. \A p, w : \A v \in Numbered(p, w) : voucher'[v] = voucher[v]
  BY DEF PostedKept, Numbered
<1> QED
  BY <1>2, <1>3 DEF OrderlyInv, NumbersDense

(* An event is analysed again only when none of its vouchers is posted: a  *)
(* posted voucher that is reversed does not stop it, but its posted        *)
(* reversal, a voucher of the same event that nothing reverses, does.      *)
LEMMA AnalysisFindsNoPosted ==
  ASSUME OrderlyInv, NEW e \in Events, AnalyzeAllowed(e), NEW v \in VouchersOf(e)
  PROVE  ~IsPosted(v)
<1> SUFFICES ASSUME IsPosted(v) PROVE FALSE
  OBVIOUS
<1>1. v \in Ids /\ v # NoVoucher
  BY ConstantsAssumption DEF VouchersOf
<1>2. PICK r \in Ids : PostedReversalOf(v, r)
  BY DEF AnalyzeAllowed, BlocksAnalysis
<1>3. Exists(r) /\ IsPosted(r) /\ voucher[r].reverses = v
  BY <1>2 DEF PostedReversalOf, Exists, IsPosted, NoRow
<1>4. voucher[r].event = e
  BY <1>1, <1>3 DEF OrderlyInv, ReversalsMirror, Mirrors, VouchersOf
<1>5. PICK q \in Ids : PostedReversalOf(r, q)
  BY <1>3, <1>4 DEF AnalyzeAllowed, BlocksAnalysis, VouchersOf
<1>6. Exists(q) /\ voucher[q].reverses = r
  BY <1>5 DEF PostedReversalOf, Exists, NoRow
<1> QED
  BY <1>1, <1>3, <1>6 DEF OrderlyInv, IInv, ReversedOnce

-----------------------------------------------------------------------------
(* The handlers that write.                                                *)

LEMMA CreateOrderly ==
  ASSUME OrderlyInv, IInv', NEW s \in Slots, NEW t \in Template, NEW a \in Amounts,
         CreateVoucherFromTemplate(s, t, a)
  PROVE  OrderlyInv' /\ PostedKept /\ entry' = entry
<1> DEFINE d == Draft(EventOf[t], WordOf[t], PeriodOf[EventOf[t]], a, NoVoucher, "draft")
<1>0. TypeOK
  BY DEF OrderlyInv, IInv
<1>1. t \in Ids /\ t \notin Reversal
  BY ConstantsAssumption DEF Ids
<1>2. /\ d # NoRow /\ d.status = "draft" /\ d.reverses = NoVoucher /\ ~d.postedAt
      /\ d.event = EventOf[t]
  BY DEF Draft, NoRow
<1> HIDE DEF d
<1>3. /\ voucher'[t] = d /\ \A v \in Ids \ {t} : voucher'[v] = voucher[v]
      /\ stamp'[t] = 1 /\ \A v \in Ids \ {t} : stamp'[v] = stamp[v]
      /\ stamp[t] = 0
  BY <1>0, <1>1 DEF CreateVoucherFromTemplate, TypeOK, d
<1>4. UNCHANGED <<entry, run, command, slot>>
  BY DEF CreateVoucherFromTemplate
<1>5. ~Exists(t) /\ ~IsPosted(t)
  BY <1>1, <1>3, PostedExist DEF OrderlyInv, RowsAgree
<1>6. PostedKept
  BY <1>2, <1>3, <1>5 DEF PostedKept, IsPosted
<1>7. RowsAgree'
  <2>1. \A v \in Ids \ {t} : Exists(v)' = Exists(v) /\ IsPosted(v)' = IsPosted(v)
    BY <1>3 DEF Exists, IsPosted
  <2>2. ~IsPosted(t)' /\ Exists(t)'
    BY <1>2, <1>3 DEF IsPosted, Exists
  <2> QED
    BY <1>1, <1>2, <1>3, <1>4, <1>5, <2>1, <2>2 DEF OrderlyInv, RowsAgree, PostedSoundly
<1>8. CommandsPast'
  <2>1. \A c \in command : c[1] \in Ids /\ c[2] \in Nat
    BY <1>0 DEF TypeOK
  <2> QED
    BY <1>3, <1>4, <2>1 DEF OrderlyInv, CommandsPast
<1>9. ReversalsMirror'
  <2>1. \A r \in Ids : Exists(r)' /\ voucher'[r].reverses # NoVoucher
          => r # t /\ Exists(r) /\ voucher'[r] = voucher[r]
    BY <1>2, <1>3 DEF Exists
  <2>2. \A v \in Ids : IsPosted(v) => IsPosted(v)' /\ voucher'[v] = voucher[v]
    BY <1>6 DEF PostedKept
  <2>3. \A r \in Ids : Exists(r) /\ voucher[r].reverses # NoVoucher
          => voucher[r].reverses \in Ids
    BY <1>0, RowShape DEF Voucher
  <2> QED
    BY <2>1, <2>2, <2>3 DEF OrderlyInv, ReversalsMirror, Mirrors
<1>10. ReadStill'
  <2>1. \A x \in Slots : ~Posts(x, t)
    BY <1>5 DEF OrderlyInv, ReadStill, ReliesOn, Posts, Unposted
  <2>2. ~IsPosted(t)'
    BY <1>2, <1>3 DEF IsPosted
  <2>3. ReadStill /\ slot'[s] = Idle
    BY <1>4 DEF OrderlyInv, CreateVoucherFromTemplate, Free
  <2> QED
    BY <1>0, <1>1, <1>3, <1>4, <1>5, <2>1, <2>2, <2>3, WriterAnswers
<1> QED
  BY <1>0, <1>4, <1>6, <1>7, <1>8, <1>9, <1>10, SameSeries DEF OrderlyInv

LEMMA AnalyzeOrderly ==
  ASSUME OrderlyInv, IInv', NotRebuilt, NEW s \in Slots, NEW e \in Events,
         NEW built \in SUBSET Analysis, NEW a \in Amounts, NEW st \in Statuses \ {"posted"},
         AnalyzeEvent(s, e, built, a, st)
  PROVE  OrderlyInv' /\ PostedKept /\ entry' = entry
<1> DEFINE gone == VouchersOf(e)
           d(v) == Draft(e, WordOf[v], PeriodOf[e], a, NoVoucher, st)
<1>0. TypeOK
  BY DEF OrderlyInv, IInv
<1>1. /\ built \subseteq Ids /\ \A v \in built : v \notin Reversal /\ EventOf[v] = e
      /\ gone \subseteq Ids
  BY ConstantsAssumption DEF AnalyzeEvent, Ids, VouchersOf
<1>2. \A v : /\ d(v) # NoRow /\ d(v).status # "posted" /\ d(v).reverses = NoVoucher
             /\ ~d(v).postedAt /\ d(v).event = e
  BY DEF Draft, NoRow
<1>3. \A v \in gone : ~IsPosted(v)
  BY AnalysisFindsNoPosted DEF AnalyzeEvent
<1>4. \A v \in built : ~IsPosted(v)
  BY <1>1, <1>3, PostedExist DEF VouchersOf, OrderlyInv, RowsAgree
<1>5. /\ \A v \in built : voucher'[v] = d(v)
      /\ \A v \in gone \ built : voucher'[v] = NoRow
      /\ \A v \in Ids \ (built \cup gone) : voucher'[v] = voucher[v]
  BY <1>1 DEF AnalyzeEvent
<1>x. \A t \in Slots, v \in Ids : Posts(t, v) => v \notin gone
  BY DEF NotRebuilt
<1>y. \A v \in built : Exists(v) => v \in gone
  BY <1>1 DEF VouchersOf, OrderlyInv, RowsAgree
<1>z. slot' = [x \in Slots |->
        IF slot[x].op = "post.started" /\ slot[x].id \in gone
        THEN [slot[x] EXCEPT !.hit = FALSE] ELSE slot[x]]
  BY DEF AnalyzeEvent
<1> HIDE DEF d, gone
<1>6. /\ \A v \in built : stamp'[v] = stamp[v] + 1
      /\ \A v \in Ids \ built : stamp'[v] = stamp[v]
      /\ \A v \in Ids : stamp[v] \in Nat
  BY <1>0, <1>1 DEF AnalyzeEvent, TypeOK
<1>7. entry' = entry
  <2>1. \A v \in gone : entry[v] = NoEntry
    BY <1>1, <1>3 DEF OrderlyInv, RowsAgree
  <2>2. entry' = [v \in Ids |-> IF v \in gone THEN NoEntry ELSE entry[v]]
    BY DEF AnalyzeEvent, gone
  <2> QED
    BY <1>0, <2>1, <2>2 DEF TypeOK
<1>8. run' = run /\ command' = command
  BY DEF AnalyzeEvent
<1>9. PostedKept
  BY <1>2, <1>3, <1>4, <1>5 DEF PostedKept, IsPosted, NoRow
<1>10. RowsAgree'
  <2>1. \A v \in built : ~IsPosted(v)' /\ Exists(v)'
    BY <1>2, <1>5 DEF IsPosted, Exists
  <2>2. \A v \in gone \ built : ~IsPosted(v)' /\ ~Exists(v)'
    BY <1>5 DEF IsPosted, Exists, NoRow
  <2>3. \A v \in Ids \ (built \cup gone) : IsPosted(v)' = IsPosted(v) /\ Exists(v)' = Exists(v)
    BY <1>5 DEF IsPosted, Exists
  <2> QED
    BY <1>1, <1>2, <1>3, <1>4, <1>5, <1>6, <1>7, <1>8, <2>1, <2>2, <2>3
       DEF OrderlyInv, RowsAgree, PostedSoundly
<1>11. CommandsPast'
  <2>1. \A c \in command : c[1] \in Ids /\ c[2] \in Nat
    BY <1>0 DEF TypeOK
  <2> QED
    BY <1>6, <1>8, <2>1 DEF OrderlyInv, CommandsPast
<1>12. ReversalsMirror'
  <2>1. \A r \in Ids : Exists(r)' /\ voucher'[r].reverses # NoVoucher
          => Exists(r) /\ voucher'[r] = voucher[r]
    BY <1>2, <1>5 DEF Exists
  <2>2. \A v \in Ids : IsPosted(v) => IsPosted(v)' /\ voucher'[v] = voucher[v]
    BY <1>9 DEF PostedKept
  <2>3. \A r \in Ids : Exists(r) /\ voucher[r].reverses # NoVoucher
          => voucher[r].reverses \in Ids
    BY <1>0, RowShape DEF Voucher
  <2> QED
    BY <2>1, <2>2, <2>3 DEF OrderlyInv, ReversalsMirror, Mirrors
<1>13. ReadStill'
  <2>1. \A t \in Slots, v \in Ids : Posts(t, v) => Exists(v)
    BY DEF OrderlyInv, ReadStill, ReliesOn, Posts, Unposted
  <2>2. \A t \in Slots, v \in Ids :
          Posts(t, v) => voucher'[v] = voucher[v] /\ stamp'[v] = stamp[v]
    BY <1>1, <1>5, <1>6, <1>x, <1>y, <2>1
  <2>3. \A t \in Slots : slot'[t] = slot[t]
    <3>1. \A t \in Slots : slot[t].op = "post.started"
                              => slot[t].id \in Ids /\ Posts(t, slot[t].id)
      BY <1>0, RequestShape DEF Writing, Posts, PostOps
    <3> QED
      BY <1>x, <1>z, <3>1
  <2>4. \A v \in Ids : /\ IsPosted(v) => voucher'[v] = voucher[v]
                       /\ IsPosted(v)' => IsPosted(v)
    BY <1>9 DEF PostedKept
  <2>5. ReadStill /\ slot[s] = Idle
    BY DEF OrderlyInv, AnalyzeEvent, Free
  <2>6. ReliesOn(slot[s])'
    BY <2>3, <2>5, IdleRelies DEF ReliesOn
  <2> QED
    BY <1>0, <2>2, <2>3, <2>4, <2>5, <2>6, OthersRely
<1> QED
  BY <1>0, <1>7, <1>9, <1>10, <1>11, <1>12, <1>13, SameSeries DEF OrderlyInv

(* A handler that rewrites a draft without changing what it is about.      *)
LEMMA DraftRewritten ==
  ASSUME OrderlyInv, IInv', NEW s \in Slots, NEW v \in Ids, Unposted(v),
         NEW row \in Voucher, row.status # "posted",
         row.reverses = voucher[v].reverses, row.event = voucher[v].event,
         row.lines = voucher[v].lines, row.postedAt = voucher[v].postedAt,
         voucher' = [voucher EXCEPT ![v] = row],
         stamp' = [stamp EXCEPT ![v] = @ + 1],
         entry' = entry, command' = command,
         \A x \in Ids : run'[x] = "completed" <=> run[x] = "completed",
         Answer(s), \A t \in Slots \ {s} : ~Posts(t, v)
  PROVE  OrderlyInv' /\ PostedKept
<1>0. TypeOK
  BY DEF OrderlyInv, IInv
<1>1. row # NoRow
  BY VoucherIsNoGap
<1>2. /\ voucher'[v] = row /\ \A x \in Ids \ {v} : voucher'[x] = voucher[x]
      /\ stamp'[v] = stamp[v] + 1 /\ \A x \in Ids \ {v} : stamp'[x] = stamp[x]
      /\ \A x \in Ids : stamp[x] \in Nat
  BY <1>0 DEF TypeOK
<1>3. /\ \A x \in Ids : Exists(x)' = Exists(x) /\ IsPosted(x)' = IsPosted(x)
      /\ ~IsPosted(v)
  BY <1>1, <1>2 DEF Exists, IsPosted, Unposted
<1>4. PostedKept
  BY <1>2, <1>3 DEF PostedKept
<1>5. RowsAgree'
  BY <1>2, <1>3 DEF OrderlyInv, RowsAgree, PostedSoundly, Unposted
<1>6. CommandsPast'
  <2>1. \A c \in command : c[1] \in Ids /\ c[2] \in Nat
    BY <1>0 DEF TypeOK
  <2> QED
    BY <1>2, <2>1 DEF OrderlyInv, CommandsPast
<1>7. ReversalsMirror'
  <2>1. \A x \in Ids : /\ voucher'[x].reverses = voucher[x].reverses
                       /\ voucher'[x].event = voucher[x].event
                       /\ voucher'[x].lines = voucher[x].lines
    BY <1>2
  <2>2. \A r \in Ids : Exists(r) /\ voucher[r].reverses # NoVoucher
          => voucher[r].reverses \in Ids
    BY <1>0, RowShape DEF Voucher
  <2> QED
    BY <1>3, <2>1, <2>2 DEF OrderlyInv, ReversalsMirror, Mirrors
<1>8. ReadStill'
  BY <1>0, <1>2, <1>3, OtherSlots, WriterAnswers DEF OrderlyInv
<1> QED
  BY <1>0, <1>4, <1>5, <1>6, <1>7, <1>8, SameSeries DEF OrderlyInv

(* The row was deleted by an analysis meanwhile: nothing is written.       *)
LEMMA NothingRewritten ==
  ASSUME OrderlyInv, IInv', NEW s \in Slots, Answer(s),
         UNCHANGED <<voucher, stamp, entry, command>>,
         \A x \in Ids : run'[x] = "completed" <=> run[x] = "completed"
  PROVE  OrderlyInv' /\ PostedKept
<1>0. TypeOK
  BY DEF OrderlyInv, IInv
<1>1. \A x \in Ids : Exists(x)' = Exists(x) /\ IsPosted(x)' = IsPosted(x)
  BY DEF Exists, IsPosted
<1>2. PostedKept
  BY <1>1 DEF PostedKept
<1>3. RowsAgree'
  BY <1>1 DEF OrderlyInv, RowsAgree, PostedSoundly
<1>4. CommandsPast' /\ ReversalsMirror'
  BY DEF OrderlyInv, CommandsPast, ReversalsMirror, Mirrors, Exists, IsPosted
<1>5. ReadStill'
  <2>1. ReliesOn(slot[s])'
    BY <1>0, OtherSlots, IdleRelies DEF ReliesOn
  <2> QED
    BY <1>0, <1>1, <2>1, OtherSlots, OthersRely DEF OrderlyInv
<1> QED
  BY <1>2, <1>3, <1>4, <1>5, SameSeries DEF OrderlyInv

LEMMA ApproveOrderly ==
  ASSUME OrderlyInv, IInv', PostsAlone, NEW s \in Slots, ApproveCommit(s)
  PROVE  OrderlyInv' /\ PostedKept /\ entry' = entry
<1> DEFINE v == slot[s].id
           row == [voucher[v] EXCEPT !.status = "review_required", !.approver = slot[s].user]
<1>0. TypeOK
  BY DEF OrderlyInv, IInv
<1>1. v \in Ids /\ slot[s].user \in Users
  BY <1>0, RequestShape DEF ApproveCommit, Approval
<1>2. ~IsPosted(v)
  BY DEF ApproveCommit, OrderlyInv, ReadStill, ReliesOn
<1>3. Answer(s) /\ entry' = entry /\ command' = command
  BY DEF ApproveCommit
<1>4. \A t \in Slots \ {s} : ~Posts(t, v)
  BY <1>1 DEF PostsAlone, Handles, PostOps, ApproveCommit
<1>5. \A x \in Ids : run'[x] = "completed" <=> run[x] = "completed"
  <2>1. run[v] # "completed"
    BY <1>1, <1>2 DEF OrderlyInv, RowsAgree
  <2> QED
    BY <1>0, <1>1, <2>1 DEF ApproveCommit, TypeOK
<1>6. CASE ~Exists(v)
  <2>1. UNCHANGED <<voucher, stamp>>
    BY <1>6 DEF ApproveCommit
  <2> QED
    BY <1>3, <1>5, <2>1, NothingRewritten
<1>7. CASE Exists(v)
  <2>1. voucher[v] \in Voucher
    BY <1>0, <1>1, <1>7, RowShape
  <2>2. /\ row \in Voucher /\ row.status # "posted"
        /\ row.reverses = voucher[v].reverses /\ row.event = voucher[v].event
        /\ row.lines = voucher[v].lines /\ row.postedAt = voucher[v].postedAt
    BY <1>1, <2>1 DEF Voucher, Statuses
  <2>3. voucher' = [voucher EXCEPT ![v] = row] /\ stamp' = [stamp EXCEPT ![v] = @ + 1]
    BY <1>7 DEF ApproveCommit
  <2>4. Unposted(v)
    BY <1>2, <1>7 DEF Unposted
  <2> HIDE DEF v, row
  <2> QED
    BY <1>1, <1>3, <1>4, <1>5, <2>2, <2>3, <2>4, DraftRewritten
<1> QED
  BY <1>3, <1>6, <1>7

LEMMA UpdateOrderly ==
  ASSUME OrderlyInv, IInv', PostsAlone, NEW s \in Slots, UpdateCommit(s)
  PROVE  OrderlyInv' /\ PostedKept /\ entry' = entry
<1> DEFINE v == slot[s].id
           row == [voucher[v] EXCEPT !.status = slot[s].status]
<1>0. TypeOK
  BY DEF OrderlyInv, IInv
<1>1. v \in Ids /\ slot[s].status \in Statuses \ {"posted"}
  BY <1>0, RequestShape DEF UpdateCommit, Edit
<1>2. ~IsPosted(v)
  BY DEF UpdateCommit, OrderlyInv, ReadStill, ReliesOn
<1>3. Answer(s) /\ entry' = entry /\ command' = command
  BY DEF UpdateCommit
<1>4. \A t \in Slots \ {s} : ~Posts(t, v)
  BY <1>1 DEF PostsAlone, Handles, PostOps, UpdateCommit
<1>5. \A x \in Ids : run'[x] = "completed" <=> run[x] = "completed"
  BY DEF UpdateCommit
<1>6. CASE ~Exists(v)
  <2>1. UNCHANGED <<voucher, stamp>>
    BY <1>6 DEF UpdateCommit
  <2> QED
    BY <1>3, <1>5, <2>1, NothingRewritten
<1>7. CASE Exists(v)
  <2>1. voucher[v] \in Voucher
    BY <1>0, <1>1, <1>7, RowShape
  <2>2. /\ row \in Voucher /\ row.status # "posted"
        /\ row.reverses = voucher[v].reverses /\ row.event = voucher[v].event
        /\ row.lines = voucher[v].lines /\ row.postedAt = voucher[v].postedAt
    BY <1>1, <2>1 DEF Voucher, Statuses
  <2>3. voucher' = [voucher EXCEPT ![v] = row] /\ stamp' = [stamp EXCEPT ![v] = @ + 1]
    BY <1>7 DEF UpdateCommit
  <2>4. Unposted(v)
    BY <1>2, <1>7 DEF Unposted
  <2> HIDE DEF v, row
  <2> QED
    BY <1>1, <1>3, <1>4, <1>5, <2>2, <2>3, <2>4, DraftRewritten
<1> QED
  BY <1>3, <1>6, <1>7

LEMMA ReverseOrderly ==
  ASSUME OrderlyInv, IInv', NEW s \in Slots, NEW r \in Reversal, ReverseCommit(s, r)
  PROVE  OrderlyInv' /\ PostedKept /\ entry' = entry
<1> DEFINE v == slot[s].id
           t == slot[s].target
           d == Draft(t.event, t.word, month, -t.lines, v, "draft")
<1>0. TypeOK
  BY DEF OrderlyInv, IInv
<1>1. v \in Ids /\ t \in Voucher
  BY <1>0, RequestShape DEF ReverseCommit, Reversing
<1>2. IsPosted(v) /\ voucher[v] = t
  BY DEF ReverseCommit, OrderlyInv, ReadStill, ReliesOn
<1>3. /\ d # NoRow /\ d.status = "draft" /\ d.reverses = v /\ ~d.postedAt
      /\ d.event = t.event /\ d.lines = -t.lines
  BY DEF Draft, NoRow
<1>4. /\ voucher'[r] = d /\ \A x \in Ids \ {r} : voucher'[x] = voucher[x]
      /\ stamp'[r] = 1 /\ \A x \in Ids \ {r} : stamp'[x] = stamp[x]
      /\ stamp[r] = 0 /\ r \in Ids
  BY <1>0 DEF ReverseCommit, TypeOK, Ids
<1>5. UNCHANGED <<entry, run, command>>
  BY DEF ReverseCommit
<1>6. slot'[s] = Idle /\ \A x \in Slots \ {s} : slot'[x] = slot[x]
  BY <1>0, OtherSlots DEF ReverseCommit
<1> HIDE DEF v, t, d
<1>7. ~Exists(r) /\ ~IsPosted(r)
  BY <1>4, PostedExist DEF OrderlyInv, RowsAgree
<1>8. PostedKept
  BY <1>3, <1>4, <1>7 DEF PostedKept, IsPosted
<1>9. RowsAgree'
  <2>1. \A x \in Ids \ {r} : Exists(x)' = Exists(x) /\ IsPosted(x)' = IsPosted(x)
    BY <1>4 DEF Exists, IsPosted
  <2>2. ~IsPosted(r)' /\ Exists(r)'
    BY <1>3, <1>4 DEF IsPosted, Exists
  <2> QED
    BY <1>3, <1>4, <1>5, <1>7, <2>1, <2>2 DEF OrderlyInv, RowsAgree, PostedSoundly
<1>10. CommandsPast'
  <2>1. \A c \in command : c[1] \in Ids /\ c[2] \in Nat
    BY <1>0 DEF TypeOK
  <2> QED
    BY <1>4, <1>5, <2>1 DEF OrderlyInv, CommandsPast
<1>11. ReversalsMirror'
  <2>1. \A x \in Ids : Exists(x)' /\ voucher'[x].reverses # NoVoucher /\ x # r
          => Exists(x) /\ voucher'[x] = voucher[x]
    BY <1>4 DEF Exists
  <2>2. \A x \in Ids : IsPosted(x) => IsPosted(x)' /\ voucher'[x] = voucher[x]
    BY <1>8 DEF PostedKept
  <2>3. \A x \in Ids : Exists(x) /\ voucher[x].reverses # NoVoucher
          => voucher[x].reverses \in Ids
    BY <1>0, RowShape DEF Voucher
  <2>4. \A x : x = v => Mirrors(r, x)'
    BY <1>1, <1>2, <1>3, <1>4, <2>2 DEF Mirrors
  <2> QED
    BY <1>3, <1>4, <2>1, <2>2, <2>3, <2>4 DEF OrderlyInv, ReversalsMirror, Mirrors
<1>12. ReadStill'
  <2>1. \A x \in Slots : ~Posts(x, r)
    BY <1>7 DEF OrderlyInv, ReadStill, ReliesOn, Posts, Unposted
  <2>2. ~IsPosted(r)'
    BY <1>3, <1>4 DEF IsPosted
  <2>3. ReadStill
    BY DEF OrderlyInv
  <2> QED
    BY <1>0, <1>4, <1>6, <1>7, <2>1, <2>2, <2>3, WriterAnswers
<1> QED
  BY <1>0, <1>5, <1>8, <1>9, <1>10, <1>11, <1>12, SameSeries DEF OrderlyInv

(* Among the numbers in use, the next one is the first that is free: the   *)
(* numbers of a series are 1, 2, ..., n - 1.                               *)
LEMMA SeriesBelow ==
  ASSUME OrderlyInv, NEW p \in Periods, NEW w \in Words, NEW n \in NextSeqs(p, w)
  PROVE  /\ n \in Nat \ {0}
         /\ \A v \in Numbered(p, w) : voucher[v].seq \in 1..(n - 1)
         /\ \A k \in 1..(n - 1) : \E v \in Numbered(p, w) : voucher[v].seq = k
<1>1. n \in Nat \ {0}
  BY ConstantsAssumption DEF NextSeqs
<1>2. \A v \in Numbered(p, w) : voucher[v].seq \in 1..(n - 1)
  <2> SUFFICES ASSUME NEW v \in Numbered(p, w) PROVE voucher[v].seq \in 1..(n - 1)
    OBVIOUS
  <2>1. v \in Ids /\ Exists(v) /\ IsPosted(v)
    BY DEF Numbered
  <2>2. voucher[v].seq \in Nat /\ voucher[v].seq > 0
    BY <2>1, RowShape DEF OrderlyInv, IInv, RowsAgree, PostedSoundly, Voucher
  <2> QED
    BY <1>1, <2>2 DEF NextSeqs
<1>3. ASSUME NEW k \in 1..(n - 1)
      PROVE  \E v \in Numbered(p, w) : voucher[v].seq = k
  <2>1. PICK v \in Numbered(p, w) : voucher[v].seq = n - 1
    BY <1>1 DEF NextSeqs
  <2> QED
    BY <2>1 DEF OrderlyInv, NumbersDense
<1> QED
  BY <1>1, <1>2, <1>3

LEMMA PostOrderly ==
  ASSUME OrderlyInv, IInv', PostsAlone, NEW s \in Slots, PostCommit(s)
  PROVE  OrderlyInv' /\ \A x \in Ids : IsPosted(x) => voucher'[x] = voucher[x]
<1> DEFINE r == slot[s]
           v == r.id
           t == r.target
           row == MarkPosted(t, t, r.seq)
<1>0. TypeOK
  BY DEF OrderlyInv, IInv
<1>1. /\ v \in Ids /\ t \in Voucher /\ r.user \in Users /\ r.seq \in Nat /\ r.stamp \in Nat
  BY <1>0, RequestShape DEF PostCommit, Writing
<1>2. /\ Unposted(v) /\ voucher[v] = t /\ stamp[v] = r.stamp /\ t.approver # NoUser
      /\ DutiesAllowed(t.approver, r.user)
      /\ r.hit /\ r.seq \in 1..MaxSeq
      /\ \A k \in 1..(r.seq - 1) :
           \E x \in Numbered(t.period, t.word) : voucher[x].seq = k
  BY DEF PostCommit, OrderlyInv, ReadStill, ReliesOn, PostOps
<1>3. /\ row \in Voucher /\ row.status = "posted" /\ row.postedAt /\ row.seq = r.seq
      /\ row.period = t.period /\ row.word = t.word /\ row.reverses = t.reverses
      /\ row.event = t.event /\ row.lines = t.lines /\ row.approver = t.approver
  BY <1>1 DEF MarkPosted, Voucher, Statuses
<1>4. /\ voucher'[v] = row /\ \A x \in Ids \ {v} : voucher'[x] = voucher[x]
      /\ stamp'[v] = stamp[v] + 1 /\ \A x \in Ids \ {v} : stamp'[x] = stamp[x]
      /\ \A x \in Ids : stamp[x] \in Nat
  BY <1>0, <1>1, <1>2 DEF PostCommit, TypeOK
<1>5. <<v, r.stamp>> \notin command
  BY <1>1, <1>2 DEF OrderlyInv, CommandsPast
<1>6. /\ command' = command \cup {<<v, r.stamp>>}
      /\ run'[v] = "completed" /\ \A x \in Ids \ {v} : run'[x] = run[x]
  BY <1>0, <1>1, <1>5 DEF PostCommit, TypeOK
<1>7. /\ entry'[v] = [lines |-> t.lines, period |-> t.period, poster |-> r.user]
      /\ \A x \in Ids \ {v} : entry'[x] = entry[x]
  BY <1>0, <1>1 DEF PostCommit, TypeOK
<1>8. slot'[s] = Idle /\ \A x \in Slots \ {s} : slot'[x] = slot[x]
  BY <1>0, OtherSlots DEF PostCommit
<1>9. /\ entry'[v].lines = t.lines /\ entry'[v].period = t.period
      /\ entry'[v].poster = r.user /\ entry'[v] # NoEntry
  BY <1>7 DEF NoEntry
<1>10. t.approver \notin {NoUser, r.user}
  BY <1>2 DEF DutiesAllowed
<1>11. r.seq \in Nat \ {0}
  BY <1>1, <1>2, ConstantsAssumption
<1>x. \A x \in Slots \ {s} : ~Handles(x, v) /\ ~Posts(x, v)
  BY <1>1 DEF PostsAlone, Posts, Handles, PostOps, PostCommit
<1> HIDE DEF r, v, t, row
<1>12. /\ \A x \in Ids \ {v} : Exists(x)' = Exists(x) /\ IsPosted(x)' = IsPosted(x)
       /\ \A x : x = v => Exists(x)' /\ IsPosted(x)'
       /\ Exists(v) /\ ~IsPosted(v)
  BY <1>2, <1>3, <1>4, VoucherIsNoGap DEF Exists, IsPosted, Unposted
<1>13. \A x \in Ids : IsPosted(x) => IsPosted(x)' /\ voucher'[x] = voucher[x]
  BY <1>4, <1>12
<1>14. RowsAgree'
  <2>1. \A x : x = v => PostedSoundly(x)'
    BY <1>3, <1>4, <1>9, <1>10, <1>11 DEF PostedSoundly
  <2>2. \A x \in Ids \ {v} : IsPosted(x) /\ PostedSoundly(x) => PostedSoundly(x)'
    BY <1>4, <1>7 DEF PostedSoundly
  <2>3. \A x : x = v => /\ voucher'[x].event = voucher[x].event
                        /\ stamp'[x] > 0 /\ entry'[x] # NoEntry /\ run'[x] = "completed"
    BY <1>1, <1>2, <1>3, <1>4, <1>6, <1>9
  <2> QED
    BY <1>4, <1>6, <1>7, <1>12, <2>1, <2>2, <2>3 DEF OrderlyInv, RowsAgree
<1>15. CommandsPast'
  <2>1. \A c \in command : c[1] \in Ids /\ c[2] \in Nat
    BY <1>0 DEF TypeOK
  <2>2. \A c \in command' : c \in command \/ (c[1] = v /\ c[2] = stamp[v])
    BY <1>2, <1>6
  <2> QED
    BY <1>1, <1>4, <2>1, <2>2 DEF OrderlyInv, CommandsPast
<1>16. ReversalsMirror'
  <2>1. \A x \in Ids : /\ voucher'[x].reverses = voucher[x].reverses
                       /\ voucher'[x].event = voucher[x].event
                       /\ voucher'[x].lines = voucher[x].lines
                       /\ Exists(x)' <=> Exists(x)
    BY <1>2, <1>3, <1>4, <1>12
  <2>2. \A x \in Ids : Exists(x) /\ voucher[x].reverses # NoVoucher
          => voucher[x].reverses \in Ids
    BY <1>0, RowShape DEF Voucher
  <2> QED
    BY <1>13, <2>1, <2>2 DEF OrderlyInv, ReversalsMirror, Mirrors
<1>17. NumbersDense'
  <2> SUFFICES ASSUME NEW p \in Periods, NEW w \in Words, NEW x \in Numbered(p, w)',
                      NEW n \in 1..voucher'[x].seq
               PROVE  \E y \in Numbered(p, w)' : voucher'[y].seq = n
    BY DEF NumbersDense
  <2>1. \A y \in Numbered(p, w) : y \in Numbered(p, w)' /\ voucher'[y] = voucher[y]
    BY <1>13, <1>12, PostedExist DEF Numbered
  <2>2. CASE x \in Numbered(p, w)
    <3>1. PICK y \in Numbered(p, w) : voucher[y].seq = n
      BY <2>1, <2>2 DEF OrderlyInv, NumbersDense
    <3> QED
      BY <2>1, <3>1
  <2>3. CASE x \notin Numbered(p, w)
    <3>1. x = v
      BY <1>4, <1>12, <2>3 DEF Numbered
    <3>2. voucher'[x].seq = r.seq /\ p = t.period /\ w = t.word
      BY <1>3, <1>4, <3>1 DEF Numbered
    <3>3. CASE n = r.seq
      BY <3>2, <3>3
    <3>4. CASE n # r.seq
      <4>1. n \in 1..(r.seq - 1)
        BY <1>11, <3>2, <3>4
      <4> QED
        BY <1>2, <2>1, <3>2, <4>1
    <3> QED
      BY <3>3, <3>4
  <2> QED
    BY <2>2, <2>3
<1>18. ReadStill'
  <2>1. ReadStill
    BY DEF OrderlyInv
  <2> QED
    BY <1>0, <1>1, <1>4, <1>8, <1>12, <1>x, <2>1, WriterAnswers
<1> QED
  BY <1>13, <1>14, <1>15, <1>16, <1>17, <1>18 DEF OrderlyInv

-----------------------------------------------------------------------------
(* The steps that only read.                                               *)

LEMMA ReadOrderly ==
  ASSUME OrderlyInv, NEW s \in Slots,
         \/ \E u \in Users, v \in Ids : ApproveRead(s, u, v)
         \/ \E v \in Ids, st \in Statuses \ {"posted"} : UpdateRead(s, v, st)
         \/ \E u \in Users, v \in Ids : PostRead(s, u, v)
         \/ PostCheck(s)
         \/ PostStart(s)
         \/ \E v \in Ids : ReverseRead(s, v)
  PROVE  ReadStill' /\ UNCHANGED <<books, locked>>
<1>0. TypeOK /\ ReadStill
  BY DEF OrderlyInv, IInv
<1> USE DEF books, Unposted, Exists, IsPosted
<1>1. \A u \in Users, v \in Ids : ApproveRead(s, u, v) => ReadStill'
  <2> SUFFICES ASSUME NEW u \in Users, NEW v \in Ids, ApproveRead(s, u, v) PROVE ReadStill'
    OBVIOUS
  <2>1. slot'[s] = [op |-> "approve", user |-> u, id |-> v]
    BY <1>0 DEF ApproveRead, TypeOK
  <2>2. ReliesOn(slot[s])'
    BY <2>1 DEF ReliesOn, ApproveRead, Transition, PostOps
  <2>9. UNCHANGED books /\ \A t \in Slots \ {s} : slot'[t] = slot[t]
    BY <1>0 DEF ApproveRead, TypeOK
  <2> QED
    BY <1>0, <2>2, <2>9, ReaderAlone
<1>2. \A v \in Ids, st \in Statuses \ {"posted"} : UpdateRead(s, v, st) => ReadStill'
  <2> SUFFICES ASSUME NEW v \in Ids, NEW st \in Statuses \ {"posted"}, UpdateRead(s, v, st)
               PROVE  ReadStill'
    OBVIOUS
  <2>1. slot'[s] = [op |-> "update", id |-> v, status |-> st]
    BY <1>0 DEF UpdateRead, TypeOK
  <2>2. ReliesOn(slot[s])'
    BY <2>1 DEF ReliesOn, UpdateRead, PostOps
  <2>9. UNCHANGED books /\ \A t \in Slots \ {s} : slot'[t] = slot[t]
    BY <1>0 DEF UpdateRead, TypeOK
  <2> QED
    BY <1>0, <2>2, <2>9, ReaderAlone
<1>3. \A u \in Users, v \in Ids : PostRead(s, u, v) => ReadStill'
  <2> SUFFICES ASSUME NEW u \in Users, NEW v \in Ids, PostRead(s, u, v) PROVE ReadStill'
    OBVIOUS
  <2>1. slot'[s] = [op |-> "post.read", user |-> u, id |-> v,
                    target |-> voucher[v], stamp |-> stamp[v]]
    BY <1>0 DEF PostRead, TypeOK
  <2>2. ~IsPosted(v)
    BY DEF PostRead, OrderlyInv, RowsAgree, PostedSoundly
  <2>3. ReliesOn(slot[s])'
    BY <2>1, <2>2 DEF ReliesOn, PostRead, PostOps
  <2>9. UNCHANGED books /\ \A t \in Slots \ {s} : slot'[t] = slot[t]
    BY <1>0 DEF PostRead, TypeOK
  <2> QED
    BY <1>0, <2>3, <2>9, ReaderAlone
<1>4. PostCheck(s) => ReadStill'
  <2> SUFFICES ASSUME PostCheck(s) PROVE ReadStill'
    OBVIOUS
  <2>1. slot[s] \in Posting
    BY <1>0, RequestShape DEF PostCheck
  <2>2. slot'[s] = [slot[s] EXCEPT !.op = "post.checked"]
    BY <1>0 DEF PostCheck, TypeOK
  <2>3. /\ slot'[s].op = "post.checked" /\ slot'[s].id = slot[s].id
        /\ slot'[s].user = slot[s].user /\ slot'[s].target = slot[s].target
        /\ slot'[s].stamp = slot[s].stamp
    BY <2>1, <2>2 DEF Posting
  <2>4. ReliesOn(slot[s]) /\ slot[s].op = "post.read"
    BY <1>0 DEF ReadStill, PostCheck
  <2>5. DutiesAllowed(slot[s].target.approver, slot[s].user)
    BY <2>4 DEF ReliesOn, PostCheck, PostOps
  <2>6. ReliesOn(slot[s])'
    BY <2>3, <2>4, <2>5 DEF ReliesOn, PostCheck, PostOps, DutiesAllowed
  <2>9. UNCHANGED books /\ \A t \in Slots \ {s} : slot'[t] = slot[t]
    BY <1>0 DEF PostCheck, TypeOK
  <2> QED
    BY <1>0, <2>6, <2>9, ReaderAlone
<1>5. PostStart(s) => ReadStill'
  <2> SUFFICES ASSUME PostStart(s) PROVE ReadStill'
    OBVIOUS
  <2>1. slot[s] \in Posting
    BY <1>0, RequestShape DEF PostStart
  <2>2. PICK n \in NextSeqs(slot[s].target.period, slot[s].target.word) :
          slot'[s] = [op |-> "post.started", user |-> slot[s].user, id |-> slot[s].id,
                      target |-> slot[s].target, stamp |-> slot[s].stamp, seq |-> n,
                      hit |-> Exists(slot[s].id)]
    BY <1>0 DEF PostStart, TypeOK
  <2>3. ReliesOn(slot[s]) /\ slot[s].op = "post.checked"
    BY <1>0 DEF ReadStill, PostStart
  <2>5. /\ slot'[s].op = "post.started" /\ slot'[s].id = slot[s].id
        /\ slot'[s].user = slot[s].user /\ slot'[s].target = slot[s].target
        /\ slot'[s].stamp = slot[s].stamp /\ slot'[s].seq = n
        /\ slot'[s].hit = Exists(slot[s].id)
    BY <2>2
  <2>4. slot[s].target.period \in Periods /\ slot[s].target.word \in Words
    BY <2>1 DEF Posting, Voucher
  <2>6. /\ n \in 1..MaxSeq
        /\ \A k \in 1..(n - 1) :
             \E x \in Numbered(slot[s].target.period, slot[s].target.word) : voucher[x].seq = k
    BY <2>4, SeriesBelow DEF NextSeqs
  <2>10. \A p, w : Numbered(p, w)' = Numbered(p, w)
    BY DEF PostStart, Numbered
  <2>7. Exists(slot[s].id)
    BY <2>3 DEF ReliesOn, PostOps
  <2>8. ReliesOn(slot[s])'
    BY <2>3, <2>5, <2>6, <2>7, <2>10 DEF ReliesOn, PostStart, PostOps, DutiesAllowed
  <2>9. UNCHANGED books /\ \A t \in Slots \ {s} : slot'[t] = slot[t]
    BY <1>0 DEF PostStart, TypeOK
  <2> QED
    BY <1>0, <2>8, <2>9, ReaderAlone
<1>6. \A v \in Ids : ReverseRead(s, v) => ReadStill'
  <2> SUFFICES ASSUME NEW v \in Ids, ReverseRead(s, v) PROVE ReadStill'
    OBVIOUS
  <2>1. slot'[s] = [op |-> "reverse", id |-> v, target |-> voucher[v]]
    BY <1>0 DEF ReverseRead, TypeOK
  <2>2. ReliesOn(slot[s])'
    BY <2>1 DEF ReliesOn, ReverseRead, CanReverse, PostOps
  <2>9. UNCHANGED books /\ \A t \in Slots \ {s} : slot'[t] = slot[t]
    BY <1>0 DEF ReverseRead, TypeOK
  <2> QED
    BY <1>0, <2>2, <2>9, ReaderAlone
<1> QED
  BY <1>1, <1>2, <1>3, <1>4, <1>5, <1>6
     DEF ApproveRead, UpdateRead, PostRead, PostCheck, PostStart, ReverseRead

(* A post is the only step that enters anything.                           *)
OtherSteps ==
  /\ PostedKept
  /\ entry' = entry

LEMMA OrderlyStep ==
  ASSUME OrderlyInv, PostsAlone, [NotRebuilt]_vars, [Next]_vars
  PROVE  /\ OrderlyInv'
         /\ \A v \in Ids : IsPosted(v) => voucher'[v] = voucher[v]
         /\ (\E s \in Slots : PostCommit(s)) \/ OtherSteps
<1>0. TypeOK /\ ReadStill /\ IInv'
  BY SafetyStep DEF OrderlyInv, IInv
<1> DEFINE Goal ==
      /\ OrderlyInv'
      /\ \A v \in Ids : IsPosted(v) => voucher'[v] = voucher[v]
      /\ (\E s \in Slots : PostCommit(s)) \/ OtherSteps
<1>a. UNCHANGED books => OtherSteps
  BY DEF books, OtherSteps, PostedKept, IsPosted
<1>b. OtherSteps => \A v \in Ids : IsPosted(v) => voucher'[v] = voucher[v]
  BY DEF OtherSteps, PostedKept
<1>1. UNCHANGED vars => Goal
  <2> SUFFICES ASSUME UNCHANGED vars PROVE Goal
    OBVIOUS
  <2>1. UNCHANGED books
    BY DEF vars, books
  <2>2. ReadStill'
    BY <1>0 DEF vars, ReadStill, ReliesOn, Unposted, Exists, IsPosted, Numbered, DutiesAllowed
  <2> QED
    BY <1>0, <1>a, <1>b, <2>1, <2>2, SameBooks
<1>2. NextMonth => Goal
  <2> SUFFICES ASSUME NextMonth PROVE Goal
    OBVIOUS
  <2>1. UNCHANGED books
    BY DEF NextMonth
  <2>2. ReadStill'
    BY <1>0 DEF NextMonth, books, ReadStill, ReliesOn, Unposted, Exists, IsPosted,
                Numbered, DutiesAllowed
  <2> QED
    BY <1>0, <1>a, <1>b, <2>1, <2>2, SameBooks
<1>3. ASSUME NEW s \in Slots
      PROVE  /\ \A p \in Periods : LockAccountingPeriod(s, p) => Goal
             /\ \A p \in Periods : UnlockAccountingPeriod(s, p) => Goal
             /\ Abandon(s) => Goal
  <2> DEFINE Answered == slot'[s] = Idle /\ \A t \in Slots \ {s} : slot'[t] = slot[t]
  <2>1. \A p \in Periods : LockAccountingPeriod(s, p) \/ UnlockAccountingPeriod(s, p)
                             => UNCHANGED books /\ Answered
    BY DEF LockAccountingPeriod, UnlockAccountingPeriod, Free
  <2>2. Abandon(s) => UNCHANGED books /\ Answered
    BY <1>0, OtherSlots DEF Abandon
  <2>3. ASSUME UNCHANGED books, Answered PROVE Goal
    <3>1. ReliesOn(slot[s])'
      BY <2>3, IdleRelies DEF ReliesOn
    <3>2. ReadStill'
      BY <1>0, <2>3, <3>1, ReaderAlone
    <3> QED
      BY <1>0, <1>a, <1>b, <2>3, <3>2, SameBooks
  <2> HIDE DEF Answered, Goal
  <2> QED
    BY <2>1, <2>2, <2>3
<1>4. ASSUME NEW s \in Slots
      PROVE  /\ \A u \in Users, v \in Ids : ApproveRead(s, u, v) => Goal
             /\ \A v \in Ids, st \in Statuses \ {"posted"} : UpdateRead(s, v, st) => Goal
             /\ \A u \in Users, v \in Ids : PostRead(s, u, v) => Goal
             /\ PostCheck(s) => Goal
             /\ PostStart(s) => Goal
             /\ \A v \in Ids : ReverseRead(s, v) => Goal
  <2>1. ReadStill' /\ UNCHANGED books => Goal
    BY <1>0, <1>a, <1>b, SameBooks
  <2> QED
    BY <2>1, ReadOrderly
<1>5. ASSUME NEW s \in Slots, NotRebuilt
      PROVE  /\ \A t \in Template, a \in Amounts : CreateVoucherFromTemplate(s, t, a) => Goal
             /\ \A e \in Events, built \in SUBSET Analysis, a \in Amounts,
                   st \in Statuses \ {"posted"} : AnalyzeEvent(s, e, built, a, st) => Goal
             /\ ApproveCommit(s) => Goal
             /\ UpdateCommit(s) => Goal
             /\ \A r \in Reversal : ReverseCommit(s, r) => Goal
  <2>1. OrderlyInv' /\ PostedKept /\ entry' = entry => Goal
    BY <1>b DEF OtherSteps
  <2> QED
    BY <1>0, <1>5, <2>1, CreateOrderly, AnalyzeOrderly, ApproveOrderly, UpdateOrderly,
       ReverseOrderly
<1>6. ASSUME NEW s \in Slots PROVE PostCommit(s) => Goal
  BY <1>0, PostOrderly
<1> HIDE DEF Goal
<1>7. ASSUME Next, NotRebuilt PROVE Goal
  BY <1>2, <1>3, <1>4, <1>5, <1>6, <1>7 DEF Next
<1>8. Goal
  BY <1>1, <1>7
<1> QED
  BY <1>8 DEF Goal

LEMMA OrderlyInvariance == Spec /\ Orderly => []OrderlyInv
<1>1. OrderlyInv /\ PostsAlone /\ [NotRebuilt]_vars /\ [Next]_vars => OrderlyInv'
  BY OrderlyStep
<1> QED
  BY <1>1, OrderlyInit, PTL DEF Spec, Orderly

(* What is posted was approved by another than who posted it, as long as   *)
(* no approval and no analysis comes between the steps of its posting: the *)
(* reviewer that the posting compared with its user is still the row's.    *)
THEOREM DutiesAreSeparated == Spec /\ Orderly => []DutiesSeparated
<1>1. OrderlyInv => DutiesSeparated
  BY DEF OrderlyInv, RowsAgree, PostedSoundly, DutiesSeparated
<1> QED
  BY <1>1, OrderlyInvariance, PTL

(* Under the same hypotheses a voucher's row, its entries and its workflow *)
(* run agree, whatever else overlaps.                                      *)
THEOREM LifecyclesAgree == Spec /\ Orderly => []LifecycleAgrees
<1>1. OrderlyInv => LifecycleAgrees
  BY DEF OrderlyInv, RowsAgree, PostedSoundly, LifecycleAgrees
<1> QED
  BY <1>1, OrderlyInvariance, PTL

(* Under the same hypotheses no step rewrites or removes a posted row: an  *)
(* approval or an edit finds the draft it read, or none, and an analysis   *)
(* deletes only vouchers of events none of which is posted.                *)
THEOREM PostedRowsAreFinal == Spec /\ Orderly => PostedIsFinal
<1>1. OrderlyInv /\ PostsAlone /\ [NotRebuilt]_vars /\ [Next]_vars =>
        [\A v \in Ids : IsPosted(v) => voucher'[v] = voucher[v]]_vars
  BY OrderlyStep
<1> QED
  BY <1>1, OrderlyInvariance, PTL DEF Spec, Orderly, PostedIsFinal

-----------------------------------------------------------------------------
(* The ledger implements the append-only book.                             *)

(* What is entered is what is posted, under its period, word and number.   *)
LEMMA BookOfPosted ==
  ASSUME OrderlyInv, NEW v \in Ids
  PROVE  /\ IsPosted(v) =>
              /\ ledgerBook[v] = [lines |-> voucher[v].lines, period |-> voucher[v].period,
                                  word |-> voucher[v].word, number |-> voucher[v].seq,
                                  reverses |-> voucher[v].reverses]
              /\ ledgerBook[v].lines = voucher[v].lines
              /\ ledgerBook[v].period = voucher[v].period
              /\ ledgerBook[v].word = voucher[v].word
              /\ ledgerBook[v].number = voucher[v].seq
              /\ ledgerBook[v].reverses = voucher[v].reverses
         /\ ~IsPosted(v) => ledgerBook[v] = Book!Blank
<1>1. ASSUME IsPosted(v)
      PROVE  ledgerBook[v] = [lines |-> voucher[v].lines, period |-> voucher[v].period,
                              word |-> voucher[v].word, number |-> voucher[v].seq,
                              reverses |-> voucher[v].reverses]
  BY <1>1 DEF OrderlyInv, RowsAgree, PostedSoundly, ledgerBook
<1>2. ASSUME ~IsPosted(v) PROVE ledgerBook[v] = Book!Blank
  BY <1>2 DEF OrderlyInv, RowsAgree, ledgerBook, Book!Blank
<1> QED
  BY <1>1, <1>2

LEMMA EnteredIsPosted ==
  ASSUME OrderlyInv, NEW v \in Ids
  PROVE  v \in Book!Entered <=> IsPosted(v)
<1>1. CASE IsPosted(v)
  <2>1. ledgerBook[v].number = voucher[v].seq
    BY <1>1, BookOfPosted
  <2>2. voucher[v].seq > 0 /\ voucher[v].seq \in Nat
    BY <1>1, RowShape, PostedExist DEF OrderlyInv, IInv, RowsAgree, PostedSoundly, Voucher
  <2> QED
    BY <1>1, <2>1, <2>2 DEF Book!Entered, Book!Blank
<1>2. CASE ~IsPosted(v)
  BY <1>2, BookOfPosted DEF Book!Entered
<1> QED
  BY <1>1, <1>2

LEMMA SeriesIsNumbered ==
  ASSUME OrderlyInv, NEW p, NEW w
  PROVE  Book!InSeries(p, w) = Numbered(p, w)
<1>1. \A v \in Ids : v \in Book!Entered <=> IsPosted(v)
  BY EnteredIsPosted
<1>2. Book!Entered \subseteq Ids
  BY DEF Book!Entered
<1>3. \A v \in Ids : IsPosted(v) => /\ ledgerBook[v].period = voucher[v].period
                                    /\ ledgerBook[v].word = voucher[v].word
  BY BookOfPosted
<1>4. \A v \in Ids : IsPosted(v) => Exists(v)
  BY PostedExist
<1> QED
  BY <1>1, <1>2, <1>3, <1>4 DEF Book!InSeries, Numbered

(* The number a post computes, max + 1, is one more than the postings of   *)
(* the series: the numbers in use map onto 1..n - 1 one to one.            *)
LEMMA NextIsCount ==
  ASSUME OrderlyInv, NEW p \in Periods, NEW w \in Words, NEW n \in NextSeqs(p, w)
  PROVE  /\ IsFiniteSet(Numbered(p, w))
         /\ n = Cardinality(Numbered(p, w)) + 1
<1> DEFINE S == Numbered(p, w)
           T == 1..(n - 1)
           f == [v \in S |-> voucher[v].seq]
<1>1. /\ n \in Nat \ {0}
      /\ \A v \in S : voucher[v].seq \in T
      /\ \A k \in T : \E v \in S : voucher[v].seq = k
  BY SeriesBelow
<1>2. \A v, x \in S : voucher[v].seq = voucher[x].seq => v = x
  BY DEF Numbered, OrderlyInv, IInv, UniqueNumbers
<1>3. IsFiniteSet(S)
  BY ConstantsAssumption, FS_Subset DEF Numbered
<1>4. IsFiniteSet(T) /\ Cardinality(T) = n - 1
  BY <1>1, FS_Interval
<1>5. f \in Bijection(S, T)
  <2> HIDE DEF S, T
  <2> QED
    BY <1>1, <1>2 DEF Bijection, Injection, Surjection, IsInjective
<1>6. Cardinality(T) = Cardinality(S)
  <2> HIDE DEF S, T, f
  <2>1. ExistsBijection(S, T)
    BY <1>5 DEF ExistsBijection
  <2> QED
    BY <1>3, <2>1, FS_Bijection
<1>7. Cardinality(S) \in Nat
  BY <1>3, FS_CardinalityType
<1> QED
  BY <1>1, <1>3, <1>4, <1>6, <1>7

(* The book counts with the same operator.                                 *)
LEMMA SameCount == \A S : Book!Cardinality(S) = Cardinality(S)
BY Zenon DEF Cardinality, Book!Cardinality

(* The month that a posting found open is open until it commits.           *)
OpenStill ==
  \A t \in Slots : slot[t].op \in {"post.checked", "post.started"}
                      => slot[t].target.period \notin locked

LEMMA OpenInit == Init => OpenStill
BY DEF Init, OpenStill, Idle

LEMMA OpenStep ==
  ASSUME TypeOK, OpenStill, [NotLocked]_vars, [Next]_vars
  PROVE  OpenStill'
<1> DEFINE Writes(r) == r.op \in {"post.checked", "post.started"}
           Kept == \A t \in Slots : Writes(slot'[t]) =>
                     Writes(slot[t]) /\ slot'[t].target = slot[t].target
<1>a. Kept /\ locked' \subseteq locked => OpenStill'
  BY DEF OpenStill
<1>1. UNCHANGED vars \/ NextMonth => OpenStill'
  BY DEF vars, NextMonth, OpenStill
<1>2. ASSUME NEW s \in Slots
      PROVE  /\ \A t \in Template, a \in Amounts : CreateVoucherFromTemplate(s, t, a) => Kept
             /\ \A u \in Users, v \in Ids : ApproveRead(s, u, v) => Kept
             /\ \A v \in Ids, st \in Statuses \ {"posted"} : UpdateRead(s, v, st) => Kept
             /\ \A u \in Users, v \in Ids : PostRead(s, u, v) => Kept
             /\ \A v \in Ids : ReverseRead(s, v) => Kept
             /\ \A p \in Periods : UnlockAccountingPeriod(s, p) => Kept
  BY DEF TypeOK, CreateVoucherFromTemplate, ApproveRead, UpdateRead, PostRead, ReverseRead,
         UnlockAccountingPeriod
<1>3. ASSUME NEW s \in Slots, Answer(s)
      PROVE  Kept
  BY <1>3, OtherSlots DEF Idle
<1>4. ASSUME NEW s \in Slots, NEW e \in Events, NEW built \in SUBSET Analysis,
             NEW a \in Amounts, NEW st \in Statuses \ {"posted"},
             AnalyzeEvent(s, e, built, a, st)
      PROVE  Kept
  <2>1. \A t \in Slots : slot[t].op = "post.started" =>
          LET r == [slot[t] EXCEPT !.hit = FALSE]
          IN  r.op = "post.started" /\ r.target = slot[t].target
    BY RequestShape DEF Writing
  <2> QED
    BY <1>4, <2>1 DEF AnalyzeEvent
<1>5. ASSUME NEW s \in Slots, PostCheck(s)
      PROVE  OpenStill'
  <2>1. slot[s] \in Posting
    BY <1>5, RequestShape DEF PostCheck
  <2>2. slot'[s].target = slot[s].target /\ \A t \in Slots \ {s} : slot'[t] = slot[t]
    BY <1>5, <2>1 DEF PostCheck, TypeOK, Posting
  <2> QED
    BY <1>5, <2>2 DEF PostCheck, OpenStill, IsLocked
<1>6. ASSUME NEW s \in Slots, PostStart(s)
      PROVE  Kept
  BY <1>6 DEF PostStart, TypeOK
<1>7. ASSUME NEW s \in Slots, NEW p \in Periods, LockAccountingPeriod(s, p), NotLocked
      PROVE  OpenStill'
  <2>1. slot' = slot /\ locked' = locked \cup {p}
    BY <1>7 DEF LockAccountingPeriod
  <2>2. \A t \in Slots : Writes(slot[t]) => slot[t].target.period # p
    BY <1>7 DEF NotLocked
  <2> QED
    BY <2>1, <2>2 DEF OpenStill
<1>8. locked' \subseteq locked \/ \E s \in Slots : \/ PostCheck(s)
                                                 \/ \E p \in Periods : LockAccountingPeriod(s, p)
  BY DEF Next, vars, CreateVoucherFromTemplate, AnalyzeEvent, ApproveRead, ApproveCommit,
         UpdateRead, UpdateCommit, PostRead, PostStart, PostCommit, ReverseRead,
         ReverseCommit, Abandon, UnlockAccountingPeriod, NextMonth
<1>9. ASSUME NEW s \in Slots
      PROVE  /\ ApproveCommit(s) => Kept
             /\ UpdateCommit(s) => Kept
             /\ PostCommit(s) => Kept
             /\ \A r \in Reversal : ReverseCommit(s, r) => Kept
             /\ Abandon(s) => Kept
  BY <1>3 DEF ApproveCommit, UpdateCommit, PostCommit, ReverseCommit, Abandon
<1> HIDE DEF Kept
<1>10. ASSUME Next, NotLocked PROVE OpenStill'
  BY <1>a, <1>1, <1>2, <1>4, <1>5, <1>6, <1>7, <1>8, <1>9, <1>10 DEF Next
<1> QED
  BY <1>1, <1>10

LEMMA OpenInvariance == Spec /\ [][NotLocked]_vars => []OpenStill
<1>1. TypeOK /\ OpenStill /\ [NotLocked]_vars /\ [Next]_vars => OpenStill'
  BY OpenStep
<1> QED
  BY <1>1, OpenInit, TypeCorrect, PTL DEF Spec

LEMMA BookInit == Init => Book!Init
BY DEF Init, ledgerBook, Book!Init, Book!Blank

(* Only locking and unlocking change which periods are locked.             *)
LEMMA LockSteps ==
  ASSUME [Next]_vars
  PROVE  \/ locked' = locked
         \/ \E p \in Periods : /\ p \notin locked /\ locked' = locked \cup {p}
                               /\ UNCHANGED books
         \/ \E p \in Periods : /\ p \in locked /\ locked' = locked \ {p}
                               /\ UNCHANGED books
BY DEF Next, vars, CreateVoucherFromTemplate, AnalyzeEvent, ApproveRead, ApproveCommit,
       UpdateRead, UpdateCommit, PostRead, PostCheck, PostStart, PostCommit, ReverseRead,
       ReverseCommit, Abandon, LockAccountingPeriod, UnlockAccountingPeriod, NextMonth,
       IsLocked

(* A number that is free, and below which all are used, is the next one.   *)
LEMMA FreeIsNext ==
  ASSUME OrderlyInv, NEW p \in Periods, NEW w \in Words, NEW n \in 1..MaxSeq,
         \A x \in Numbered(p, w) : voucher[x].seq # n,
         \A k \in 1..(n - 1) : \E x \in Numbered(p, w) : voucher[x].seq = k
  PROVE  n \in NextSeqs(p, w)
<1>0. n \in Nat \ {0}
  BY ConstantsAssumption
<1>1. ASSUME NEW x \in Numbered(p, w) PROVE voucher[x].seq < n
  <2>1. voucher[x].seq \in Nat /\ voucher[x].seq # n
    BY RowShape DEF Numbered, OrderlyInv, IInv, Voucher
  <2>2. ~(n \in 1..voucher[x].seq)
    BY DEF OrderlyInv, NumbersDense
  <2> QED
    BY <1>0, <2>1, <2>2
<1>2. n > 1 => \E x \in Numbered(p, w) : voucher[x].seq = n - 1
  <2>1. n > 1 => n - 1 \in 1..(n - 1)
    BY <1>0
  <2> QED
    BY <2>1
<1> QED
  BY <1>1, <1>2 DEF NextSeqs

(* What an orderly post writes: the draft it read, under the next number.  *)
LEMMA WhatIsPosted ==
  ASSUME OrderlyInv, OpenStill, NEW s \in Slots, PostCommit(s)
  PROVE  \E v \in Ids, u \in Users :
           \E n \in NextSeqs(voucher[v].period, voucher[v].word) :
             /\ Unposted(v) /\ voucher[v].period \notin locked
             /\ voucher' = [voucher EXCEPT ![v] = MarkPosted(voucher[v], voucher[v], n)]
             /\ entry' = [entry EXCEPT ![v] = [lines |-> voucher[v].lines,
                                               period |-> voucher[v].period,
                                               poster |-> u]]
             /\ locked' = locked
<1>0. TypeOK
  BY DEF OrderlyInv, IInv
<1>1. slot[s].id \in Ids /\ slot[s].user \in Users
  BY <1>0, RequestShape DEF PostCommit, Writing
<1>2. ReliesOn(slot[s]) /\ slot[s].op = "post.started"
  BY DEF OrderlyInv, ReadStill, PostCommit
<1>3. slot[s].target = voucher[slot[s].id] /\ slot[s].hit /\ Unposted(slot[s].id)
  BY <1>2 DEF ReliesOn, PostOps
<1>4. /\ voucher[slot[s].id].period \notin locked
      /\ slot[s].seq \in NextSeqs(voucher[slot[s].id].period, voucher[slot[s].id].word)
  <2> DEFINE p == slot[s].target.period
             w == slot[s].target.word
  <2>1. p \in Periods /\ w \in Words
    BY <1>0, <1>2, RequestShape DEF Writing, Voucher
  <2>2. /\ slot[s].seq \in 1..MaxSeq
        /\ \A k \in 1..(slot[s].seq - 1) : \E x \in Numbered(p, w) : voucher[x].seq = k
    BY <1>2 DEF ReliesOn
  <2>3. ~NumberTaken(slot[s].id, p, w, slot[s].seq)
    BY <1>3 DEF PostCommit, PostRefused
  <2>4. \A x \in Numbered(p, w) : voucher[x].seq # slot[s].seq
    BY <1>3, <2>3 DEF NumberTaken, Numbered, Unposted
  <2>5. p \notin locked
    BY <1>2 DEF OpenStill
  <2> HIDE DEF p, w
  <2>6. slot[s].seq \in NextSeqs(p, w)
    BY <2>1, <2>2, <2>4, FreeIsNext
  <2> QED
    BY <1>3, <2>5, <2>6 DEF p, w
<1>5. /\ voucher' = [voucher EXCEPT ![slot[s].id] =
                       MarkPosted(voucher[slot[s].id], voucher[slot[s].id], slot[s].seq)]
      /\ entry' = [entry EXCEPT ![slot[s].id] = [lines |-> voucher[slot[s].id].lines,
                                                 period |-> voucher[slot[s].id].period,
                                                 poster |-> slot[s].user]]
      /\ locked' = locked
  BY <1>3 DEF PostCommit
<1>6. PICK v \in Ids, u \in Users : v = slot[s].id /\ u = slot[s].user
  BY <1>1
<1> QED
  BY <1>3, <1>4, <1>5, <1>6

(* A reversal that is posted negates an entered posting no other negates.  *)
LEMMA ReversesOnePosting ==
  ASSUME OrderlyInv, NEW v \in Ids, Unposted(v), NEW posting,
         posting.reverses = voucher[v].reverses, posting.lines = voucher[v].lines
  PROVE  Book!ReversesProperly(posting)
<1> SUFFICES ASSUME voucher[v].reverses # NoVoucher
             PROVE  /\ voucher[v].reverses \in Book!Entered
                    /\ ledgerBook[voucher[v].reverses].reverses = NoVoucher
                    /\ posting.lines = -ledgerBook[voucher[v].reverses].lines
                    /\ \A x \in Book!Entered : ledgerBook[x].reverses # voucher[v].reverses
  BY DEF Book!ReversesProperly
<1>1. PICK o : o = voucher[v].reverses
  OBVIOUS
<1>2. o \in Ids
  BY <1>1, RowShape DEF OrderlyInv, IInv, Unposted, Voucher
<1>3. IsPosted(o) /\ voucher[v].lines = -voucher[o].lines
  BY <1>1 DEF OrderlyInv, ReversalsMirror, Mirrors, Unposted
<1>4. voucher[o].reverses = NoVoucher
  BY <1>1, <1>2, <1>3, PostedExist DEF OrderlyInv, IInv, ReversalIds, Unposted
<1>5. ledgerBook[o].reverses = NoVoucher /\ ledgerBook[o].lines = voucher[o].lines
  BY <1>2, <1>3, <1>4, BookOfPosted
<1>6. ASSUME NEW x \in Book!Entered
      PROVE  ledgerBook[x].reverses # o
  <2>1. x \in Ids /\ IsPosted(x)
    BY EnteredIsPosted DEF Book!Entered
  <2>2. ledgerBook[x].reverses = voucher[x].reverses /\ Exists(x) /\ x # v
    BY <2>1, BookOfPosted, PostedExist DEF Unposted
  <2> QED
    BY <1>1, <2>1, <2>2 DEF OrderlyInv, IInv, ReversedOnce, Unposted
<1> QED
  BY <1>1, <1>2, <1>3, <1>5, <1>6, EnteredIsPosted

(* A post enters one posting, under the next number of an open period.     *)
LEMMA PostEnters ==
  ASSUME OrderlyInv, OpenStill, NEW s \in Slots, PostCommit(s)
  PROVE  \E v \in Ids : Book!Enter(v)
<1>1. PICK v \in Ids, u \in Users :
        \E n \in NextSeqs(voucher[v].period, voucher[v].word) :
          /\ Unposted(v) /\ voucher[v].period \notin locked
          /\ voucher' = [voucher EXCEPT ![v] = MarkPosted(voucher[v], voucher[v], n)]
          /\ entry' = [entry EXCEPT ![v] = [lines |-> voucher[v].lines,
                                            period |-> voucher[v].period,
                                            poster |-> u]]
          /\ locked' = locked
  BY WhatIsPosted
<1>2. PICK x : x = voucher[v]
  OBVIOUS
<1>3. PICK n \in NextSeqs(x.period, x.word) :
        /\ Unposted(v) /\ x.period \notin locked
        /\ voucher' = [voucher EXCEPT ![v] = MarkPosted(x, x, n)]
        /\ entry' = [entry EXCEPT ![v] = [lines |-> x.lines, period |-> x.period,
                                          poster |-> u]]
        /\ locked' = locked
  BY <1>1, <1>2
<1>4. TypeOK /\ x \in Voucher
  BY <1>2, <1>3, RowShape DEF OrderlyInv, IInv, Unposted
<1> DEFINE posting == [lines |-> x.lines, period |-> x.period, word |-> x.word,
                       number |-> n, reverses |-> x.reverses]
<1>5. /\ x.lines \in Lines /\ x.period \in Periods /\ x.word \in Words
      /\ x.reverses \in Ids \cup {NoVoucher}
  BY <1>4 DEF Voucher
<1>6. /\ IsFiniteSet(Numbered(x.period, x.word))
      /\ n = Cardinality(Numbered(x.period, x.word)) + 1
  BY <1>5, NextIsCount
<1>7. posting # Book!Blank
  <2>1. n # 0
    BY <1>6, FS_CardinalityType
  <2> QED
    BY <2>1 DEF Book!Blank
<1>8. Book!ReversesProperly(posting)
  <2>1. posting.reverses = voucher[v].reverses /\ posting.lines = voucher[v].lines
    BY <1>2
  <2> HIDE DEF posting
  <2> QED
    BY <1>3, <2>1, ReversesOnePosting
<1>9. ledgerBook' = [ledgerBook EXCEPT ![v] = posting]
  <2>1. MarkPosted(x, x, n).word = x.word /\ MarkPosted(x, x, n).seq = n
        /\ MarkPosted(x, x, n).reverses = x.reverses
    BY <1>4 DEF MarkPosted, Voucher
  <2>2. /\ voucher'[v] = MarkPosted(x, x, n)
        /\ entry'[v] = [lines |-> x.lines, period |-> x.period, poster |-> u]
        /\ \A y \in Ids \ {v} : voucher'[y] = voucher[y] /\ entry'[y] = entry[y]
    BY <1>3, <1>4 DEF TypeOK
  <2>3. entry'[v] # NoEntry /\ entry'[v].lines = x.lines /\ entry'[v].period = x.period
    BY <2>2 DEF NoEntry
  <2>4. ledgerBook'[v] = posting
    BY <2>1, <2>2, <2>3 DEF ledgerBook
  <2>5. \A y \in Ids \ {v} : ledgerBook'[y] = ledgerBook[y]
    BY <2>2 DEF ledgerBook
  <2>6. /\ ledgerBook' = [y \in Ids |-> ledgerBook'[y]]
        /\ ledgerBook = [y \in Ids |-> ledgerBook[y]]
    BY DEF ledgerBook
  <2> HIDE DEF posting
  <2> QED
    BY <2>4, <2>5, <2>6
<1>10. ledgerBook[v] = Book!Blank /\ ledgerBook'[v] # Book!Blank
  <2>1. v \notin Book!Entered
    BY <1>3, EnteredIsPosted DEF Unposted
  <2>2. ledgerBook'[v] = posting
    BY <1>9 DEF ledgerBook
  <2> QED
    BY <1>7, <2>1, <2>2 DEF Book!Entered
<1>11. n = Cardinality(Book!InSeries(x.period, x.word)) + 1
  BY <1>6, SeriesIsNumbered
<1>12. posting = [lines |-> x.lines, period |-> x.period, word |-> x.word,
                  number |-> Cardinality(Book!InSeries(x.period, x.word)) + 1,
                  reverses |-> x.reverses]
  BY <1>11
<1> HIDE DEF posting
<1>13. Book!Enter(v)
  BY <1>3, <1>5, <1>8, <1>9, <1>10, <1>12, SameCount DEF Book!Enter
<1> QED
  BY <1>13

LEMMA SameBook ==
  ASSUME OrderlyInv, OtherSteps
  PROVE  ledgerBook' = ledgerBook
<1>1. \A v \in Ids : entry[v] # NoEntry => voucher'[v] = voucher[v]
  BY DEF OrderlyInv, RowsAgree, OtherSteps, PostedKept
<1> QED
  BY <1>1 DEF ledgerBook, OtherSteps

LEMMA BookStep ==
  ASSUME OrderlyInv, OpenStill, PostsAlone, [NotRebuilt]_vars, [Next]_vars
  PROVE  [Book!Next]_<<ledgerBook, locked>>
<1>1. CASE \E s \in Slots : PostCommit(s)
  BY <1>1, PostEnters DEF Book!Next
<1>2. CASE OtherSteps
  <2>1. ledgerBook' = ledgerBook
    BY <1>2, SameBook
  <2>2. ASSUME NEW p \in Periods, p \notin locked, locked' = locked \cup {p}
        PROVE  Book!Next
    BY <2>1, <2>2 DEF Book!Next, Book!Lock
  <2>3. ASSUME NEW p \in Periods, p \in locked, locked' = locked \ {p}
        PROVE  Book!Next
    BY <2>1, <2>3 DEF Book!Next, Book!Unlock
  <2> QED
    BY <2>1, <2>2, <2>3, LockSteps
<1> QED
  BY <1>1, <1>2, OrderlyStep

(* The ledger is an append-only book: a posting is entered once, in an     *)
(* open period, under the next number of its series, and is corrected only *)
(* by one later posting that negates it.  It is so as long as requests are *)
(* orderly and no month is locked under a posting; two postings may race   *)
(* for a number, and a reversal, an analysis or an edit may overlap them.  *)
THEOREM LedgerImplementsBook ==
  Spec /\ Orderly /\ [][NotLocked]_vars => ImplementsBook
<1>1. OrderlyInv /\ OpenStill /\ PostsAlone /\ [NotRebuilt]_vars /\ [Next]_vars
        => [Book!Next]_<<ledgerBook, locked>>
  BY BookStep
<1> QED
  BY <1>1, BookInit, OrderlyInvariance, OpenInvariance, PTL
     DEF Spec, Orderly, ImplementsBook, Book!Spec
=============================================================================
