---------------------- MODULE BankReconciliationProofs ----------------------
(***************************************************************************)
(* What the program matches by itself is close, for any number of runs,    *)
(* lines, vouchers and users, and for every setting of the rules whose     *)
(* threshold is above what the score gives without the amount.  The        *)
(* balances of a day agree once the matches do.  What a closed             *)
(* reconciliation says is changed only by closings that had found the day  *)
(* open.  That a line is raised once rests on one run being under way at a *)
(* time.                                                                   *)
(***************************************************************************)
EXTENDS BankReconciliation, Sums

(* 30 for the day, 20 for keywords, 10 for a name and 15 for an amount     *)
(* within a hundred yuan are not enough.  The rules a company is given at  *)
(* first are 85 and a cent.                                                *)
Cautious == AutoConfirmThreshold > 75 /\ Tolerance <= 100

LEMMA MinOfTwo ==
  ASSUME NEW a \in Int, NEW b \in Int
  PROVE  Min({a, b}) \in Int /\ Min({a, b}) <= a /\ Min({a, b}) <= b
<1>1. \E x \in {a, b} : \A y \in {a, b} : x <= y
  <2>1. CASE a <= b
    BY <2>1
  <2>2. CASE ~(a <= b)
    BY <2>2
  <2> QED
    BY <2>1, <2>2
<1> QED
  BY <1>1 DEF Min

LEMMA DifferenceType ==
  ASSUME NEW l \in Lines, NEW v \in Vouchers
  PROVE  Difference(l, v) \in Int
BY BankAssumption DEF BankAssumption, Difference, Abs

(* Without the amount a voucher does not reach 76.                         *)
LEMMA FarScoresLow ==
  ASSUME NEW l \in Lines, NEW v \in Vouchers, Tolerance <= 100, Difference(l, v) > 100
  PROVE  Score(l, v) \in Int /\ Score(l, v) <= 75
<1> DEFINE amountScore == AmountScore(Difference(l, v))
           dateScore   == DateScore(Abs(LineDay[l] - Created[v]))
<1>1. amountScore \in Int /\ amountScore <= 15
  BY DifferenceType, BankAssumption DEF BankAssumption, AmountScore
<1>2. dateScore \in Int /\ dateScore <= 30
  <2>1. Abs(LineDay[l] - Created[v]) \in Int
    BY BankAssumption DEF BankAssumption, Abs
  <2> QED
    BY <2>1 DEF DateScore
<1>3. KeywordScore(l, v) \in Int /\ KeywordScore(l, v) <= 20
  <2>1. Keywords[l][v] \in Int
    BY BankAssumption DEF BankAssumption
  <2> DEFINE weight == Keywords[l][v]
  <2>2. KeywordScore(l, v) = Min({weight, 20})
    BY DEF KeywordScore
  <2>3. weight \in Int
    BY <2>1
  <2> HIDE DEF weight
  <2> QED
    BY <2>2, <2>3, MinOfTwo
<1>4. NameBonus[l][v] \in Int /\ NameBonus[l][v] <= 10
  BY BankAssumption DEF BankAssumption
<1> HIDE DEF amountScore, dateScore
<1> DEFINE total == amountScore + dateScore + KeywordScore(l, v) + NameBonus[l][v]
<1>5. total \in Int /\ total <= 75
  BY <1>1, <1>2, <1>3, <1>4
<1>6. Score(l, v) = Min({100, total})
  BY DEF Score, amountScore, dateScore
<1> HIDE DEF total
<1> QED
  BY <1>5, <1>6, MinOfTwo

LEMMA ConfidentIsClose ==
  ASSUME Cautious, NEW l \in Lines, NEW v \in Vouchers, Confident(Score(l, v))
  PROVE  Difference(l, v) <= 100
BY FarScoresLow, DifferenceType, BankAssumption DEF Cautious, Confident, BankAssumption

-----------------------------------------------------------------------------
(* Types.                                                                  *)

Calls == {Idle} \cup Matching \cup Raising \cup Marking \cup Confirming \cup Closing

LEMMA BalanceType ==
  /\ \A rows \in SUBSET Lines : IsFiniteSet(rows) /\ BalanceOf(LineAmount, rows) \in Int
  /\ \A rows \in SUBSET Vouchers : IsFiniteSet(rows) /\ BalanceOf(BankAmount, rows) \in Int
<1>1. /\ \A rows \in SUBSET Lines : IsFiniteSet(rows)
      /\ \A rows \in SUBSET Vouchers : IsFiniteSet(rows)
  BY BankAssumption, FS_Subset DEF BankAssumption
<1>2. (\A l \in Lines : LineAmount[l] \in Int) /\ (\A v \in Vouchers : BankAmount[v] \in Int)
  BY BankAssumption DEF BankAssumption
<1>3. \A rows \in SUBSET Lines : BalanceOf(LineAmount, rows) \in Int
  BY <1>1, <1>2, SumType DEF BalanceOf
<1>4. \A rows \in SUBSET Vouchers : BalanceOf(BankAmount, rows) \in Int
  BY <1>1, <1>2, SumType DEF BalanceOf
<1> QED
  BY <1>1, <1>3, <1>4

LEMMA CallShape ==
  ASSUME NEW call \in Calls
  PROVE  /\ call.op = "match" => call \in Matching
         /\ call.op = "raise" => call \in Raising
         /\ call.op = "mark" => call \in Marking
         /\ call.op = "confirm" => call \in Confirming
         /\ call.op \in {"bank", "book", "check", "write"} => call \in Closing
         /\ call # Idle <=> call.op # "idle"
BY DEF Calls, Idle, Matching, Raising, Marking, Confirming, Closing

(* A run only raises lines that are imported, which they stay.             *)
Imported ==
  \A s \in Slots :
    /\ slot[s].op \in {"raise", "mark"} => \A l \in slot[s].todo : line[l] # NoRow
    /\ slot[s].op = "mark" => line[slot[s].line] # NoRow

LEMMA TypeInit == Init => TypeOK /\ Imported
BY DEF Init, TypeOK, Imported, Idle

(* A step that changes nothing but a call.                                 *)
LEMMA TypeCalled ==
  ASSUME TypeOK, UNCHANGED <<statements, sealed>>, NEW s \in Slots, NEW call \in Calls,
         slot' = [slot EXCEPT ![s] = call]
  PROVE  TypeOK'
BY DEF TypeOK, statements, Calls

LEMMA TypeStep == TypeOK /\ Imported /\ [Next]_vars => TypeOK'
<1> SUFFICES ASSUME TypeOK, Imported, [Next]_vars PROVE TypeOK'
  OBVIOUS
<1>a. \A s \in Slots : slot[s] \in Calls
  BY DEF TypeOK, Calls
<1>b. Idle \in Calls
  BY DEF Calls
<1>c. {"unmatched", "auto", "manual"} \subseteq Statuses
  BY BankAssumption DEF BankAssumption
<1>0. CASE UNCHANGED vars
  BY <1>0 DEF vars, TypeOK
<1>1. ASSUME NEW v \in Vouchers, PostVoucher(v) PROVE TypeOK'
  BY <1>1 DEF PostVoucher, TypeOK
<1>2. ASSUME NEW l \in Lines, ImportLine(l) PROVE TypeOK'
  BY <1>2, <1>c DEF ImportLine, TypeOK, Line
<1>3. ASSUME NEW l \in Lines, NEW status \in Statuses, NEW v \in Vouchers \cup {NoVoucher},
             MatchStatement(l, status, v)
      PROVE  TypeOK'
  BY <1>3 DEF MatchStatement, TypeOK, Line
<1>4. ASSUME NEW c \in Candidates, RejectCandidate(c) PROVE TypeOK'
  <2>1. candidate' = [candidate EXCEPT ![c].status = "rejected"] /\ candidate[c] \in Candidate
    BY <1>4 DEF RejectCandidate, TypeOK
  <2>2. candidate' \in [Candidates -> Candidate \cup {NoRow}]
    BY <2>1 DEF TypeOK, Candidate
  <2> QED
    BY <1>4, <2>2 DEF RejectCandidate, TypeOK
<1>5. ASSUME NEW s \in Slots, NEW batch \in SUBSET Lines, RunReconciliation(s, batch)
      PROVE  TypeOK'
  <2> DEFINE call == [op |-> "match", todo |-> batch, known |-> posted]
  <2>1. call \in Calls
    BY DEF TypeOK, Calls, Matching
  <2>2. slot' = [slot EXCEPT ![s] = call] /\ UNCHANGED <<statements, sealed>>
    BY <1>5 DEF RunReconciliation
  <2> HIDE DEF call
  <2> QED
    BY <2>1, <2>2, TypeCalled
<1>6. ASSUME NEW s \in Slots, NEW l \in Lines, MatchLine(s, l) PROVE TypeOK'
  <2>1. slot[s] \in Matching
    BY <1>a, <1>6, CallShape DEF MatchLine
  <2>2. [slot[s] EXCEPT !.todo = slot[s].todo \ {l}] \in Calls
    BY <2>1 DEF Matching, Calls
  <2>3. slot' \in [Slots -> Calls]
    BY <1>6, <2>2 DEF MatchLine, TypeOK, Calls
  <2>4. line' \in [Lines -> Line \cup {NoRow}]
    <3>1. \A v \in Best(l, slot[s].known) : [status |-> "auto", voucher |-> v] \in Line
      BY <2>1, <1>c DEF Best, Matching, Line
    <3>2. line' = line \/ \E v \in Best(l, slot[s].known) :
                            line' = [line EXCEPT ![l] = [status |-> "auto", voucher |-> v]]
      BY <1>6 DEF MatchLine
    <3> QED
      BY <3>1, <3>2 DEF TypeOK
  <2>5. candidate' \in [Candidates -> Candidate \cup {NoRow}]
    <3>1. \A v \in Best(l, slot[s].known) :
            [status |-> "pending", line |-> l, voucher |-> v] \in Candidate
      BY <2>1 DEF Best, Matching, Candidate
    <3>2. candidate' = candidate \/ \E v \in Best(l, slot[s].known), c \in FreshCandidate :
            candidate' = [candidate EXCEPT ![c] =
              [status |-> "pending", line |-> l, voucher |-> v]]
      BY <1>6 DEF MatchLine
    <3> QED
      BY <3>1, <3>2 DEF TypeOK
  <2>6. UNCHANGED <<posted, events, sealed>>
    BY <1>6 DEF MatchLine
  <2> QED
    BY <2>3, <2>4, <2>5, <2>6 DEF TypeOK, Calls
<1>7. ASSUME NEW s \in Slots, NEW aged \in SUBSET Lines, FindAged(s, aged) PROVE TypeOK'
  <2> DEFINE call == [op |-> "raise", todo |-> aged]
  <2>1. call \in Calls
    BY DEF Calls, Raising
  <2>2. slot' = [slot EXCEPT ![s] = call] /\ UNCHANGED <<statements, sealed>>
    BY <1>7 DEF FindAged
  <2> HIDE DEF call
  <2> QED
    BY <2>1, <2>2, TypeCalled
<1>8. ASSUME NEW s \in Slots, NEW l \in Lines, RaiseEvent(s, l) PROVE TypeOK'
  <2>1. slot[s] \in Raising
    BY <1>a, <1>8, CallShape DEF RaiseEvent
  <2>2. [op |-> "mark", todo |-> slot[s].todo \ {l}, line |-> l] \in Marking
    BY <2>1 DEF Raising, Marking
  <2>3. events' \in [Lines -> Nat]
    BY <1>8 DEF RaiseEvent, TypeOK
  <2> QED
    BY <1>8, <2>2, <2>3 DEF RaiseEvent, TypeOK
<1>9. ASSUME NEW s \in Slots, MarkUnmatched(s) PROVE TypeOK'
  <2>1. slot[s] \in Marking
    BY <1>a, <1>9, CallShape DEF MarkUnmatched
  <2>2. [op |-> "raise", todo |-> slot[s].todo] \in Raising
    BY <2>1 DEF Raising, Marking
  <2>3. slot' \in [Slots -> Calls]
    BY <1>9, <2>2 DEF MarkUnmatched, TypeOK, Calls
  <2>4. line[slot[s].line] \in Line
    BY <1>9, <2>1 DEF MarkUnmatched, Imported, TypeOK, Marking
  <2>5. line' \in [Lines -> Line \cup {NoRow}]
    BY <1>9, <1>c, <2>4 DEF MarkUnmatched, TypeOK, Line
  <2> QED
    BY <1>9, <2>3, <2>5 DEF MarkUnmatched, TypeOK, Calls
<1>10. ASSUME NEW s \in Slots, NEW c \in Candidates, ConfirmCandidate(s, c) PROVE TypeOK'
  <2>1. candidate[c] \in Candidate
    BY <1>10 DEF ConfirmCandidate, TypeOK
  <2>2. candidate' \in [Candidates -> Candidate \cup {NoRow}]
    BY <1>10, <2>1 DEF ConfirmCandidate, TypeOK, Candidate
  <2>3. [op |-> "confirm", line |-> candidate[c].line, voucher |-> candidate[c].voucher] \in Confirming
    BY <2>1 DEF Candidate, Confirming
  <2> QED
    BY <1>10, <2>2, <2>3 DEF ConfirmCandidate, TypeOK
<1>11. ASSUME NEW s \in Slots, ConfirmLine(s) PROVE TypeOK'
  <2>1. slot[s] \in Confirming
    BY <1>a, <1>11, CallShape DEF ConfirmLine
  <2>2. [status |-> "manual", voucher |-> slot[s].voucher] \in Line
    BY <2>1, <1>c DEF Confirming, Line
  <2>3. line' \in [Lines -> Line \cup {NoRow}]
    BY <1>11, <2>2 DEF ConfirmLine, TypeOK
  <2> QED
    BY <1>11, <2>3 DEF ConfirmLine, TypeOK
<1>12. ASSUME NEW s \in Slots, NEW day \in Days, CloseReconciliation(s, day) PROVE TypeOK'
  <2> DEFINE book == BookBalance(day)
             call == [op |-> "bank", day |-> day, book |-> book, bankOnly |-> {}, bookOnly |-> {}]
  <2>1. book \in Int
    BY BalanceType DEF BookBalance, Entered, TypeOK
  <2>2. slot' = [slot EXCEPT ![s] = call] /\ UNCHANGED <<statements, sealed>>
    BY <1>12 DEF CloseReconciliation
  <2> HIDE DEF book
  <2>3. call \in Calls
    BY <2>1 DEF Calls, Closing
  <2> HIDE DEF call
  <2> QED
    BY <2>2, <2>3, TypeCalled
<1>13. ASSUME NEW s \in Slots, ReadBankOnly(s) PROVE TypeOK'
  <2> DEFINE items == BankOnly(slot[s].day)
  <2>1. slot[s] \in Closing
    BY <1>a, <1>13, CallShape DEF ReadBankOnly
  <2>2. items \in SUBSET Lines
    BY DEF BankOnly, Unmatched
  <2>3. slot' = [slot EXCEPT ![s].op = "book", ![s].bankOnly = items]
        /\ UNCHANGED <<statements, sealed>>
    BY <1>13 DEF ReadBankOnly
  <2> HIDE DEF items
  <2>4. slot' \in [Slots -> Calls]
    BY <2>1, <2>2, <2>3 DEF TypeOK, Closing, Calls
  <2> QED
    BY <2>3, <2>4 DEF TypeOK, Calls, statements
<1>14. ASSUME NEW s \in Slots, ReadBookOnly(s) PROVE TypeOK'
  <2> DEFINE items == BookOnly(slot[s].day)
  <2>1. slot[s] \in Closing
    BY <1>a, <1>14, CallShape DEF ReadBookOnly
  <2>2. items \in SUBSET Vouchers
    BY DEF BookOnly, Entered, TypeOK
  <2>3. slot' = [slot EXCEPT ![s].op = "check", ![s].bookOnly = items]
        /\ UNCHANGED <<statements, sealed>>
    BY <1>14 DEF ReadBookOnly
  <2> HIDE DEF items
  <2>4. slot' \in [Slots -> Calls]
    BY <2>1, <2>2, <2>3 DEF TypeOK, Closing, Calls
  <2> QED
    BY <2>3, <2>4 DEF TypeOK, Calls, statements
<1>15. ASSUME NEW s \in Slots, CheckReconciliation(s) PROVE TypeOK'
  <2>1. slot[s] \in Closing
    BY <1>a, <1>15, CallShape DEF CheckReconciliation
  <2>2. slot' \in [Slots -> Calls]
    BY <1>15, <2>1 DEF CheckReconciliation, TypeOK, Closing, Calls
  <2> QED
    BY <1>15, <2>2 DEF CheckReconciliation, TypeOK, Calls, statements
<1>16. ASSUME NEW s \in Slots, SealReconciliation(s) PROVE TypeOK'
  <2>1. slot[s] \in Closing
    BY <1>a, <1>16, CallShape DEF SealReconciliation
  <2>2. [status |-> "closed", book |-> slot[s].book, bankOnly |-> slot[s].bankOnly,
         bookOnly |-> slot[s].bookOnly] \in Snapshot
    BY <2>1 DEF Closing, Snapshot
  <2>3. sealed' \in [Days -> Snapshot \cup {NoRow}]
    BY <1>16, <2>2 DEF SealReconciliation, TypeOK
  <2> QED
    BY <1>16, <2>3 DEF SealReconciliation, TypeOK, statements
<1>17. ASSUME NEW s \in Slots, Stop(s) PROVE TypeOK'
  BY <1>17, <1>b, TypeCalled DEF Stop
<1> QED
  BY <1>0, <1>1, <1>2, <1>3, <1>4, <1>5, <1>6, <1>7, <1>8, <1>9, <1>10, <1>11,
     <1>12, <1>13, <1>14, <1>15, <1>16, <1>17 DEF Next

(* Which steps raise lines, and that no row is ever deleted.               *)
LEMMA RunSteps ==
  ASSUME TypeOK, [Next]_vars
  PROVE  /\ \A s \in Slots : slot'[s].op \in {"raise", "mark"} =>
              \/ slot'[s] = slot[s]
              \/ \E aged \in SUBSET Lines : FindAged(s, aged)
              \/ \E l \in Lines : RaiseEvent(s, l)
              \/ MarkUnmatched(s)
         /\ UNCHANGED events \/ \E s \in Slots, l \in Lines : RaiseEvent(s, l)
         /\ \A l \in Lines : line[l] # NoRow => line'[l] # NoRow
<1> DEFINE Raises(s) == \/ \E aged \in SUBSET Lines : FindAged(s, aged)
                        \/ \E l \in Lines : RaiseEvent(s, l)
                        \/ MarkUnmatched(s)
           Goal == /\ \A s \in Slots : slot'[s].op \in {"raise", "mark"} =>
                        slot'[s] = slot[s] \/ Raises(s)
                   /\ UNCHANGED events \/ \E s \in Slots, l \in Lines : RaiseEvent(s, l)
                   /\ \A l \in Lines : line[l] # NoRow => line'[l] # NoRow
<1>a. \A s \in Slots : slot[s] \in Calls
  BY DEF TypeOK, Calls
<1>0. CASE UNCHANGED vars
  BY <1>0 DEF vars
<1>1. ASSUME NEW v \in Vouchers, PostVoucher(v) PROVE Goal
  BY <1>1 DEF PostVoucher
<1>2. ASSUME NEW l \in Lines, ImportLine(l) PROVE Goal
  BY <1>2 DEF ImportLine, TypeOK, NoRow
<1>3. ASSUME NEW l \in Lines, NEW status \in Statuses, NEW v \in Vouchers \cup {NoVoucher},
             MatchStatement(l, status, v)
      PROVE  Goal
  BY <1>3 DEF MatchStatement, TypeOK, NoRow
<1>4. ASSUME NEW c \in Candidates, RejectCandidate(c) PROVE Goal
  BY <1>4 DEF RejectCandidate
<1>b. ASSUME NEW s \in Slots, slot'[s].op \notin {"raise", "mark"},
             \A t \in Slots \ {s} : slot'[t] = slot[t],
             UNCHANGED events, \A l \in Lines : line[l] # NoRow => line'[l] # NoRow
      PROVE  Goal
  BY <1>b
<1>c. ASSUME NEW s \in Slots, Raises(s),
             \A t \in Slots \ {s} : slot'[t] = slot[t],
             UNCHANGED events \/ \E l \in Lines : RaiseEvent(s, l),
             \A l \in Lines : line[l] # NoRow => line'[l] # NoRow
      PROVE  Goal
  BY <1>c
<1> HIDE DEF Goal, Raises
<1>5. ASSUME NEW s \in Slots, NEW batch \in SUBSET Lines, RunReconciliation(s, batch) PROVE Goal
  BY <1>5, <1>b DEF RunReconciliation, statements, TypeOK
<1>6. ASSUME NEW s \in Slots, NEW l \in Lines, MatchLine(s, l) PROVE Goal
  <2>1. slot[s] \in Matching
    BY <1>a, <1>6, CallShape DEF MatchLine
  <2>2. slot'[s].op = "match" /\ (\A t \in Slots \ {s} : slot'[t] = slot[t]) /\ UNCHANGED events
    BY <1>6, <2>1 DEF MatchLine, TypeOK, Matching
  <2>3. line' = line \/ \E v : line' = [line EXCEPT ![l] = [status |-> "auto", voucher |-> v]]
    BY <1>6 DEF MatchLine
  <2>4. \A k \in Lines : line[k] # NoRow => line'[k] # NoRow
    BY <2>3 DEF TypeOK, NoRow
  <2> QED
    BY <1>b, <2>2, <2>4
<1>7. ASSUME NEW s \in Slots, NEW aged \in SUBSET Lines, FindAged(s, aged) PROVE Goal
  <2>1. Raises(s)
    BY <1>7 DEF Raises
  <2> QED
    BY <1>7, <1>c, <2>1 DEF FindAged, statements, TypeOK
<1>8. ASSUME NEW s \in Slots, NEW l \in Lines, RaiseEvent(s, l) PROVE Goal
  <2>1. Raises(s)
    BY <1>8 DEF Raises
  <2>2. (\A t \in Slots \ {s} : slot'[t] = slot[t]) /\ line' = line
    BY <1>8 DEF RaiseEvent, TypeOK
  <2> QED
    BY <1>8, <1>c, <2>1, <2>2
<1>9. ASSUME NEW s \in Slots, MarkUnmatched(s) PROVE Goal
  <2>1. Raises(s)
    BY <1>9 DEF Raises
  <2>2. \A l \in Lines : line[l] # NoRow => line'[l] # NoRow
    <3>1. \A l \in Lines : line[l] # NoRow => line[l] \in Line
      BY DEF TypeOK
    <3>2. \A l \in Lines : line'[l] = line[l] \/ line'[l] = [line[l] EXCEPT !.status = "unmatched"]
      BY <1>9 DEF MarkUnmatched, TypeOK
    <3> QED
      BY <3>1, <3>2 DEF Line, NoRow
  <2>3. (\A t \in Slots \ {s} : slot'[t] = slot[t]) /\ UNCHANGED events
    BY <1>9 DEF MarkUnmatched, TypeOK
  <2> QED
    BY <1>c, <2>1, <2>2, <2>3
<1>10. ASSUME NEW s \in Slots, NEW c \in Candidates, ConfirmCandidate(s, c) PROVE Goal
  BY <1>10, <1>b DEF ConfirmCandidate, TypeOK
<1>11. ASSUME NEW s \in Slots, ConfirmLine(s) PROVE Goal
  BY <1>11, <1>b DEF ConfirmLine, TypeOK, NoRow, Idle
<1>12. ASSUME NEW s \in Slots, NEW day \in Days, CloseReconciliation(s, day) PROVE Goal
  BY <1>12, <1>b DEF CloseReconciliation, statements, TypeOK
<1>13. ASSUME NEW s \in Slots, ReadBankOnly(s) \/ ReadBookOnly(s) \/ CheckReconciliation(s)
       PROVE  Goal
  <2>1. slot[s] \in Closing
    BY <1>a, <1>13, CallShape DEF ReadBankOnly, ReadBookOnly, CheckReconciliation
  <2>2. /\ slot'[s].op \in {"book", "check", "write"} /\ \A t \in Slots \ {s} : slot'[t] = slot[t]
        /\ UNCHANGED <<events, line>>
    BY <1>13, <2>1
    DEF ReadBankOnly, ReadBookOnly, CheckReconciliation, statements, TypeOK, Closing
  <2> QED
    BY <1>b, <2>2
<1>14. ASSUME NEW s \in Slots, SealReconciliation(s) \/ Stop(s) PROVE Goal
  BY <1>14, <1>b DEF SealReconciliation, Stop, statements, TypeOK, Idle
<1>15. ASSUME Next PROVE Goal
  BY <1>1, <1>2, <1>3, <1>4, <1>5, <1>6, <1>7, <1>8, <1>9, <1>10, <1>11,
     <1>12, <1>13, <1>14, <1>15 DEF Next
<1> QED
  BY <1>0, <1>15 DEF Goal, Raises

LEMMA ImportedStep == TypeOK /\ Imported /\ [Next]_vars => Imported'
<1> SUFFICES ASSUME TypeOK, Imported, [Next]_vars, NEW s \in Slots,
                    slot'[s].op \in {"raise", "mark"}
             PROVE  /\ \A l \in slot'[s].todo : line'[l] # NoRow
                    /\ slot'[s].op = "mark" => line'[slot'[s].line] # NoRow
  BY DEF Imported
<1>a. \A l \in Lines : line[l] # NoRow => line'[l] # NoRow
  BY RunSteps
<1>b. slot[s] \in Calls /\ (slot[s].op = "raise" => slot[s] \in Raising)
      /\ (slot[s].op = "mark" => slot[s] \in Marking)
  BY CallShape DEF TypeOK, Calls
<1>1. CASE slot'[s] = slot[s]
  BY <1>1, <1>a, <1>b DEF Imported, Raising, Marking
<1>2. ASSUME NEW aged \in SUBSET Lines, FindAged(s, aged)
      PROVE  /\ \A l \in slot'[s].todo : line'[l] # NoRow
             /\ slot'[s].op = "mark" => line'[slot'[s].line] # NoRow
  BY <1>2, <1>a DEF FindAged, MayBeRaised, Unmatched, TypeOK, NoRow
<1>3. ASSUME NEW l \in Lines, RaiseEvent(s, l)
      PROVE  /\ \A k \in slot'[s].todo : line'[k] # NoRow
             /\ slot'[s].op = "mark" => line'[slot'[s].line] # NoRow
  BY <1>3, <1>b DEF RaiseEvent, Imported, Raising, TypeOK
<1>4. ASSUME MarkUnmatched(s)
      PROVE  /\ \A l \in slot'[s].todo : line'[l] # NoRow
             /\ slot'[s].op = "mark" => line'[slot'[s].line] # NoRow
  BY <1>4, <1>a, <1>b DEF MarkUnmatched, Imported, Marking, TypeOK
<1> QED
  BY <1>1, <1>2, <1>3, <1>4, RunSteps

(* Every variable keeps its type.                                          *)
THEOREM TypeCorrect == Spec => []TypeOK
<1>1. Spec => [](TypeOK /\ Imported)
  BY TypeInit, TypeStep, ImportedStep, PTL DEF Spec
<1> QED
  BY <1>1, PTL

-----------------------------------------------------------------------------
(* What runs write.                                                        *)

(* A run only knows vouchers that are posted, which they stay.             *)
KnownArePosted ==
  \A s \in Slots : slot[s].op = "match" => slot[s].known \subseteq posted

(* A step a list of vouchers or a match may come from.                     *)
Matches(s) == (\E batch \in SUBSET Lines : RunReconciliation(s, batch))
              \/ \E l \in Lines : MatchLine(s, l)

(* Which steps change what a run knows, or leave a line matched "auto".    *)
LEMMA MatchSteps ==
  ASSUME TypeOK, [Next]_vars
  PROVE  /\ posted \subseteq posted'
         /\ \A s \in Slots : slot'[s].op = "match" => slot'[s] = slot[s] \/ Matches(s)
         /\ \A l \in Lines : line'[l].status = "auto" =>
              line'[l] = line[l] \/ SaysAuto(l) \/ \E s \in Slots : MatchLine(s, l)
<1> DEFINE Goal ==
      /\ posted \subseteq posted'
      /\ \A s \in Slots : slot'[s].op = "match" => slot'[s] = slot[s] \/ Matches(s)
      /\ \A l \in Lines : line'[l].status = "auto" =>
           line'[l] = line[l] \/ SaysAuto(l) \/ \E s \in Slots : MatchLine(s, l)
<1>a. \A s \in Slots : slot[s] \in Calls
  BY DEF TypeOK, Calls
<1>b. ASSUME NEW s \in Slots, slot'[s].op # "match" \/ Matches(s),
             \A t \in Slots \ {s} : slot'[t] = slot[t], UNCHANGED posted,
             \A l \in Lines : line'[l].status = "auto" => line'[l] = line[l] \/ MatchLine(s, l)
      PROVE  Goal
  BY <1>b
<1>0. CASE UNCHANGED vars
  BY <1>0 DEF vars
<1>1. ASSUME NEW v \in Vouchers, PostVoucher(v) PROVE Goal
  BY <1>1 DEF PostVoucher
<1>2. ASSUME NEW l \in Lines, ImportLine(l) PROVE Goal
  BY <1>2 DEF ImportLine, TypeOK
<1>3. ASSUME NEW l \in Lines, NEW status \in Statuses, NEW v \in Vouchers \cup {NoVoucher},
             MatchStatement(l, status, v)
      PROVE  Goal
  <2>1. UNCHANGED <<posted, slot>> /\ \A k \in Lines \ {l} : line'[k] = line[k]
    BY <1>3 DEF MatchStatement
  <2>2. line'[l].status = "auto" => SaysAuto(l)
    BY <1>3 DEF MatchStatement, SaysAuto, TypeOK
  <2> QED
    BY <2>1, <2>2
<1>4. ASSUME NEW c \in Candidates, RejectCandidate(c) PROVE Goal
  BY <1>4 DEF RejectCandidate
<1> HIDE DEF Goal
<1>5. ASSUME NEW s \in Slots, NEW batch \in SUBSET Lines, RunReconciliation(s, batch) PROVE Goal
  BY <1>5, <1>b DEF RunReconciliation, Matches, statements, TypeOK
<1>6. ASSUME NEW s \in Slots, NEW l \in Lines, MatchLine(s, l) PROVE Goal
  <2>1. Matches(s) /\ UNCHANGED posted /\ \A t \in Slots \ {s} : slot'[t] = slot[t]
    BY <1>6 DEF MatchLine, Matches, TypeOK
  <2>2. line' = line \/ \E v : line' = [line EXCEPT ![l] = [status |-> "auto", voucher |-> v]]
    BY <1>6 DEF MatchLine
  <2>3. \A k \in Lines : line'[k] = line[k] \/ k = l
    BY <2>2 DEF TypeOK
  <2> QED
    BY <1>6, <1>b, <2>1, <2>3
<1>7. ASSUME NEW s \in Slots, NEW aged \in SUBSET Lines, FindAged(s, aged) PROVE Goal
  BY <1>7, <1>b DEF FindAged, statements, TypeOK
<1>8. ASSUME NEW s \in Slots, NEW l \in Lines, RaiseEvent(s, l) PROVE Goal
  BY <1>8, <1>b DEF RaiseEvent, TypeOK
<1>9. ASSUME NEW s \in Slots, MarkUnmatched(s) PROVE Goal
  <2>1. /\ slot'[s].op # "match" /\ (\A t \in Slots \ {s} : slot'[t] = slot[t])
        /\ UNCHANGED posted
    BY <1>9 DEF MarkUnmatched, TypeOK
  <2>2. \A l \in Lines : line'[l] = line[l] \/ line'[l] = [line[l] EXCEPT !.status = "unmatched"]
    BY <1>9 DEF MarkUnmatched, TypeOK
  <2>3. \A l \in Lines : line[l] \in Line \/ line[l] = NoRow
    BY DEF TypeOK
  <2>4. \A l \in Lines : line'[l].status = "auto" => line'[l] = line[l]
    BY <2>2, <2>3 DEF Line, NoRow
  <2> QED
    BY <1>b, <2>1, <2>4
<1>10. ASSUME NEW s \in Slots, NEW c \in Candidates, ConfirmCandidate(s, c) PROVE Goal
  BY <1>10, <1>b DEF ConfirmCandidate, TypeOK
<1>11. ASSUME NEW s \in Slots, ConfirmLine(s) PROVE Goal
  BY <1>11, <1>b DEF ConfirmLine, TypeOK, Idle
<1>12. ASSUME NEW s \in Slots, NEW day \in Days, CloseReconciliation(s, day) PROVE Goal
  BY <1>12, <1>b DEF CloseReconciliation, statements, TypeOK
<1>13. ASSUME NEW s \in Slots, ReadBankOnly(s) \/ ReadBookOnly(s) \/ CheckReconciliation(s)
       PROVE  Goal
  <2>1. slot[s] \in Closing
    BY <1>a, <1>13, CallShape DEF ReadBankOnly, ReadBookOnly, CheckReconciliation
  <2>2. /\ slot'[s].op \in {"book", "check", "write"} /\ \A t \in Slots \ {s} : slot'[t] = slot[t]
        /\ UNCHANGED <<posted, line>>
    BY <1>13, <2>1
    DEF ReadBankOnly, ReadBookOnly, CheckReconciliation, statements, TypeOK, Closing
  <2> QED
    BY <1>b, <2>2
<1>14. ASSUME NEW s \in Slots, SealReconciliation(s) \/ Stop(s) PROVE Goal
  BY <1>14, <1>b DEF SealReconciliation, Stop, statements, TypeOK, Idle
<1>15. ASSUME Next PROVE Goal
  BY <1>1, <1>2, <1>3, <1>4, <1>5, <1>6, <1>7, <1>8, <1>9, <1>10, <1>11,
     <1>12, <1>13, <1>14, <1>15 DEF Next
<1> QED
  BY <1>0, <1>15 DEF Goal

LEMMA KnownStep == TypeOK /\ KnownArePosted /\ [Next]_vars => KnownArePosted'
<1> SUFFICES ASSUME TypeOK, KnownArePosted, [Next]_vars, NEW s \in Slots, slot'[s].op = "match"
             PROVE  slot'[s].known \subseteq posted'
  BY DEF KnownArePosted
<1>a. posted \subseteq posted'
  BY MatchSteps
<1>1. CASE slot'[s] = slot[s]
  BY <1>1, <1>a DEF KnownArePosted
<1>2. ASSUME NEW batch \in SUBSET Lines, RunReconciliation(s, batch)
      PROVE  slot'[s].known \subseteq posted'
  BY <1>2, <1>a DEF RunReconciliation, TypeOK
<1>3. ASSUME NEW l \in Lines, MatchLine(s, l) PROVE slot'[s].known \subseteq posted'
  <2>1. slot[s] \in Matching
    BY <1>3, CallShape DEF MatchLine, TypeOK, Calls
  <2>2. slot'[s].known = slot[s].known
    BY <1>3, <2>1 DEF MatchLine, TypeOK, Matching
  <2> QED
    BY <1>3, <1>a, <2>2 DEF MatchLine, KnownArePosted
<1> QED
  BY <1>1, <1>2, <1>3, MatchSteps DEF Matches

LEMMA RunMatchesClose ==
  ASSUME Cautious, TypeOK, KnownArePosted, NEW s \in Slots, NEW l \in Lines, MatchLine(s, l),
         line'[l] # line[l]
  PROVE  line'[l].voucher \in posted /\ Difference(l, line'[l].voucher) <= 100
<1>1. slot[s].known \subseteq posted /\ posted \subseteq Vouchers
  BY DEF MatchLine, KnownArePosted, TypeOK
<1>2. PICK v \in Best(l, slot[s].known) :
        /\ Confident(Score(l, v))
        /\ line' = [line EXCEPT ![l] = [status |-> "auto", voucher |-> v]]
  BY DEF MatchLine
<1>3. v \in posted /\ v \in Vouchers
  BY <1>1 DEF Best
<1>4. Difference(l, v) <= 100
  BY <1>2, <1>3, ConfidentIsClose
<1>5. line'[l].voucher = v
  BY <1>2 DEF TypeOK
<1> QED
  BY <1>3, <1>4, <1>5

(* Whatever the program matches by itself is posted and close, for every   *)
(* instance with such rules.                                               *)
THEOREM AutoMatchesAreClose == Cautious /\ Spec => AutoIsClose
<1> SUFFICES ASSUME Cautious PROVE Spec => AutoIsClose
  OBVIOUS
<1>1. Init => KnownArePosted
  BY DEF Init, KnownArePosted, Idle
<1>2. TypeOK /\ KnownArePosted /\ [Next]_vars =>
        [\A l \in Lines :
           line'[l].status = "auto" /\ line'[l] # line[l] /\ ~SaysAuto(l) =>
             line'[l].voucher \in posted /\ Difference(l, line'[l].voucher) <= 100]_vars
  BY MatchSteps, RunMatchesClose
<1> QED
  BY <1>1, <1>2, KnownStep, TypeCorrect, PTL DEF Spec, AutoIsClose

-----------------------------------------------------------------------------
(* The balances agree once the matches do: both are the same lines and     *)
(* vouchers, but for those that are matched with each other.               *)

LEMMA BalancesAgree ==
  ASSUME TypeOK, NEW day \in Days,
         \A l \in Lines : line[l] # NoRow /\ MatchAgrees(l) /\ SameSide(l, day)
  PROVE  AdjustedDifference(day, BookBalance(day), BankOnly(day), BookOnly(day)) = 0
<1> DEFINE L == {l \in Lines : LineDay[l] <= day}
           U == BankOnly(day)
           M == L \ U
           E == Entered(day)
           O == BookOnly(day)
           h == [l \in M |-> line[l].voucher]
           T == {h[l] : l \in M}
<1>1. L \in SUBSET Lines /\ M \in SUBSET Lines /\ U \in SUBSET Lines /\ L = M \cup U /\ M \cap U = {}
  BY DEF BankOnly, Unmatched
<1>2. E \in SUBSET Vouchers /\ O \in SUBSET Vouchers
  BY DEF Entered, BookOnly, TypeOK
<1>3. \A l \in Lines : line[l].voucher \in Vouchers => line[l].status \in {"auto", "manual"}
  BY BankAssumption DEF BankAssumption, MatchAgrees
<1>4. \A l \in M : /\ line[l].voucher \in E /\ line[l].voucher \notin O
                   /\ BankAmount[line[l].voucher] = LineAmount[l]
  <2> TAKE l \in M
  <2>1. l \in Lines /\ LineDay[l] <= day /\ line[l].status # "unmatched"
    BY DEF BankOnly, Unmatched
  <2>2. line[l].voucher \in posted /\ BankAmount[line[l].voucher] = LineAmount[l]
    BY <2>1 DEF MatchAgrees
  <2>3. line[l].voucher # NoVoucher
    BY <2>2, BankAssumption DEF BankAssumption, TypeOK
  <2>4. EntryDay[line[l].voucher] <= day
    BY <2>1, <2>3 DEF SameSide
  <2> QED
    BY <2>1, <2>2, <2>4 DEF Entered, BookOnly
<1>5. \A l, k \in M : line[l].voucher = line[k].voucher => l = k
  BY <1>1, <1>4, <1>2, <1>3 DEF MatchAgrees
<1>6. E = O \cup T /\ O \cap T = {}
  <2>1. T \subseteq E /\ O \cap T = {} /\ O \subseteq E
    BY <1>4 DEF BookOnly
  <2>2. ASSUME NEW v \in E, v \notin O PROVE v \in T
    <3>1. v \in Vouchers /\ v # NoVoucher /\ EntryDay[v] <= day
      BY BankAssumption DEF BankAssumption, Entered, TypeOK
    <3>2. PICK l \in Lines : line[l].voucher = v
      BY <2>2 DEF BookOnly
    <3>3. LineDay[l] <= day
      BY <3>1, <3>2 DEF SameSide
    <3>4. line[l].status \in {"auto", "manual"}
      BY <1>3, <3>1, <3>2
    <3>5. l \in M
      BY <3>3, <3>4 DEF BankOnly, Unmatched
    <3> QED
      BY <3>2, <3>5
  <2> QED
    BY <2>1, <2>2
<1>7. (\A l \in Lines : LineAmount[l] \in Int) /\ (\A v \in Vouchers : BankAmount[v] \in Int)
  BY BankAssumption DEF BankAssumption
<1>8. \A l \in M : h[l] = line[l].voucher
  OBVIOUS
<1>9. T \in SUBSET Vouchers
  BY <1>2, <1>6
<1>10. StatementBalance(day) = BalanceOf(LineAmount, L) /\ BookBalance(day) = BalanceOf(BankAmount, E)
  BY DEF StatementBalance, BookBalance
<1> HIDE DEF L, U, M, E, O, h
<1>11. BalanceOf(LineAmount, L) = BalanceOf(LineAmount, M) + BalanceOf(LineAmount, U)
  BY <1>1, <1>7, BalanceType, SumDisjoint DEF BalanceOf
<1>12. BalanceOf(LineAmount, M) = BalanceOf(BankAmount, T)
  BY <1>1, <1>4, <1>5, <1>7, <1>8, BalanceType, SumRenamed DEF BalanceOf
<1> HIDE DEF T
<1>13. BalanceOf(BankAmount, E) = BalanceOf(BankAmount, O) + BalanceOf(BankAmount, T)
  BY <1>2, <1>6, <1>7, <1>9, BalanceType, SumDisjoint DEF BalanceOf
<1>14. /\ BalanceOf(LineAmount, M) \in Int /\ BalanceOf(LineAmount, U) \in Int
       /\ BalanceOf(BankAmount, O) \in Int
  BY <1>1, <1>2, BalanceType
<1>15. AdjustedDifference(day, BookBalance(day), U, O)
        = (StatementBalance(day) + BalanceOf(BankAmount, O))
            - (BookBalance(day) + BalanceOf(LineAmount, U))
  BY DEF AdjustedDifference
<1>16. AdjustedDifference(day, BookBalance(day), U, O) = 0
  BY <1>10, <1>11, <1>12, <1>13, <1>14, <1>15
<1> QED
  BY <1>16 DEF U, O

(* Once every line is imported and the matches agree, the balances do.     *)
THEOREM MatchedBalancesAgree == Spec => []MatchedBalances
<1>1. TypeOK => MatchedBalances
  BY BalancesAgree DEF MatchedBalances
<1> QED
  BY <1>1, TypeCorrect, PTL

-----------------------------------------------------------------------------
(* One run at a time.                                                      *)

Runs   == {s \in Slots : slot[s].op \in {"match", "raise", "mark"}}
OneRun == \A s, t \in Runs : s = t

(* The lines a run has yet to raise have not been raised.                  *)
RaiseInv ==
  /\ TypeOK /\ Imported /\ RaisedOnce
  /\ \A s \in Slots : slot[s].op \in {"raise", "mark"} => \A l \in slot[s].todo : events[l] = 0

LEMMA RaiseStep == RaiseInv /\ OneRun /\ [Next]_vars => RaiseInv'
<1> SUFFICES ASSUME RaiseInv, OneRun, [Next]_vars PROVE RaiseInv'
  OBVIOUS
<1>a. TypeOK /\ Imported /\ RaisedOnce /\ TypeOK' /\ Imported'
  BY TypeStep, ImportedStep DEF RaiseInv
<1>b. \A s \in Slots : /\ slot[s].op = "raise" => slot[s] \in Raising
                       /\ slot[s].op = "mark" => slot[s] \in Marking
  BY <1>a, CallShape DEF TypeOK, Calls
<1>1. ASSUME NEW s \in Slots, NEW l \in Lines, RaiseEvent(s, l) PROVE RaiseInv'
  <2>1. /\ slot[s].op = "raise" /\ l \in slot[s].todo /\ slot[s].todo \subseteq Lines
        /\ events' = [events EXCEPT ![l] = events[l] + 1]
        /\ slot' = [slot EXCEPT ![s] = [op |-> "mark", todo |-> slot[s].todo \ {l}, line |-> l]]
    BY <1>1, <1>b DEF RaiseEvent, Raising
  <2>2. \A k \in slot[s].todo : events[k] = 0
    BY <2>1 DEF RaiseInv
  <2>3. RaisedOnce'
    BY <1>a, <2>1, <2>2 DEF RaisedOnce, TypeOK
  <2>4. \A t \in Slots : slot'[t].op \in {"raise", "mark"} => t = s
    BY <1>a, <2>1 DEF OneRun, Runs, TypeOK
  <2>5. slot'[s].todo = slot[s].todo \ {l} /\ \A k \in slot[s].todo \ {l} : events'[k] = 0
    BY <1>a, <2>1, <2>2 DEF TypeOK
  <2> QED
    BY <1>a, <2>3, <2>4, <2>5 DEF RaiseInv
<1>2. CASE UNCHANGED events
  <2>1. RaisedOnce'
    BY <1>a, <1>2 DEF RaisedOnce
  <2>2. ASSUME NEW s \in Slots, slot'[s].op \in {"raise", "mark"}
        PROVE  \A l \in slot'[s].todo : events'[l] = 0
    <3>1. CASE slot'[s] = slot[s]
      BY <1>2, <2>2, <3>1 DEF RaiseInv
    <3>2. ASSUME NEW aged \in SUBSET Lines, FindAged(s, aged)
          PROVE  \A l \in slot'[s].todo : events'[l] = 0
      BY <1>2, <1>a, <3>2 DEF FindAged, MayBeRaised, TypeOK
    <3>3. CASE MarkUnmatched(s)
      BY <1>2, <1>a, <3>3 DEF MarkUnmatched, RaiseInv, TypeOK
    <3>4. ASSUME NEW l \in Lines, RaiseEvent(s, l) PROVE FALSE
      BY <1>2, <1>a, <3>4 DEF RaiseEvent, TypeOK
    <3> QED
      BY <1>a, <2>2, <3>1, <3>2, <3>3, <3>4, RunSteps
  <2> QED
    BY <1>a, <2>1, <2>2 DEF RaiseInv
<1> QED
  BY <1>a, <1>1, <1>2, RunSteps

(* As long as one run is under way at a time a line is raised once.        *)
THEOREM LinesAreRaisedOnce == Spec /\ []OneRun => []RaisedOnce
<1>1. Init => RaiseInv
  BY TypeInit DEF Init, RaiseInv, RaisedOnce, Idle
<1>2. RaiseInv => RaisedOnce
  BY DEF RaiseInv
<1> QED
  BY <1>1, <1>2, RaiseStep, PTL DEF Spec

-----------------------------------------------------------------------------
(* Closings.                                                               *)

(* Which steps write a reconciliation or are about to.                     *)
LEMMA SealSteps ==
  ASSUME TypeOK, [Next]_vars
  PROVE  /\ \A s \in Slots : slot'[s].op = "write" =>
              slot'[s] = slot[s] \/ CheckReconciliation(s)
         /\ UNCHANGED sealed \/ \E s \in Slots : SealReconciliation(s)
<1> DEFINE Goal == /\ \A s \in Slots : slot'[s].op = "write" =>
                        slot'[s] = slot[s] \/ CheckReconciliation(s)
                   /\ UNCHANGED sealed \/ \E s \in Slots : SealReconciliation(s)
<1>a. \A s \in Slots : slot[s] \in Calls
  BY DEF TypeOK, Calls
<1>1. ASSUME NEW s \in Slots, slot'[s].op # "write" \/ CheckReconciliation(s),
             \A t \in Slots \ {s} : slot'[t] = slot[t],
             UNCHANGED sealed \/ SealReconciliation(s)
      PROVE  Goal
  BY <1>1
<1>2. CASE UNCHANGED <<slot, sealed>>
  BY <1>2
<1>3. CASE UNCHANGED vars
  BY <1>2, <1>3 DEF vars
<1>4. /\ \A v \in Vouchers : PostVoucher(v) => Goal
      /\ \A l \in Lines : ImportLine(l) => Goal
      /\ \A l \in Lines, status \in Statuses, v \in Vouchers \cup {NoVoucher} :
            MatchStatement(l, status, v) => Goal
      /\ \A c \in Candidates : RejectCandidate(c) => Goal
  BY <1>2 DEF PostVoucher, ImportLine, MatchStatement, RejectCandidate
<1> HIDE DEF Goal
<1>5. ASSUME NEW s \in Slots, NEW batch \in SUBSET Lines, RunReconciliation(s, batch) PROVE Goal
  BY <1>1, <1>5 DEF RunReconciliation, TypeOK
<1>6. ASSUME NEW s \in Slots, NEW l \in Lines, MatchLine(s, l) PROVE Goal
  <2>1. slot[s] \in Matching
    BY <1>a, <1>6, CallShape DEF MatchLine
  <2>2. slot'[s].op = "match" /\ (\A t \in Slots \ {s} : slot'[t] = slot[t]) /\ UNCHANGED sealed
    BY <1>6, <2>1 DEF MatchLine, TypeOK, Matching
  <2> QED
    BY <1>1, <2>2
<1>7. ASSUME NEW s \in Slots, NEW aged \in SUBSET Lines, FindAged(s, aged) PROVE Goal
  BY <1>1, <1>7 DEF FindAged, TypeOK
<1>8. ASSUME NEW s \in Slots, NEW l \in Lines, RaiseEvent(s, l) PROVE Goal
  BY <1>1, <1>8 DEF RaiseEvent, TypeOK
<1>9. ASSUME NEW s \in Slots, MarkUnmatched(s) PROVE Goal
  BY <1>1, <1>9 DEF MarkUnmatched, TypeOK
<1>10. ASSUME NEW s \in Slots, NEW c \in Candidates, ConfirmCandidate(s, c) PROVE Goal
  BY <1>1, <1>10 DEF ConfirmCandidate, TypeOK
<1>11. ASSUME NEW s \in Slots, NEW day \in Days, CloseReconciliation(s, day) PROVE Goal
  BY <1>1, <1>11 DEF CloseReconciliation, TypeOK
<1>12. ASSUME NEW s \in Slots, ReadBankOnly(s) \/ ReadBookOnly(s) PROVE Goal
  <2>1. slot[s] \in Closing
    BY <1>a, <1>12, CallShape DEF ReadBankOnly, ReadBookOnly
  <2>2. /\ slot'[s].op \in {"book", "check"} /\ \A t \in Slots \ {s} : slot'[t] = slot[t]
        /\ UNCHANGED sealed
    BY <1>12, <2>1 DEF ReadBankOnly, ReadBookOnly, TypeOK, Closing
  <2> QED
    BY <1>1, <2>2
<1>13. ASSUME NEW s \in Slots, CheckReconciliation(s) PROVE Goal
  <2>1. (\A t \in Slots \ {s} : slot'[t] = slot[t]) /\ UNCHANGED sealed
    BY <1>13 DEF CheckReconciliation, TypeOK
  <2> QED
    BY <1>1, <1>13, <2>1
<1>14. ASSUME NEW s \in Slots, ConfirmLine(s) \/ Stop(s) PROVE Goal
  BY <1>1, <1>14 DEF ConfirmLine, Stop, TypeOK, Idle
<1>15. ASSUME NEW s \in Slots, SealReconciliation(s) PROVE Goal
  <2>1. slot'[s].op # "write" /\ \A t \in Slots \ {s} : slot'[t] = slot[t]
    BY <1>15 DEF SealReconciliation, TypeOK, Idle
  <2> QED
    BY <1>1, <1>15, <2>1
<1>16. ASSUME Next PROVE Goal
  BY <1>4, <1>5, <1>6, <1>7, <1>8, <1>9, <1>10, <1>11, <1>12, <1>13, <1>14, <1>15, <1>16
  DEF Next
<1> QED
  BY <1>3, <1>16 DEF Goal

(* A closing that is checked, or begun, after a day was sealed does not    *)
(* change it, and one that does is then over, however many there are.      *)
THEOREM SealedByOverlap == Spec => SealedByOverlapOnly
<1>1. TypeOK /\ [Next]_vars =>
        [\A d \in Days : sealed[d] # NoRow =>
           /\ sealed'[d] # NoRow /\ Sealing(d)' \subseteq Sealing(d)
           /\ sealed'[d] # sealed[d] => Sealing(d)' # Sealing(d)]_vars
  <2> SUFFICES ASSUME TypeOK, [Next]_vars, NEW d \in Days, sealed[d] # NoRow
               PROVE  /\ sealed'[d] # NoRow /\ Sealing(d)' \subseteq Sealing(d)
                      /\ sealed'[d] # sealed[d] => Sealing(d)' # Sealing(d)
    OBVIOUS
  <2>1. ASSUME NEW s \in Slots, slot'[s].op = "write", slot'[s].day = d
        PROVE  slot[s].op = "write" /\ slot[s].day = d
    <3>1. ASSUME CheckReconciliation(s) PROVE FALSE
      <4>1. slot[s] \in Closing
        BY <3>1, CallShape DEF CheckReconciliation, TypeOK, Calls
      <4>2. slot'[s].day = slot[s].day
        BY <3>1, <4>1 DEF CheckReconciliation, TypeOK, Closing
      <4> QED
        BY <2>1, <3>1, <4>2 DEF CheckReconciliation
    <3> QED
      BY <2>1, <3>1, SealSteps
  <2>2. Sealing(d)' \subseteq Sealing(d)
    BY <2>1 DEF Sealing
  <2>3. ASSUME NEW s \in Slots, SealReconciliation(s)
        PROVE  /\ sealed'[d] # NoRow
               /\ sealed'[d] # sealed[d] => Sealing(d)' # Sealing(d)
    <3>1. sealed'[d] # NoRow
      BY <2>3 DEF SealReconciliation, TypeOK, NoRow
    <3>2. ASSUME sealed'[d] # sealed[d] PROVE Sealing(d)' # Sealing(d)
      <4>1. slot[s].day = d /\ slot[s].op = "write"
        BY <2>3, <3>2 DEF SealReconciliation, TypeOK
      <4>2. slot'[s].op = "idle"
        BY <2>3 DEF SealReconciliation, TypeOK, Idle
      <4> QED
        BY <4>1, <4>2 DEF Sealing
    <3> QED
      BY <3>1, <3>2
  <2> QED
    BY <2>2, <2>3, SealSteps
<1> QED
  BY <1>1, TypeCorrect, PTL DEF Spec, SealedByOverlapOnly
=============================================================================
