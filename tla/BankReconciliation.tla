------------------------- MODULE BankReconciliation -------------------------
(***************************************************************************)
(* Matching the lines of a bank statement with posted vouchers             *)
(* (banking/reconciliation.ts, bank.routes.ts), and reconciling the two    *)
(* balances of an account as of a day (banking/reconciliation-session.ts,  *)
(* balance-reconciliation.ts).  A matching run, which an import starts and *)
(* does not wait for, reads the lines once and then writes them one by one *)
(* in statements of their own, while users match lines and close           *)
(* reconciliations.  One bank account with a ledger account of its own.    *)
(***************************************************************************)
EXTENDS Integers, FiniteSetsExt, Functions

CONSTANTS
  Slots,       \* matching runs, confirmations and closings under way at once
  Lines,       \* the lines of the bank's statement, by transaction_ref
  Vouchers,    \* vouchers that may be posted, all of the last 90 days
  Candidates,  \* ids of candidates, fresh each time
  Days,        \* days a reconciliation may be as of
  LineDay, LineAmount,  \* cents, positive for a receipt
  Created,     \* the day a voucher was created
  EntryDay,    \* the day of its entries
  Total,       \* its debits, in cents
  BankAmount,  \* what its entries add to the ledger account of the bank
  Keywords,    \* the weights of the keywords a line and a voucher share
  NameBonus,   \* 10 if the voucher's summary names the counterparty, or 0
  Tolerance, AutoConfirmThreshold,  \* reconciliation_rules
  Statuses,    \* what a request may call a line
  NoVoucher

VARIABLES
  posted,      \* the vouchers that are posted
  line,        \* bank_statements, by line
  candidate,   \* reconciliation_candidates, by id
  events,      \* business events raised for each line that stays unmatched
  sealed,      \* bank_reconciliations with their items, by day
  slot         \* what each run, confirmation or closing remembers

vars == <<posted, line, candidate, events, sealed, slot>>

ASSUME BankAssumption ==
  /\ IsFiniteSet(Lines) /\ IsFiniteSet(Vouchers)
  /\ LineAmount \in [Lines -> Int \ {0}] /\ BankAmount \in [Vouchers -> Int]
  /\ LineDay \in [Lines -> Nat] /\ Days \subseteq Nat
  /\ Created \in [Vouchers -> Nat] /\ EntryDay \in [Vouchers -> Nat]
  /\ Total \in [Vouchers -> Nat]
  /\ Keywords \in [Lines -> [Vouchers -> Nat]]
  /\ NameBonus \in [Lines -> [Vouchers -> {0, 10}]]
  /\ Tolerance \in Nat /\ AutoConfirmThreshold \in Nat
  /\ NoVoucher \notin Vouchers
  /\ {"unmatched", "auto", "manual"} \subseteq Statuses /\ "none" \notin Statuses

NoRow == [status |-> "none"]
Idle  == [op |-> "idle"]

Line      == [status : Statuses, voucher : Vouchers \cup {NoVoucher}]
Candidate == [status : {"pending", "confirmed", "rejected"},
              line : Lines, voucher : Vouchers]
Snapshot  == [status : {"closed"}, book : Int, bankOnly : SUBSET Lines,
              bookOnly : SUBSET Vouchers]

(* What a slot remembers.                                                  *)
Matching  == [op : {"match"}, todo : SUBSET Lines, known : SUBSET Vouchers]
Raising   == [op : {"raise"}, todo : SUBSET Lines]
Marking   == [op : {"mark"}, todo : SUBSET Lines, line : Lines]
Confirming == [op : {"confirm"}, line : Lines, voucher : Vouchers]
Closing    == [op : {"bank", "book", "check", "write"}, day : Days, book : Int,
              bankOnly : SUBSET Lines, bookOnly : SUBSET Vouchers]

Init ==
  /\ posted = {}
  /\ line = [l \in Lines |-> NoRow]
  /\ candidate = [c \in Candidates |-> NoRow]
  /\ events = [l \in Lines |-> 0]
  /\ sealed = [d \in Days |-> NoRow]
  /\ slot = [s \in Slots |-> Idle]

statements == <<posted, line, candidate, events>>
Abs(x)     == IF x < 0 THEN -x ELSE x
Unmatched  == {l \in Lines : line[l].status = "unmatched"}

-----------------------------------------------------------------------------
(* The score of a voucher for a line.                                      *)

AmountScore(diff) ==
  IF diff <= Tolerance THEN 50 ELSE IF diff <= 100 THEN 35 ELSE IF diff <= 10000 THEN 15 ELSE 0

DateScore(diff) ==
  IF diff = 0 THEN 30 ELSE IF diff <= 1 THEN 25 ELSE IF diff <= 3 THEN 15 ELSE IF diff <= 7 THEN 5 ELSE 0

(* A plausible bug: the keywords are not capped.                           *)
KeywordScoreUncapped(l, v) == Keywords[l][v]

KeywordScore(l, v) == Min({Keywords[l][v], 20})

(* computeMatchScore compares the amounts without their direction.         *)
Difference(l, v) == Abs(Abs(LineAmount[l]) - Total[v])

Score(l, v) ==
  Min({100, AmountScore(Difference(l, v)) + DateScore(Abs(LineDay[l] - Created[v]))
            + KeywordScore(l, v) + NameBonus[l][v]})

(* The vouchers the loop may end with; equal scores are in no order.       *)
Best(l, known) ==
  {v \in known : Score(l, v) > 0 /\ \A w \in known : Score(l, w) <= Score(l, v)}

-----------------------------------------------------------------------------
(* Lines and vouchers.                                                     *)

PostVoucher(v) ==
  /\ v \notin posted
  /\ posted' = posted \cup {v}
  /\ UNCHANGED <<line, candidate, events, sealed, slot>>

(* One row of a file; a line imported before is left as it is.             *)
ImportLine(l) ==
  /\ line[l] = NoRow
  /\ line' = [line EXCEPT ![l] = [status |-> "unmatched", voucher |-> NoVoucher]]
  /\ UNCHANGED <<posted, candidate, events, sealed, slot>>

(* A user matches a line by hand, leaves it out or undoes its match.  What *)
(* the request says is written as it is: any status, "auto" included, with *)
(* any voucher, posted or not.                                             *)
MatchStatement(l, status, v) ==
  /\ line[l] # NoRow
  /\ line' = [line EXCEPT ![l] = [status |-> status, voucher |-> v]]
  /\ UNCHANGED <<posted, candidate, events, sealed, slot>>

(* confirmCandidate marks the candidate and then the line.                 *)
ConfirmCandidate(s, c) ==
  /\ slot[s] = Idle
  /\ candidate[c] # NoRow
  /\ candidate' = [candidate EXCEPT ![c].status = "confirmed"]
  /\ slot' = [slot EXCEPT ![s] =
       [op |-> "confirm", line |-> candidate[c].line, voucher |-> candidate[c].voucher]]
  /\ UNCHANGED <<posted, line, events, sealed>>

ConfirmLine(s) ==
  /\ slot[s].op = "confirm"
  /\ line' = [line EXCEPT ![slot[s].line] = [status |-> "manual", voucher |-> slot[s].voucher]]
  /\ slot' = [slot EXCEPT ![s] = Idle]
  /\ UNCHANGED <<posted, candidate, events, sealed>>

RejectCandidate(c) ==
  /\ candidate[c] # NoRow
  /\ candidate' = [candidate EXCEPT ![c].status = "rejected"]
  /\ UNCHANGED <<posted, line, events, sealed, slot>>

-----------------------------------------------------------------------------
(* A matching run.                                                         *)

(* The unmatched lines, of a batch or all, and the posted vouchers.  (Two  *)
(* queries, of which either might as well come first.)                     *)
RunReconciliation(s, batch) ==
  /\ slot[s] = Idle
  /\ batch \subseteq Unmatched
  /\ slot' = [slot EXCEPT ![s] = [op |-> "match", todo |-> batch, known |-> posted]]
  /\ UNCHANGED <<statements, sealed>>

Confident(score) == score >= AutoConfirmThreshold

FreshCandidate == {c \in Candidates : candidate[c] = NoRow}

(* The next line: matched, suggested or left, whatever it is by now.       *)
MatchLine(s, l) ==
  LET best == Best(l, slot[s].known) IN
  /\ slot[s].op = "match" /\ l \in slot[s].todo
  /\ \/ \E v \in best :
          /\ Confident(Score(l, v))
          /\ line' = [line EXCEPT ![l] = [status |-> "auto", voucher |-> v]]
          /\ UNCHANGED candidate
     \/ \E v \in best, c \in FreshCandidate :
          /\ ~Confident(Score(l, v)) /\ Score(l, v) >= 50
          /\ candidate' = [candidate EXCEPT ![c] =
               [status |-> "pending", line |-> l, voucher |-> v]]
          /\ UNCHANGED line
     \/ /\ \A v \in best : ~Confident(Score(l, v)) /\ Score(l, v) < 50
        /\ UNCHANGED <<line, candidate>>
  /\ slot' = [slot EXCEPT ![s].todo = @ \ {l}]
  /\ UNCHANGED <<posted, events, sealed>>

(* A plausible bug: the events raised before are not looked for.           *)
MayBeRaisedAgain(l) == l \in Unmatched

MayBeRaised(l) == l \in Unmatched /\ events[l] = 0

(* createUnmatchedEvents reads the lines that are old enough by the clock. *)
FindAged(s, aged) ==
  /\ slot[s].op = "match" /\ slot[s].todo = {}
  /\ \A l \in aged : MayBeRaised(l)
  /\ slot' = [slot EXCEPT ![s] = [op |-> "raise", todo |-> aged]]
  /\ UNCHANGED <<statements, sealed>>

(* The event of a line, and its task in the next statement.                *)
RaiseEvent(s, l) ==
  /\ slot[s].op = "raise" /\ l \in slot[s].todo
  /\ events' = [events EXCEPT ![l] = @ + 1]
  /\ slot' = [slot EXCEPT ![s] = [op |-> "mark", todo |-> slot[s].todo \ {l}, line |-> l]]
  /\ UNCHANGED <<posted, line, candidate, sealed>>

(* A plausible bug: the line gets a status of its own, as a comment has it. *)
MarkUnmatchedRaised(s) ==
  /\ slot[s].op = "mark"
  /\ line' = [line EXCEPT ![slot[s].line].status = "raised"]
  /\ slot' = [slot EXCEPT ![s] = [op |-> "raise", todo |-> slot[s].todo]]
  /\ UNCHANGED <<posted, candidate, events, sealed>>

(* The line is set to unmatched, also when it is matched by now.           *)
MarkUnmatched(s) ==
  /\ slot[s].op = "mark"
  /\ line' = [line EXCEPT ![slot[s].line].status = "unmatched"]
  /\ slot' = [slot EXCEPT ![s] = [op |-> "raise", todo |-> slot[s].todo]]
  /\ UNCHANGED <<posted, candidate, events, sealed>>

(* It is over, refused or only a preview; a statement fails; the process   *)
(* stops.                                                                  *)
Stop(s) ==
  /\ slot[s] # Idle
  /\ slot' = [slot EXCEPT ![s] = Idle]
  /\ UNCHANGED <<statements, sealed>>

-----------------------------------------------------------------------------
(* Reconciling the balances.                                               *)

BalanceOf(amount, rows) == SumFunctionOnSet(amount, rows)

(* What the user copies from the statement.                                *)
StatementBalance(day) == BalanceOf(LineAmount, {l \in Lines : LineDay[l] <= day})

Entered(day)     == {v \in posted : EntryDay[v] <= day}
BookBalance(day) == BalanceOf(BankAmount, Entered(day))

(* loadBankOnlyItems                                                       *)
BankOnly(day) == {l \in Unmatched : LineDay[l] <= day}

(* loadBookOnlyItems: no line, of whatever day, is matched to the voucher. *)
BookOnly(day) ==
  {v \in Entered(day) : ~\E l \in Lines : line[l] # NoRow /\ line[l].voucher = v}

(* A plausible bug: each side is adjusted by its own items.                *)
DifferenceUncrossed(day, book, bankOnly, bookOnly) ==
  (StatementBalance(day) + BalanceOf(LineAmount, bankOnly))
    - (book + BalanceOf(BankAmount, bookOnly))

(* buildBalanceReconciliation                                              *)
AdjustedDifference(day, book, bankOnly, bookOnly) ==
  (StatementBalance(day) + BalanceOf(BankAmount, bookOnly))
    - (book + BalanceOf(LineAmount, bankOnly))

(* closeReconciliation reads in its transaction, but each query sees what  *)
(* has been committed by then.                                             *)
CloseReconciliation(s, day) ==
  /\ slot[s] = Idle
  /\ slot' = [slot EXCEPT ![s] =
       [op |-> "bank", day |-> day, book |-> BookBalance(day), bankOnly |-> {},
        bookOnly |-> {}]]
  /\ UNCHANGED <<statements, sealed>>

ReadBankOnly(s) ==
  /\ slot[s].op = "bank"
  /\ slot' = [slot EXCEPT ![s].op = "book", ![s].bankOnly = BankOnly(slot[s].day)]
  /\ UNCHANGED <<statements, sealed>>

ReadBookOnly(s) ==
  /\ slot[s].op = "book"
  /\ slot' = [slot EXCEPT ![s].op = "check", ![s].bookOnly = BookOnly(slot[s].day)]
  /\ UNCHANGED <<statements, sealed>>

(* A plausible bug: whether the day is closed already is not looked up.    *)
CheckReconciliationUnsealed(s) ==
  /\ slot[s].op = "check"
  /\ slot' = [slot EXCEPT ![s].op = "write"]
  /\ UNCHANGED <<statements, sealed>>

(* A difference other than zero has to be acknowledged, which users do.    *)
CheckReconciliation(s) ==
  /\ slot[s].op = "check"
  /\ sealed[slot[s].day] = NoRow
  /\ slot' = [slot EXCEPT ![s].op = "write"]
  /\ UNCHANGED <<statements, sealed>>

(* The row, or what it says now, and its items instead of those before.    *)
SealReconciliation(s) ==
  LET k == slot[s] IN
  /\ k.op = "write"
  /\ sealed' = [sealed EXCEPT ![k.day] =
       [status |-> "closed", book |-> k.book, bankOnly |-> k.bankOnly, bookOnly |-> k.bookOnly]]
  /\ slot' = [slot EXCEPT ![s] = Idle]
  /\ UNCHANGED statements

Next ==
  \/ \E v \in Vouchers : PostVoucher(v)
  \/ \E l \in Lines : ImportLine(l)
  \/ \E l \in Lines, status \in Statuses, v \in Vouchers \cup {NoVoucher} :
        MatchStatement(l, status, v)
  \/ \E c \in Candidates : RejectCandidate(c)
  \/ \E s \in Slots :
       \/ \E batch \in SUBSET Lines : RunReconciliation(s, batch)
       \/ \E l \in Lines : MatchLine(s, l)
       \/ \E aged \in SUBSET Lines : FindAged(s, aged)
       \/ \E l \in Lines : RaiseEvent(s, l)
       \/ MarkUnmatched(s)
       \/ \E c \in Candidates : ConfirmCandidate(s, c)
       \/ ConfirmLine(s)
       \/ \E day \in Days : CloseReconciliation(s, day)
       \/ ReadBankOnly(s)
       \/ ReadBookOnly(s)
       \/ CheckReconciliation(s)
       \/ SealReconciliation(s)
       \/ Stop(s)

Spec == Init /\ [][Next]_vars

-----------------------------------------------------------------------------
(* Every variable keeps its type.                                          *)
TypeOK ==
  /\ posted \subseteq Vouchers
  /\ line \in [Lines -> Line \cup {NoRow}]
  /\ candidate \in [Candidates -> Candidate \cup {NoRow}]
  /\ events \in [Lines -> Nat]
  /\ sealed \in [Days -> Snapshot \cup {NoRow}]
  /\ slot \in [Slots -> {Idle} \cup Matching \cup Raising \cup Marking
                         \cup Confirming \cup Closing]

(* A request that calls a line matched by the program itself.              *)
SaysAuto(l) == \E v \in Vouchers \cup {NoVoucher} : MatchStatement(l, "auto", v)

(* What the program matches without anybody looking is a posted voucher    *)
(* whose total is within a yuan of the line: no day, keyword or name can   *)
(* make up for a larger difference (reconciliation.ts 4-13), nor does a    *)
(* run with a stale list, a confirmation or a reset leave such a match.    *)
(* Requests can: one may say "auto" of any voucher.                        *)
AutoIsClose ==
  [][\A l \in Lines :
       line'[l].status = "auto" /\ line'[l] # line[l] /\ ~SaysAuto(l) =>
         line'[l].voucher \in posted /\ Difference(l, line'[l].voucher) <= 100]_vars

(* However often runs are started and stopped, a line is raised once (as   *)
(* long as one run is under way at a time: reconciliation.ts 275-289).     *)
RaisedOnce == \A l \in Lines : events[l] <= 1

(* A line whose match agrees: nothing, or the voucher of its amount, which *)
(* no other line has and which is posted.                                  *)
MatchAgrees(l) ==
  \/ line[l].status = "unmatched" /\ line[l].voucher = NoVoucher
  \/ /\ line[l].status \in {"auto", "manual"}
     /\ line[l].voucher \in posted
     /\ BankAmount[line[l].voucher] = LineAmount[l]
     /\ \A k \in Lines \ {l} : line[k] = NoRow \/ line[k].voucher # line[l].voucher

(* The line and the voucher it is matched to fall on one side of the day.  *)
SameSide(l, day) ==
  line[l].voucher # NoVoucher => (LineDay[l] <= day <=> EntryDay[line[l].voucher] <= day)

(* Once every line is imported and the matches agree, the balances of each *)
(* day do, whatever is still outstanding on either side: the adjustments   *)
(* cross (balance-reconciliation.ts 6-15).                                 *)
MatchedBalances ==
  \A day \in Days :
    (\A l \in Lines : line[l] # NoRow /\ MatchAgrees(l) /\ SameSide(l, day)) =>
      AdjustedDifference(day, BookBalance(day), BankOnly(day), BookOnly(day)) = 0

(* The closings of a day that have found it open and will write.           *)
Sealing(d) == {s \in Slots : slot[s].op = "write" /\ slot[s].day = d}

(* What a reconciliation was closed on stays as it was seen then, items    *)
(* and all, once the closings that were under way with it have ended: no   *)
(* closing begun or checked later replaces it (migration 064 67-77).  The  *)
(* only writes left are those of the overlap, each of which uses itself up *)
SealedByOverlapOnly ==
  [][\A d \in Days : sealed[d] # NoRow =>
       /\ sealed'[d] # NoRow /\ Sealing(d)' \subseteq Sealing(d)
       /\ sealed'[d] # sealed[d] => Sealing(d)' # Sealing(d)]_vars

-----------------------------------------------------------------------------
(* What comments promise and the code does not keep.                       *)

(* A closed reconciliation is frozen with its items: also when it is       *)
(* closed by two requests at once (reconciliation-session.ts 268-271).     *)
SealedIsFrozen == [][\A d \in Days : sealed[d] # NoRow => sealed'[d] = sealed[d]]_vars

(* Time differences are listed, and then the balances agree                *)
(* (balance-reconciliation.ts 6-8): also when a line and its voucher fall  *)
(* on different sides of the day.                                          *)
TimingBalances ==
  \A day \in Days :
    (\A l \in Lines : line[l] # NoRow /\ MatchAgrees(l)) =>
      AdjustedDifference(day, BookBalance(day), BankOnly(day), BookOnly(day)) = 0
=============================================================================
