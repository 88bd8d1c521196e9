--------------------------- MODULE PeriodClosing ---------------------------
(***************************************************************************)
(* The closing of months and years.  Closing a month posts a voucher that  *)
(* moves what is left on the profit-and-loss accounts to the account 本年   *)
(* 利润 (Profit); closing a fiscal year moves that account's balance to     *)
(* 利润分配 (Retained).  Both run in a READ COMMITTED transaction that       *)
(* first reads balances and locks and later inserts what follows from them *)
(* while other requests go on.  Vouchers are posted as VoucherLedger       *)
(* describes; here a post is one step, and only its lines on the accounts  *)
(* that closings touch are kept.  So are those of the opening balances, an *)
(* ordinary posted voucher that is entered once and may be deleted.  A     *)
(* reversal reads a voucher, later drafts one with the lines it has read,  *)
(* and is posted later still: here, those of closings and of the opening.  *)
(***************************************************************************)
EXTENDS Integers, FiniteSets, Functions

CONSTANTS
  Slots,          \* requests the server handles at the same time
  Accounts,       \* profit-and-loss accounts, codes 6xxx
  Amounts,        \* debit minus credit of a voucher on one of them; 0: none
  OpeningAmounts, \* debit minus credit of the opening balances on Retained
  MonthsPerYear,  \* bound: 12 in the code
  LastYear,       \* bound: years are 1..LastYear
  MaxPosts,       \* bound: vouchers posted
  MaxReversals,   \* bound: vouchers reversed
  Todays,         \* bound: months in which reversals are drafted
  Lockable        \* bound: months that may be locked

Years       == 1..LastYear
Months      == 1..(MonthsPerYear * LastYear)
YearOf(m)   == ((m - 1) \div MonthsPerYear) + 1
MonthsOf(y) == {m \in Months : YearOf(m) = y}
December(y) == y * MonthsPerYear

ASSUME ClosingAssumption ==
  /\ IsFiniteSet(Accounts)
  /\ MonthsPerYear \in Nat \ {0} /\ LastYear \in Nat \ {0}
  /\ MaxPosts \in Nat /\ MaxReversals \in Nat
  /\ Amounts \cup OpeningAmounts \subseteq Int
  /\ Lockable \cup Todays \subseteq Months
  /\ {"Profit", "Retained"} \cap Accounts = {}

Codes == Accounts \cup {"Profit", "Retained"}

(* Why an entry is in the ledger. The code stores the first three alike,   *)
(* as source 'voucher_posting'.                                            *)
Posted  == {"voucher", "closing_reversal", "opening_reversal"}
Sources == Posted \cup {"period_closing", "annual_closing", "opening_balance"}

(* The ids of the vouchers that may be reversed here: what a closing or    *)
(* the opening is derived from.  The opening has one, whatever it says.    *)
OpeningId == <<"opening_balance", 0>>
Ids == ({"period_closing", "annual_closing"} \X Months) \cup {OpeningId}

(* A voucher by the code of its lines: debit minus credit.                 *)
Voucher == [Codes -> Int]

(* What the transaction of a request has read.                             *)
MonthClosing == [op : {"month"}, month : Months, moved : [Accounts -> Int]]
YearClosing  == [op : {"year"}, year : Years, balance : Int]
Opening      == [op : {"open"}, month : Months, amount : OpeningAmounts]
Reversing    == [op : {"reverse"}, of : Ids] \cup [op : {"lines", "draft"}, of : Ids, lines : Voucher]
Requests     == [op : {"idle", "delete"}] \cup MonthClosing \cup YearClosing \cup Opening
                  \cup Reversing

(* A reversal that is not posted yet.                                      *)
Drafts == [of : Ids, month : Months, lines : Voucher]

VARIABLES
  ledger,       \* ledger_entries: sum of debit - credit by source, code, month
  active,       \* months that have any entry but those of the opening
  locked,       \* accounting_periods with is_locked
  closing,      \* period_closings: net_profit of the closed months
  annual,       \* fiscal_years: net_profit of the closed years
  opening,      \* the opening voucher, if any: its amount by its month
  reversed,     \* reverses_voucher_id of the reversals, posted or not
  drafts,       \* the reversals that are not posted
  posts,        \* vouchers posted so far
  slot          \* the transaction each request is in

vars == <<ledger, active, locked, closing, annual, opening, reversed, drafts, posts, slot>>
rows == <<ledger, active, closing, annual, opening, reversed, drafts, posts>>

Idle    == [op |-> "idle"]
Free(s) == slot[s] = Idle
Answer(s) == slot' = [slot EXCEPT ![s] = Idle]

ClosedMonths == DOMAIN closing
ClosedYears  == DOMAIN annual

Init ==
  /\ ledger = [r \in Sources |-> [c \in Codes |-> [m \in Months |-> 0]]]
  /\ active = {} /\ locked = {}
  /\ closing = << >> /\ annual = << >> /\ opening = << >>
  /\ reversed = {} /\ drafts = {}
  /\ posts = 0
  /\ slot = [s \in Slots |-> Idle]

-----------------------------------------------------------------------------
(* Balances.                                                               *)

(* sum(debit - credit) of the entries of some sources in some months       *)
Sum(sources, codes, months) ==
  LET entries == sources \X codes \X months IN
  SumFunctionOnSet([e \in entries |-> ledger[e[1]][e[2]][e[3]]], entries)

Balance(c, m) == Sum(Sources, {c}, 1..m)

(* A plausible bug: earlier closings are left out of the balance.         *)
UnclosedBalanceExcluding(a, m) == Sum(Posted, {a}, 1..m)

(* The balance a month's closing moves: entries of closings included.      *)
UnclosedBalance(a, m) == Balance(a, m)

(* A plausible bug: the closings of earlier years are left out.           *)
CarriedProfitExcluding(y) == Sum(Posted \cup {"period_closing"}, {"Profit"}, 1..December(y))

(* The balance of Profit a year's closing moves.                           *)
CarriedProfit(y) == Balance("Profit", December(y))

UnclosedAccounts(y) == {a \in Accounts : Balance(a, December(y)) # 0}

PendingPriorYears(y) ==
  {x \in 1..(y - 1) : x \notin ClosedYears /\ MonthsOf(x) \cap active # {}}

IsLocked(m) == m \in locked

(* Entries that make no month one with entries: those of the opening, and  *)
(* those of its reversal if that has been left without any lines.          *)
Unnoticed(source, lines) ==
  \/ source = "opening_balance"
  \/ source = "opening_reversal" /\ \A c \in Codes : lines[c] = 0

(* insertLedgerEntries: lines gives what to add to each code.  A reversal  *)
(* of nothing on these accounts may still have lines on others.            *)
Enter(source, m, lines) ==
  /\ ledger' = [ledger EXCEPT ![source] =
       [c \in Codes |-> [ledger[source][c] EXCEPT ![m] = @ + lines[c]]]]
  /\ \/ source # "opening_balance" /\ active' = active \cup {m}
     \/ Unnoticed(source, lines) /\ active' = active

Lines(on, by) == [c \in Codes |-> IF c \in on THEN by[c] ELSE 0]

-----------------------------------------------------------------------------
(* Vouchers.                                                               *)

(* A voucher dated in month m is posted, by 0 if on no such account.       *)
PostVoucher(s, a, amount, m) ==
  /\ Free(s)
  /\ posts < MaxPosts
  /\ ~IsLocked(m)
  /\ Enter("voucher", m, Lines({a}, [x \in {a} |-> amount]))
  /\ posts' = posts + 1
  /\ UNCHANGED <<locked, closing, annual, opening, reversed, drafts, slot>>

(* The months of the entries of a closing's or the opening's voucher: none *)
(* if there is no such voucher, as for a year closed without profit.       *)
Dated(id) ==
  IF id = OpeningId THEN DOMAIN opening
  ELSE {m \in {id[2]} : \/ id[1] = "period_closing" /\ m \in ClosedMonths
                        \/ id[1] = "annual_closing"
                             /\ \E y \in ClosedYears : December(y) = m /\ annual[y] # 0}

(* Its lines, negated: none if it has been deleted.                        *)
ReversalLines(id) == [c \in Codes |-> -Sum({id[1]}, {c}, Dated(id))]

(* A voucher is reversed by its id.  The request first finds it posted;    *)
(* that it belongs to a closing or is the opening is not asked.            *)
ReverseVoucher(s, id) ==
  /\ Free(s)
  /\ Dated(id) # {}
  /\ Cardinality(reversed) < MaxReversals
  /\ slot' = [slot EXCEPT ![s] = [op |-> "reverse", of |-> id]]
  /\ UNCHANGED <<rows, locked>>

(* The lines are read by a query of their own.                             *)
ReverseLines(s) ==
  /\ slot[s].op = "reverse"
  /\ slot' = [slot EXCEPT ![s] =
       [op |-> "lines", of |-> slot[s].of, lines |-> ReversalLines(slot[s].of)]]
  /\ UNCHANGED <<rows, locked>>

(* Then whether it has been reversed, and the locks of its entries.        *)
ReverseCheck(s) ==
  /\ slot[s].op = "lines"
  /\ slot[s].of \notin reversed
  /\ \A m \in Dated(slot[s].of) : ~IsLocked(m)
  /\ slot' = [slot EXCEPT ![s].op = "draft"]
  /\ UNCHANGED <<rows, locked>>

(* A plausible bug: no unique index on the reversed voucher.              *)
ReversalRefusedMissing(id) == Dated(id) = {}

(* The foreign key of a reversal asks for a voucher of that id, the unique *)
(* index that no other reversal has it.                                    *)
ReversalRefused(id) == Dated(id) = {} \/ id \in reversed

(* The reversal is a draft, dated today, with the lines that were read.    *)
(* Nothing else depends on the clock: any month may be the current one.    *)
ReverseCommit(s, today) ==
  LET id == slot[s].of IN
  /\ slot[s].op = "draft"
  /\ ~ReversalRefused(id) /\ Cardinality(reversed \cup {id}) <= MaxReversals
  /\ drafts' = drafts \cup {[of |-> id, month |-> today, lines |-> slot[s].lines]}
  /\ reversed' = reversed \cup {id}
  /\ Answer(s)
  /\ UNCHANGED <<ledger, active, locked, closing, annual, opening, posts>>

(* The draft is approved and posted like any voucher: only the lock of its *)
(* own month is asked.                                                     *)
PostReversal(s, d) ==
  /\ Free(s)
  /\ ~IsLocked(d.month)
  /\ Enter(IF d.of = OpeningId THEN "opening_reversal" ELSE "closing_reversal",
           d.month, d.lines)
  /\ drafts' = drafts \ {d}
  /\ UNCHANGED <<locked, closing, annual, opening, reversed, posts, slot>>

-----------------------------------------------------------------------------
(* postOpeningBalances and deleteOpeningBalances.  Accounts of profit and  *)
(* loss and Profit have no opening balance, which leaves Retained.         *)

PostOpeningRead(s, m, amount) ==
  /\ Free(s)
  /\ opening = << >>
  /\ ~IsLocked(m)
  /\ slot' = [slot EXCEPT ![s] = [op |-> "open", month |-> m, amount |-> amount]]
  /\ UNCHANGED <<rows, locked>>

(* The opening voucher's id and a unique index refuse a second one.        *)
PostOpeningCommit(s) ==
  LET m == slot[s].month
      b == slot[s].amount
  IN
  /\ slot[s].op = "open"
  /\ opening = << >>
  /\ Enter("opening_balance", m, Lines({"Retained"}, [Retained |-> b]))
  /\ opening' = [x \in {m} |-> b]
  /\ Answer(s)
  /\ UNCHANGED <<locked, closing, annual, reversed, drafts, posts>>

DeleteOpeningRead(s) ==
  /\ Free(s)
  /\ opening # << >>
  /\ \A m \in DOMAIN opening : ~IsLocked(m)
  /\ ClosedYears = {}
  /\ slot' = [slot EXCEPT ![s] = [op |-> "delete"]]
  /\ UNCHANGED <<rows, locked>>

(* A plausible bug: the foreign key of the reversal is dropped.            *)
OpeningKeptUnreferenced == FALSE

(* The foreign key of its reversal, a draft or not, keeps the opening.     *)
OpeningKept == OpeningId \in reversed

(* The rows go by the voucher's id, which is the same for any opening: one *)
(* that was deleted and entered again meanwhile goes as well.              *)
DeleteOpeningCommit(s) ==
  /\ slot[s].op = "delete"
  /\ ~OpeningKept
  /\ ledger' = [ledger EXCEPT !["opening_balance"] = [c \in Codes |-> [m \in Months |-> 0]]]
  /\ opening' = << >>
  /\ Answer(s)
  /\ UNCHANGED <<active, locked, closing, annual, reversed, drafts, posts>>

-----------------------------------------------------------------------------
(* closePeriod                                                             *)

(* A closed month is answered at once, one with nothing to close left open *)
ClosePeriodRead(s, m) ==
  LET moved == [a \in Accounts |-> UnclosedBalance(a, m)] IN
  /\ Free(s)
  /\ m \notin ClosedMonths
  /\ \E a \in Accounts : moved[a] # 0
  /\ ~IsLocked(m)
  /\ slot' = [slot EXCEPT ![s] = [op |-> "month", month |-> m, moved |-> moved]]
  /\ UNCHANGED <<rows, locked>>

(* A plausible bug: no unique index on the closed month.                  *)
MonthRefusedMissing(m) == FALSE

(* The voucher's id and period_closings' unique constraint refuse a second *)
(* closing of a month.                                                     *)
MonthRefused(m) == m \in ClosedMonths

ClosePeriodCommit(s) ==
  LET m     == slot[s].month
      moved == slot[s].moved
      total == SumFunctionOnSet(moved, Accounts)
  IN
  /\ slot[s].op = "month"
  /\ ~MonthRefused(m)
  /\ Enter("period_closing", m,
           [c \in Codes |-> IF c \in Accounts THEN -moved[c]
                            ELSE IF c = "Profit" THEN total ELSE 0])
  /\ closing' = [x \in ClosedMonths \cup {m} |-> IF x = m THEN -total ELSE closing[x]]
  /\ Answer(s)
  /\ UNCHANGED <<locked, annual, opening, reversed, drafts, posts>>

-----------------------------------------------------------------------------
(* closeFiscalYear                                                         *)

(* ensureFiscalYear's upsert locks the row of the year until the end of    *)
(* the transaction.                                                        *)
YearRowLocked(y) == \E s \in Slots : slot[s].op = "year" /\ slot[s].year = y

(* A plausible bug: the lock of December is not asked.                    *)
YearPostableUnlocked(y) == TRUE

(* checkPostable, asked only when there is a voucher to post.              *)
YearPostable(y) == CarriedProfit(y) # 0 => ~IsLocked(December(y))

(* A plausible bug: months left open do not stop the year's closing.      *)
YearReadyUnclosed(y) == PendingPriorYears(y) = {}

YearReady(y) == PendingPriorYears(y) = {} /\ UnclosedAccounts(y) = {}

CloseFiscalYearRead(s, y) ==
  /\ Free(s)
  /\ ~YearRowLocked(y)
  /\ y \notin ClosedYears
  /\ YearReady(y)
  /\ YearPostable(y)
  /\ slot' = [slot EXCEPT ![s] = [op |-> "year", year |-> y, balance |-> CarriedProfit(y)]]
  /\ UNCHANGED <<rows, locked>>

(* markYearClosed; a year without profit gets no voucher.                  *)
CloseFiscalYearCommit(s) ==
  LET y == slot[s].year
      b == slot[s].balance
  IN
  /\ slot[s].op = "year"
  /\ IF b = 0
     THEN UNCHANGED <<ledger, active>>
     ELSE Enter("annual_closing", December(y),
            Lines({"Profit", "Retained"}, [Profit |-> -b, Retained |-> b]))
  /\ annual' = [x \in ClosedYears \cup {y} |-> IF x = y THEN -b ELSE annual[x]]
  /\ Answer(s)
  /\ UNCHANGED <<locked, closing, opening, reversed, drafts, posts>>

-----------------------------------------------------------------------------
(* The database refuses the transaction or the server stops: rolled back.  *)
Abandon(s) ==
  /\ ~Free(s)
  /\ Answer(s)
  /\ UNCHANGED <<rows, locked>>

LockAccountingPeriod(s, m) ==
  /\ Free(s)
  /\ ~IsLocked(m)
  /\ locked' = locked \cup {m}
  /\ UNCHANGED <<rows, slot>>

UnlockAccountingPeriod(s, m) ==
  /\ Free(s)
  /\ IsLocked(m)
  /\ locked' = locked \ {m}
  /\ UNCHANGED <<rows, slot>>

(* What a request may do.                                                  *)
Serve(s) ==
  \/ \E a \in Accounts, amount \in Amounts, m \in Months : PostVoucher(s, a, amount, m)
  \/ \E id \in Ids : ReverseVoucher(s, id)
  \/ ReverseLines(s)
  \/ ReverseCheck(s)
  \/ \E today \in Todays : ReverseCommit(s, today)
  \/ \E d \in drafts : PostReversal(s, d)
  \/ \E m \in Months, amount \in OpeningAmounts : PostOpeningRead(s, m, amount)
  \/ PostOpeningCommit(s)
  \/ DeleteOpeningRead(s)
  \/ DeleteOpeningCommit(s)
  \/ \E m \in Months : ClosePeriodRead(s, m)
  \/ ClosePeriodCommit(s)
  \/ \E y \in Years : CloseFiscalYearRead(s, y)
  \/ CloseFiscalYearCommit(s)
  \/ Abandon(s)
  \/ \E m \in Lockable : LockAccountingPeriod(s, m)
  \/ \E m \in Lockable : UnlockAccountingPeriod(s, m)

Next == \E s \in Slots : Serve(s)

Spec == Init /\ [][Next]_vars

-----------------------------------------------------------------------------
(* Every variable keeps its type, and a reversal is the only one of its    *)
(* voucher.                                                                *)
TypeOK ==
  /\ ledger \in [Sources -> [Codes -> [Months -> Int]]]
  /\ active \subseteq Months /\ locked \subseteq Months
  /\ ClosedMonths \subseteq Months /\ closing \in [ClosedMonths -> Int]
  /\ ClosedYears \subseteq Years /\ annual \in [ClosedYears -> Int]
  /\ DOMAIN opening \subseteq Months /\ opening \in [DOMAIN opening -> OpeningAmounts]
  /\ reversed \subseteq Ids /\ drafts \subseteq Drafts
  /\ \A d \in drafts : d.of \in reversed /\ \A e \in drafts : e.of = d.of => e = d
  /\ posts \in 0..MaxPosts
  /\ slot \in [Slots -> Requests]

-----------------------------------------------------------------------------
(* Two overlaps make the code break a promise; these exclude them and no   *)
(* more.  A third, a reversal of an opening replaced meanwhile, they leave *)
(* in.                                                                     *)

(* The months a request has found open and will write in.                  *)
Awaited(s) ==
  {m \in Months :
     \/ slot[s].op \in {"month", "open"} /\ m = slot[s].month
     \/ slot[s].op = "year" /\ slot[s].balance # 0 /\ m = December(slot[s].year)
     \/ slot[s].op = "delete" /\ m \in DOMAIN opening}

(* No month is locked between the check of a request and its commit.       *)
NotLocked ==
  \A t \in Slots : \A m \in Awaited(t), s \in Slots : ~LockAccountingPeriod(s, m)

(* The accounts and the last month of what a request is about to close.    *)
Moves(s) == IF slot[s].op = "year" THEN Accounts \cup {"Profit"} ELSE Accounts
UpTo(s)  == IF slot[s].op = "year" THEN December(slot[s].year) ELSE slot[s].month

(* While a closing is under way no other request enters anything on the    *)
(* accounts it moves, neither in its last month nor before.                *)
Undisturbed ==
  \A s \in Slots : slot[s].op \in {"month", "year"} /\ slot'[s] = slot[s] =>
    \A r \in Sources, c \in Moves(s), m \in 1..UpTo(s) : ledger'[r][c][m] = ledger[r][c][m]

-----------------------------------------------------------------------------
Flat(m) == \A a \in Accounts : Balance(a, m) = 0

NewlyClosedMonths == DOMAIN closing' \ DOMAIN closing
NewlyClosedYears  == DOMAIN annual' \ DOMAIN annual

(* Once a month is closed its profit-and-loss accounts net to zero         *)
(* (close-period.ts 24), however many months were closed before.           *)
ClosingIsComplete == [][\A m \in NewlyClosedMonths : Flat(m)']_vars

(* A year is closed with nothing left on the accounts of profit and loss   *)
(* nor on Profit (annual-closing.ts 205-206, migration 050 line 53).       *)
YearIsComplete ==
  [][\A y \in NewlyClosedYears :
       /\ Flat(December(y))'
       /\ Balance("Profit", December(y))' = 0]_vars

(* The closed years together have carried over exactly what the posted     *)
(* vouchers earned: no profit is carried over twice (annual-closing.ts     *)
(* 221-226), whatever was posted late, closed out of order or reversed.    *)
YearsCarryEarnings ==
  [][\A y \in NewlyClosedYears :
       SumFunctionOnSet(annual', DOMAIN annual' \cap 1..y)
         = -Sum(Posted, Accounts \cup {"Profit"}, 1..December(y))']_vars

(* While a month is locked its entries stay as they are, closings included *)
LockedMonthFrozen ==
  [][\A m \in locked, r \in Sources, c \in Codes :
       ledger'[r][c][m] = ledger[r][c][m]]_vars

(* The net profit kept with a closing is what its voucher moved, also      *)
(* when the same month or year is closed by two requests at once.          *)
ClosingsInLedger ==
  /\ \A m \in Months : ledger["period_closing"]["Profit"][m] =
       IF m \in ClosedMonths THEN -closing[m] ELSE 0
  /\ \A y \in Years : ledger["annual_closing"]["Retained"][December(y)] =
       IF y \in ClosedYears THEN -annual[y] ELSE 0

(* The opening balances are in the ledger once: two requests that enter    *)
(* them at once do not add up, and none of their entries outlives them     *)
(* (migration 050 lines 90-94).  At most one reversal of them counts, with *)
(* the lines of some opening or none, and only while there is an opening:  *)
(* in any other state the two together are an amount nobody has entered.   *)
OpeningInLedger ==
  LET Entered(source) == Sum({source}, {"Retained"}, Months) IN
  /\ Entered("opening_balance") = SumFunctionOnSet(opening, DOMAIN opening)
  /\ Entered("opening_reversal") \in {0} \cup {-b : b \in OpeningAmounts}
  /\ opening = << >> => Entered("opening_reversal") = 0

-----------------------------------------------------------------------------
(* What comments and tests promise and the code does not keep.             *)

(* A closing leaves closed months closed: only vouchers posted late move   *)
(* their accounts again (close-period.ts 87-88).                           *)
ClosingsKeepClosed ==
  [][ledger["voucher"]' = ledger["voucher"]
       /\ ledger["closing_reversal"]' = ledger["closing_reversal"]
     => \A m \in ClosedMonths : Flat(m) => Flat(m)']_vars

(* The profit of a year as reports read it, entries of the year without    *)
(* those of closings, is what its vouchers earned (fiscal-year.ts 14).     *)
ReportedProfit(y) == -Sum(Posted, Accounts, MonthsOf(y))

ReportsAreRight ==
  \A y \in Years : ReportedProfit(y) = -Sum({"voucher"}, Accounts, MonthsOf(y))

(* A posted reversal levels the voucher it reverses (reversal.ts 6-7): it  *)
(* does not if the opening was deleted and entered again, with another     *)
(* amount under the same id, after its lines were read.                    *)
ReversalCancels ==
  OpeningId \in reversed /\ (\A d \in drafts : d.of # OpeningId)
    => Sum({"opening_balance", "opening_reversal"}, {"Retained"}, Months) = 0
=============================================================================
