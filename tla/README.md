# Formal specification of the accounting core

TLA+ models of the part of this repository that keeps the books and controls
what is spent: the life cycle of vouchers and the ledger they feed, the closing
of months and years, payments and the bank instructions that carry them, bank
reconciliation, requests with their budgets and approvals, advances and
reimbursements, fixed assets, and the scheduler. TLC checks each model on small
instances; TLAPS proves the most important invariants for instances of any size.

Paths below are relative to `src/apps/api/src/modules/` unless they start with
`src/`.

## 1. Inventory

The repository is an API server (TypeScript, raw SQL on PostgreSQL), a web
client and tools. All state is in the database; the processes keep none that
matters except the timers of the scheduler and the queue of the audit log.

| Component | State | Operations | What makes it correct |
|---|---|---|---|
| Vouchers (`vouchers/`) | `vouchers`, `voucher_lines`, `ledger_entries`, posting batches and records, workflow runs and commands | create from template, update, approve, post, reverse | a posting is entered once, with its entries, under a unique number without gaps, reviewed by somebody else than its poster; then final, but for one reversal |
| Period lock (`ledger/routes.ts`) | `accounting_periods` | lock, unlock | nothing enters a locked month |
| Event analysis (`events/analyze*.ts`) | events, and all that is derived from them | analyse again: delete and rebuild the event's vouchers | never deletes what is posted and not reversed; can be done again after a reversal |
| Closing (`ledger/close-period.ts`, `ledger/annual-closing.ts`) | `period_closings`, `fiscal_years`, entries of closings | close a month, close a year, reverse a closing's voucher | accounts of profit and loss are zero afterwards; each profit is carried over once and into its own year |
| Opening balances (`ledger/opening-balance.ts`) | one opening voucher and its `ledger_entries`, marked `source = 'opening_balance'` | enter, show, delete | the books balance from the first day; entered once; not deleted once its period is locked or a year is closed |
| Payments (`payments/`, `contracts/schedule-store.ts`) | `payments`, `contract_payment_schedules` | create, submit, confirm, export, cancel an instalment | never more than is due; one voucher per payment |
| Bank instructions (`bank-connect/`) | `bank_transfer_instructions` | send, ask for the status | whatever the bank was told is on record; a result is never invented |
| Approval flow (`approval/`) | `approval_flows`, `approval_instances` with their participants | activate a flow, submit, approve, reject, withdraw, add a participant | no required step is passed over; somebody is always awaited |
| Requests and budgets (`requests/`, `budget/`) | `requests`, `budgets`, `budget_encumbrances` | create, edit, submit, approve, reject, cancel, complete; create and delete a budget | what is reserved for a request is released when it ends; one event is derived from it |
| Scheduler (`jobs/`) | `scheduled_jobs` | enqueue; claim, run, settle at every tick | one runner per job; every job has its turn; retries end |
| Reimbursements, advances (`reimbursements/`, `advances/`) | the documents with their lines, draft vouchers | create, submit, approve, reject, cancel, pay, settle | an invoice is claimed once; one voucher per document; an advance is settled when it is paid back |
| Bank reconciliation (`banking/`) | `bank_statements`, `reconciliation_candidates`, `bank_reconciliations` | import, matching run, match by hand, close as of a day | what is matched by itself is close; the adjusted balances agree; what was closed stays |
| Fixed assets (`assets/`) | `fixed_assets`, `fixed_asset_depreciations`, drafts of disposals | enter, depreciate a month, dispose of | an asset loses its cost less its salvage value, no more, and nothing once it has left |
| Settlement (`settlement/`) | open items, settlements | match, undo | what is settled never exceeds what is open |
| Payroll, costs, currency, recurring vouchers | source documents | generate draft vouchers | the arithmetic of the generator; then a voucher's life |
| Tax, VAT, loss carry-forward | declarations, rules | compute, transmit | the arithmetic of the rules |
| Audit chain (`src/apps/api/src/services/audit.ts`, `security/hash-chain.ts` beside it) | `audit_logs` | append, verify | one chain without forks |
| Sessions (`src/apps/api/src/middleware/auth.ts`) | sessions, refresh tokens | sign in, refresh, revoke | a refresh token is used once |
| Web client, dashboards, AI assistants, search, exports | – | read-only, or drafts | – |

**Interaction.** Everything that moves money ends in `vouchers` and
`ledger_entries`: payments, closings, reversals, disposals, reimbursements and
generators insert vouchers, and all but the closings, which insert theirs posted, leave them as drafts to
be approved and posted like any other. The period lock
is read by posting, reversing, analysing and closing. Components call each
other's stores in process; between the server and a bank there is a call that
may be lost or late. Requests, advances and reimbursements drive instances of
the approval engine after they have moved, and requests reserve budgets while
they move, each over another database connection.

**What is hard.** A handler usually reads in statements that commit by
themselves, decides, and writes in a transaction opened afterwards
(`src/apps/api/src/db/client.ts:68-90`), all under READ COMMITTED. Between the
two, other requests commit. Unique indexes, foreign keys and a few row locks
are what is left to catch that. With `tenantRlsEnabled` (off by default) a whole
request is one transaction, which under READ COMMITTED interleaves with others
statement by statement just the same; when such a request writes in several
places, the models' later step stands for the commit of all of them. The
hazards, each at its line, are listed in `PROJECT.json`.

## 2. Modules

| Module | Models |
|---|---|
| `VoucherLedger` | vouchers, ledger, period lock, event analysis: every handler, reads and transaction apart |
| `LedgerBook` | the abstract specification: a book that only grows |
| `VoucherLedgerProofs` | theorems about `VoucherLedger`, among them that it implements `LedgerBook` |
| `PeriodClosing` | closing of months and years around posting, locking, reversing and the opening balances |
| `PeriodClosingProofs` | theorems about `PeriodClosing` |
| `Payments` | payments, instalments, bank instructions, the channel and the bank |
| `PaymentsProofs` | theorems about `Payments` |
| `Jobs` | the scheduler, with its fairness |
| `Approvals` | the approval engine |
| `Requests` | requests and budgets, composed with `Approvals`, which it extends: a request is a document of the engine |
| `RequestsProofs` | theorems about `Approvals` and about `Requests`, among them that it implements `Approvals` |
| `BankReconciliation` | statement lines, matching runs, candidates, closing a reconciliation |
| `BankReconciliationProofs` | theorems about `BankReconciliation` |
| `FixedAssets` | assets, depreciation, disposal |
| `AssetsJobsProofs` | theorems about `FixedAssets` and `Jobs` |
| `Expenses` | advances and reimbursements |
| `ExpensesProofs` | theorems about `Expenses` |
| `Sums` | lemmas about sums over finite sets, for the proofs about money |
| `MC...` | an instance of each for TLC |

The map from definitions to source lines is in `PROJECT.json`. Each module also
holds operators commented "A plausible bug": the mutated definitions that show
that a property can fail. No action uses them.

### Slots

A *slot* is a request in flight. `XRead` is what a handler reads and checks
before it writes; it leaves what it has read in the slot. `XCommit` is the
transaction that writes, on the rows it finds then. `Abandon` is a handler that
is refused, fails or whose process stops. With one slot requests are served one
at a time; with two, every interleaving of two is explored. Some properties hold
under every interleaving, thanks to what the database still guarantees. Others
need that certain requests do not meet: a condition on the overlaps (`Orderly`,
`OneMonth`, `RunsBefore`, ...) names these, and runs and theorems about such a
property assume the condition and nothing else. With one slot such a condition
holds of itself, as `OneAtATimeIsOrderly` proves of vouchers and of closings.

### VoucherLedger

`voucher` is the table of that name (a row's lines are one signed amount, from
which a reversal's negated lines follow), `entry` what posting writes for it,
`run` and `command` the workflow run and its idempotency keys, `stamp` the
version of a row (`updated_at`, part of the key), `month` the calendar, `locked`
the locked months. `PostRead`, `PostCheck`, `PostStart` and `PostCommit` are the
steps of `postVoucher` (`vouchers/routes.ts:375-535`): the voucher is read, the
reviewer and the lock are read, the UPDATE computes `max + 1` on its snapshot,
the transaction commits or is refused by the unique index or the foreign keys.
Analysing an event deletes and rebuilds its vouchers under the same ids in one
step, since it locks their rows first. The several reads of `reverseVoucher`
are one step. A reversal is dated today, as `current_date` is its default.

Left out: whether the lines balance and the accounts may be used (the data the
amount abstracts), audit rows, notifications and transition records, the tasks
and tax items analysis derives too.

`LedgerBook` promises what a ledger is for: a posting is entered once, into an
open month, under the next number of its series, and never changed; a reversal
negates one posting which is not a reversal, once. `VoucherLedger` implements it
under the refinement mapping `ledgerBook` (number, lines, month, word and reversed voucher of
every voucher with entries), `ImplementsBook`.

### PeriodClosing

`ledger` holds sums of debit minus credit by source, account and month: the
accounts of profit and loss, 本年利润 (`Profit`) and 利润分配 (`Retained`);
other accounts are not touched by a closing. The opening balances are one voucher
(`opening`) whose amount on `Retained` is kept, as the other two kinds of account
are refused for it; it is entered and deleted by requests that first read what
the database then enforces by an index and a foreign key, and its entries do not
make their year one that must be closed (`PendingPriorYears`). A closing reads its balances and
locks in one step and inserts its voucher in another; `fiscal_years` is locked
by the upsert at the beginning, `period_closings` only by its unique index. A
post is one step here. A reversal is five, as the code takes them: the row of
the voucher is found posted (`ReverseVoucher`), its lines are read by a query of
their own (`ReverseLines`), whether it was reversed and whether its month is
locked is asked (`ReverseCheck`), a transaction inserts a draft with the lines
that were read (`ReverseCommit`), and that draft is posted like any other
voucher, under the lock of its own month (`PostReversal`). The opening voucher
has one id whatever it says (`OpeningId`), so that between these steps it can be
deleted and entered again with other lines. The draft is dated by the column's
default, `current_date` (`src/migrations/045_voucher_accounting_date.sql:62`),
which here is any month of `Todays`. Left out: numbers and printed lines of closing
vouchers, whether 4103 and 4104 are usable, and `listFiscalYears`, which only
adds open rows.

### Payments

`createPayment` is three steps, as its three statements have a snapshot each:
what remains is summed, the month's payments are counted for the number, the
row is inserted. `confirmPayment` looks at the voucher before and, with the row
locked, inside its transaction. An instruction is inserted, then the bank is
called (`wire`), then its answer stored; each is a step, and `Abandon` between
them is a crash, a lost call or an exception. The bank is external: it takes a
reference once (`BankReceive`), settles it either way (`BankSettle`), and may
answer "processing" or "unknown" for as long as it likes. "accepted" is
treated by all the code like "processing" and merged with it. A refusal at once
is a reception and a settlement before the answer. `cancelled` payments do not
occur: no code writes that status.

### Jobs

`Claim` is one UPDATE with SKIP LOCKED; `RunHandler` ends a handler, with or
without an error; `Settle` writes the outcome `resolveJobOutcome` computes,
`SettleFails` is that statement failing, which is only logged, and `Stop` ends
a process. Ticks overlap, as `setInterval` waits for nothing. `run_at` is kept
relative to the clock; what is overdue by more than `Lag` keeps only its
order, which is all that claiming looks at.

### Approvals

Every function of `approval/store.ts` runs in a transaction that locks the
instance's row before it reads anything of it, so an action of the model is a
whole operation. A flow is never altered; which of its steps an amount calls
for, and who the users of each are, is fixed when the instance is created, and
the model picks any panel of `Panels` for each step, since roles and managers
may resolve to anybody. A step is finished when all, or any, of those asked
have approved; a participant added to the current step counts as if asked
before. Watchers and the log of actions are left out, as no rule reads them.

### Requests

`transitionRequest` locks the request's row and then calls the budget's store,
whose statements take another connection of the pool and commit at once: the
model's slot goes through the applicable budgets one step at a time with the
row held (`lock`), then commits, then brings the approval instance up to date
in a transaction of its own (`Sync`). `Abandon` between any two of these is a
failure or a crash: the request rolls back, the budgets do not. A budget is
deleted after its reservations were counted, in two steps. The approval
engine's own routes may also be used on the instances (`ApprovalRoute`). An
edit reads and writes without a lock.

### BankReconciliation

A matching run reads the open lines once and then treats them one by one: it
scores the line against posted vouchers of the last 90 days, and writes a match,
a candidate, or raises an event and a task for it, each in its own statements.
The score is the code's, in the same bounded parts. Users confirm and reject
candidates meanwhile, and call a line anything: the route that matches by hand
writes whatever status and voucher the request names, `auto` and unposted
vouchers included, and no constraint of the schema stops it
(`banking/bank.routes.ts:121-128`). `MatchStatement` writes any of `Statuses`,
which the module asks to hold at least the three names the code itself uses,
with any voucher or none. Closing a reconciliation reads the book balance, the
bank's lines and the outstanding vouchers in separate steps and then upserts
its snapshot. One account; rules do not change; files are already parsed.

### FixedAssets

A card has a cost, a salvage value, a life in months, and the months it was
acquired and depreciation begins; amounts are cents, so that rounding shows.
`RunDepreciation` reads which assets are due, `ComputeDepreciation` computes
against what has been charged, `ChargeDepreciation` writes a row per asset under
the key of asset and month. A disposal looks for months still to be charged, then
sums what was charged, then writes; periods are locked and unlocked around it.
What the drafts become is the business of `VoucherLedger`.

### Expenses

A route reads the document, audits the invoices before a submission and checks
the user (`...Read`), and a transaction moves the document under the lock of its
row. A reimbursement's voucher is drafted in a further transaction, from
the row the first one returned; an advance's in the transaction that pays
it, which looks at the voucher a second time under the lock. `posted` and
`repaid` are what the ledger knows of an employee's account 1221: drafts that
were posted, and what manual vouchers credit; `Balance` is their net. The
approval instance that follows a document is not modelled a second time:
nothing in these two components reads it.

## 3. Runs

All bounds are constants of the modules and set in the `.cfg` files.

| Run | Instance | Asks | Shows |
|---|---|---|---|
| `orderly` | 2 slots, under `PostsAlone`, `NotRebuilt` and `NotLocked`; 2 users, one analysed, one template and one reversal voucher, 2 months, rows written at most 4 times | `DutiesSeparated LifecycleAgrees ImplementsBook PostedIsFinal` | the rules are right, and three overlaps are all that can break them |
| `overlap` | 2 slots; one analysed voucher, 2 reversals, 2 amounts | `UniqueNumbers PostedHasEntries EntryHasVoucher ReversedOnce` | what survives any interleaving |
| `closing_orderly` | 2 slots, under `Undisturbed`; 1 account, 2 years of 2 months, 2 postings, 1 reversal, drafted in the third month, no locks, no opening balances | `ClosingIsComplete YearIsComplete YearsCarryEarnings` | months and years in any order, late postings, losses, reversals of closings; and one kind of overlap is all that can break the closings |
| `closing_overlap` | 2 slots, under `NotLocked`; 1 account, 1 year of 2 months, 2 postings, 1 reversal, 2 opening amounts, December lockable | `TypeOK ClosingsInLedger OpeningInLedger LockedMonthFrozen` | closed twice at once: one voucher, and the profit recorded is the one moved; opening balances entered, deleted, entered again with another amount and reversed at once are in the ledger once, and no reversal outlives them; every way into the ledger asks the lock |
| `payments` | 2 slots; 1 instalment, 3 payments, 1 reference | `OneVoucher SentIsRecorded FinalIsTrue DraftsAreNotSent OverpaymentBounded` | confirming, sending and asking at the same time, losing calls and stopping anywhere |
| `jobs` | 2 ticks; 1 single and 2 recurring jobs, 2 claimed at once, 1 retry | `JobTypeOK OneRunner NoStarvation EventuallyEnds` | claiming is exclusive and fair, retries end |
| `approvals` | 2 users, 2 flows of 2 and 3 steps, 1 document, 2 instances, 2 amounts | `NoStepSkipped NeverStuck` | thresholds that leave gaps, both modes, added participants, withdrawals and new submissions |
| `requests` | 2 slots; 1 request, 2 overlapping budgets, 2 contents, 1 instance | `TypeOK OneEvent EndReleasesBudgets RealizedIsFinal` | transitions that fail or race half-way through the budgets |
| `bank` | 2 slots, one matching run at a time; 2 lines, 2 vouchers, 1 candidate, 4 statuses; 2 days to close, over the first line and voucher | `TypeOK RaisedOnce MatchedBalances AutoIsClose SealedByOverlapOnly` | runs stopped anywhere and confirmations at once, on lines that requests call anything meanwhile; balances with items on both sides, matched, excluded or missing; closings of one day or of two at once |
| `assets` | 2 slots, under `OneMonth` and `RunsBefore`; 2 assets, 3 months | `TypeOK ChargedInTurn NothingAfterDisposal` | months in any order, odd cents, disposals before, amid and after, and during the run of an earlier month |
| `expenses` | 2 slots; employee and manager, 1 advance, 2 reimbursements, 1 invoice | `InvoiceClaimedOnce OneVoucher` | everything sent twice, at once, or stopped half-way |
| `stale_status_race` | 2 slots; 1 voucher | `PostedStaysPosted`, which fails | section 5 |

**Why these bounds.** The conflicts of the handlers are between pairs: two
statements of two requests on one row, one number, one month or one instalment.
Two slots and one or two rows of each kind give every such pair; a third
request meets the same rows. Two months are the least with "earlier" and
"later", two years of two months the least in which a year has a month before
its last and a predecessor. Accounts of profit and loss are closed alike, each
by its own balance, so that the one of the closing runs stands for all; the
theorems are about any finite set of them. One voucher can be written four times: approve,
update, post, and once more after an analysis. Two users separate duties. A
failed job with one retry sees all three outcomes of `planRetry`; two recurring
jobs and a batch of two leave the third waiting. Three payments are needed by the mutant of
`OverpaymentBounded`; two suffice for what the code does. Numbers and amounts
are small because the code only adds and compares them; where it rounds or
scores, the instance has what makes that visible: a price that leaves an odd
cent, a line and a voucher whose keywords, day and name together score as much
as the code ever gives without the amount. Three steps of which the second may be below its
threshold are the least flow with a gap inside; two budgets, of which one covers
both contents of the request and the other one of them, the least in which a
transition stops between two and an edit changes which apply. Three months let
an asset be charged before, in and after its life, and a month be left out of it. Opening balances are left to
`closing_overlap`, since the properties of `closing_orderly` do not look at the one
account they are on. Two amounts of them are the least with which one entered again differs from the one
deleted. The orderly run drafts its reversal in the first month of the second
year (`Todays`), after the closings of the first and before those of the second, and
locks nothing, as a lock only refuses steps. Of a line's statuses the three the code
compares with and one that it does not, `excluded`, are all there is to tell apart.
Days are closed only while no more than the first line is imported and the first
voucher posted (`FirstOnly` of `MCBankReconciliation`): closings read lines and
vouchers and change none, so that two of each are matched in every way in the
behaviours without closings, and the overlap of two closings does not depend on
what they have read. Two
reimbursements and an invoice are the conflict there is.

**Conditions.** `orderly`, `closing_orderly`, `closing_overlap`, `bank` and
`assets` let two requests overlap and leave out the steps into the overlaps that
break some of their properties (`OrderlySpec`, `OpenSpec` and `OneRunSpec` of
their `MC` modules); section 5 describes what happens in those. `NotLocked`,
which only `LockedMonthFrozen` needs, takes nothing from the other properties of
`closing_overlap`: a lock only refuses steps, so that the same books are reached
without it. `OneRun`, which only `RaisedOnce` needs, does restrict the runs
that `AutoIsClose` sees; the theorem about `AutoIsClose` does not assume it.

**Symmetry** is used for slots, users, payments, references, accounts, assets
and reimbursements, where the module compares them only for equality. Of the runs with symmetry none
checks liveness; their `PROPERTY`s are safety properties.

**Deadlock.** `Payments`, `Jobs`, `Approvals`, `Requests`, `BankReconciliation`,
`FixedAssets` and `Expenses` stop when their finite sets of ids are used up
(`CHECK_DEADLOCK FALSE`), and so does `closing_orderly`, where nothing is locked and unlocked; the others never stop.

**Fairness.** Only `Jobs` has any: the clock runs, the timer fires again and
again (`jobs/runner.ts:116-119`), a handler ends, and a handler that ended is
settled or fails to be (the loop of `processDueJobs` goes on in either case).
Nothing forces a handler to succeed or a process to live. The API's other
components act only when a user asks them to and promise nothing about when.

## 4. Proofs

`tlapm` checks the seven proof modules and the lemmas of `Sums`. They assume
nothing but the named `ASSUME`s on constants (typing, and that the sets which
are summed or counted are finite), which TLC evaluates for every instance, and
what a theorem states itself. A theorem of the form `Spec => ...` holds for any
number of requests in flight that overlap in any way. Some state a hypothesis;
section 5 describes what breaks without those about overlaps:

| Hypothesis | Meaning | Needed, because |
|---|---|---|
| `Orderly` | while a voucher is being posted, nobody else posts, approves or edits it, and no analysis rebuilds it; all else may overlap | the posting is decided on what was read before |
| `[][NotLocked]_vars` (`LedgerImplementsBook` only) | no month is locked between the check and the commit of a posting into it | the lock is read before the transaction |
| `[][Undisturbed]_vars` | while a closing is under way, nobody else enters anything on the accounts it moves, in its month or before | it moves the balances it has read |
| `[][NotLocked]_vars` (`LockedMonthsAreFrozen`) | no month is locked between the check and the commit of a request that writes in it | the lock is read, not held |
| `[]OneMonth` | two runs of depreciation that overlap are of one month | the earlier month does not see the later one's charge |
| `[]RunsBefore` | a run that overlaps a disposal is of an earlier month than it | the run charges an asset that has left |
| `[]OneRun` | no two matching runs overlap; users still act during one | two runs both raise a line |
| `Cautious` | a threshold above 75, a tolerance of at most 100 cents, as in the defaults of the code | a company may configure others |

They are the conditions of the runs that check the same properties, too.

**VoucherLedgerProofs**, overlapping requests: `TypeOK`, `UniqueNumbers`,
`PostedHasEntries`, `EntryHasVoucher`, `ReversedOnce`. The inductive invariant
is their conjunction with `ReversalIds`. `UniqueNumbers` is inductive because
the index is consulted in the step that writes the number, and because a posted
row gets no other number, month or word except by a post; it needs nothing of
what was read before. `PostedHasEntries` and `EntryHasVoucher` need each
other's typing only: entries are removed in the step that removes the row.
`ReversedOnce` says that reversals are not reversed, and that rests on two
facts about requests in flight, not about rows: an id of a reversal is used
only by a reversal, and a request about to insert a reversal has read a voucher
that is none (`ReversalIds`), since ids of reversals are never used again.

Orderly overlaps: `DutiesSeparated`, `LifecycleAgrees`, `PostedIsFinal`
and `ImplementsBook`. The invariant is `OrderlyInv`, with five parts more.
`RowsAgree`: row, entries and run of each voucher tell one story, and a posted
row has an approver other than its poster. `ReadStill`: what each request in
flight relies on is still so. A posting relies on the whole row it has read,
which is what `Orderly` keeps others from changing; an approval or an edit only
on the voucher not being posted; a reversal on its being posted, which lasts.
`CommandsPast`: the
key of a posting that was done names an older version of the row, so that the
shortcut for a repeated command is never taken for a voucher that is not
posted. `ReversalsMirror`: a voucher that reverses mirrors a posted one, and
belongs to its event. `NumbersDense`: the numbers of a period and word have no
gap. From `ReversalsMirror` follows that an analysis never deletes a posted
voucher: one with a posted reversal does not stop the analysis, but that
reversal is a posted voucher of the same event which nothing reverses, and
does. Postings of different vouchers may compute the same number: then the
index refuses the second, and if the number is still free, all below it are
taken, as no posted voucher gives its number up. From `NumbersDense` follows
that this number is one more than the count of postings, which the book asks
for: the postings of a
series map one to one onto `1..n` (`NextIsCount`). The refinement then takes
each step: a posting is the one step that is not a stutter, or a lock's; that
its month is still open is `OpenStill`, which rests on `NotLocked`.

**PeriodClosingProofs**, overlapping requests: `TypeOK`, `ClosingsInLedger` and
`OpeningInLedger`. `ClosingsInLedger` relates two of the entries of a closing
to its row; what is inductive is all of them (`ClosingRows`, `AnnualRows`: a
closing's entries of a month net to zero, are absent without its row, and a
reversal enters under a source of its own), together with `YearsLocked`, the
row lock of `fiscal_years`, which makes the year's insertion the only one; a
month's is the only one through the unique index. `OpeningRows` says the same
of the opening voucher. Its reversal is written with lines read long before,
when the opening may have been another one, or been deleted between the two
queries: `ReversalLinesRead` and `ReversalLinesDrafted` say that the lines a
request or a draft holds are nevertheless those of some opening, or none. That
only one such reversal counts is the unique index, and that it does so only
while there is an opening is the foreign key, which keeps an opening that
anything reverses, a draft or not. What cannot be proved, as it fails, is that
the reversal's lines are those of the opening in the ledger
(`ReversalCancels`).

Orderly overlaps: `LockedMonthFrozen` adds `OpenStill`, that a month which a
request has found open, or whose opening it is about to delete, is still open.
`ClosingIsComplete`, `YearIsComplete` and `YearsCarryEarnings` add
`BalancesStill`: the
balances and the carried profit a closing has read are still what they were.
Completeness of a month is then one sum with the closing's lines subtracted
(`SumEntered`); that a year's profit is carried over once and for all is a sum
split by source, account and month: closings of months net to zero, closings of
years leave only what is recorded with them, and the rest is what was posted.

**PaymentsProofs** proves `TypeOK`, `OneVoucher`, `SentIsRecorded`,
`FinalIsTrue`, `DraftsAreNotSent` and `OverpaymentBounded` for every number of
slots, targets, payments and references. The invariants are about rows, the
danger is what requests remember: the strengthening `InFlight` says what a
request in flight may still rely on: that the rows it has read exist, that a
payment about to be sent has left the draft, and that a final answer not yet
stored is the bank's own state. It holds because rows are never deleted, no
statement writes `draft` over another status, and the bank's final states are
final. For `OverpaymentBounded` the invariant is `Committed`: what is spent
together with what requests in flight are about to add does not exceed one
amount due per slot, and each of them adds no more than that. A request that
reads adds to the second sum only if something was still due, so that the first
is below one amount due; a request that inserts moves its amount from one sum
to the other.

**RequestsProofs** begins with the engine: `ApprovalTypeOK`, `NoStepSkipped` and
`NeverStuck` hold of `Approvals` for any
users, flows of any length and any thresholds. What the two properties say of
the steps behind and of the current one is not inductive, as it says nothing of
the steps ahead: `RowOK` adds that nobody has been heard on those, so that each
has users to wait for when its turn comes, and that nobody has rejected the
current one, so that an approval either satisfies it or leaves somebody else to
wait for. It also says of a rejected instance what `NoStepSkipped` says, which
one step establishes and nothing disturbs: the step that rejects is taken by
somebody who was asked, at the current step, all before which are satisfied.

Then it proves that `Requests` implements `Approvals`
(`RequestsUseApprovals`: every step of the composition is a step of the engine
or leaves it alone), so that the engine's theorems hold of requests
(`RequestsAreDecidedFully`), and its invariant, the part of `TypeOK`
that is about instances, too. `DerivedOnce`, one event per request for any number of slots,
rests on the row lock: of the requests in flight one at most has a given row,
and what it has read of that row is still so (`EventInv`); only the content may
change under it, by an edit, which does not lock. The theorems about money,
`RealizedStays` and `EndsRelease`, need to know of budgets what a transition
relies on while it goes through them one commit at a time (`MoneyInv`): nothing
is reserved on a budget that is gone; what is realized belongs to a request
that was approved, from which no transition that reserves is reached again,
even if the one that realized failed afterwards; and the budgets that still
hold money for a request being ended are among those its transition has yet to
visit.

**BankReconciliationProofs** proves `TypeOK`, `AutoIsClose`, `MatchedBalances`,
`RaisedOnce` and `SealedByOverlapOnly`. `AutoIsClose` is about what the program
writes: a line becomes an automatic match, or its voucher changes while it is
one, otherwise than by a request that says so itself (`SaysAuto`). Requests can
say so of any voucher; no invariant of the table follows, and none is claimed.
It holds under `Cautious`: all
parts of the score but the amount's are bounded by 30 + 20 + 10, and an amount
that is close but not within tolerance adds 15 at most, so that nothing above
75 has a wrong amount; what a run knows may be stale but not wrong, since the
vouchers it has read are posted for good (`KnownArePosted`) and neither a line's
amount nor a posted voucher's total changes. `MatchedBalances` is not about steps but about
two sums: the lines and the vouchers matched with each other are the same
amounts, by a bijection, and what is left on either side is exactly what the
code lists as outstanding; it holds for any finite sets of lines and vouchers.
`RaisedOnce` needs that the lines a run has yet to raise were not raised
(`RaiseInv`). `SealedByOverlapOnly` assumes nothing about overlaps: once a day is
sealed no closing passes the check any more, so that those about to write it
only become fewer, and each replacement is one of them ending. How many replace
what has been sealed is thereby bounded by those that had found the day open
before; that it is none, `SealedIsFrozen`, fails as soon as there are two.

**ExpensesProofs** proves the types, `OneVoucher` and `InvoiceClaimedOnce` for
any number of slots, users, documents and invoices. No lock protects an
invoice. The argument is in `ClearedOnce`: call a reimbursement *cleared* if it
was submitted or if a request is about to submit it, having audited it. A
reimbursement's lines are in the table before it can be audited, and no row
loses or changes its lines; so of two that share an invoice, whichever is
audited later finds the other, cleared or not, and is refused. Only a
cancellation frees the invoice, and a cancelled document never comes back.
`InFlight` says that a request about to draft a reimbursement's voucher is the
only one for that document, since approval happens once.

**Sums.** The models sum with `SumFunctionOnSet`, which is defined by recursion
on a set, an arbitrary member first. `Sums` proves what such sums obey (one
member more, one value changed, disjoint sets, zeros, a renaming, bounds).
Induction on a predicate is out of the prover's reach, so it is stated for
sets: of some subsets of a finite set one is minimal (`MinimalSubset`), and the
minimal counterexample cannot be one.

**AssetsJobsProofs** proves `TypeOK`, `ChargedInTurn` and `NothingAfterDisposal`
of `FixedAssets`. A run computes an amount, and writes it later: `InTurn` says
that meanwhile the amount stays what is owed, no more than what remains and all
of it in the last month. What remains is a sum over earlier months, and these
are charged by runs of earlier months only, which `[]OneMonth` excludes. The
arithmetic underneath is that a month's share, rounded, is never more than what
remains. For a disposal the obvious invariant, that no request in flight
remembers an asset as present once it has left, is false: a run may well have
read the row before. `Left` says why that does no harm: when a disposal goes on,
its month has been charged or there is nothing to charge for it (`Settled`), and
what a run knows of an asset that has left is of an earlier month, or is the row
of the disposal itself, for whose month nothing more is due (`Informed`).

Of `Jobs` it proves `JobTypeOK` and `OneRunner`, for any number of ticks and
jobs. That `attempts` and `run_at` stay in their bounds needs that a power of two
is a positive integer, which is recursive in its definition and out of an
induction's reach here; it follows from the count of subsets of a set
(`PowerOfTwo`). `OneRunner` is inductive by the claim, which takes only
jobs whose row is pending, once it is known that a tick holds exactly the jobs
of its batch (`TicksOnly`).

**Only model-checked**: `NoStarvation` and `EventuallyEnds`, which are liveness
under fairness.

## 5. What the code does not keep

Statements of comments or tests that fail in the models. The first is shown by
a run and listed with its quotation under "findings" in `PROJECT.json`; each of
the others is a definition at the end of its module, and is shown by TLC when it
replaces the properties of the named `.cfg` (drop `SYMMETRY` for a shorter
trace to read).

1. `PostedStaysPosted` (run `stale_status_race`): an update or approval that read
   a draft overwrites the status of a voucher posted meanwhile; its entries
   stay in the ledger.
2. `ReversalCancels` (`PeriodClosingOverlap.cfg`): a reversal drafted with the lines of
   an opening that was deleted and entered again meanwhile, under its old id
   with another amount, does not level the one it reverses
   (`vouchers/routes.ts:75` and 136, `vouchers/reversal.ts:6-7`).
3. `SealedIsFrozen` (`BankReconciliation.cfg`): of two closings of one day at once the
   second overwrites what the first has sealed
   (`banking/reconciliation-session.ts:296` and 321, 270).
4. `ReversedEventReopens` (`VoucherLedgerOrderly.cfg`): the posted reversal itself
   keeps its event closed for ever to a new analysis.
5. `ClosingsKeepClosed` (`PeriodClosingOrderly.cfg`): closing a later month first
   and then an earlier one closes the earlier balance twice.
6. `ReportsAreRight` (`PeriodClosingOrderly.cfg`): reports count the reversal of a
   closing as a result.
7. `NeverOverpaid` (`Payments.cfg`): two payments created at once exceed what is
   due.
8. `CancelledIsUnpaid` (`Payments.cfg`): an instalment is cancelled while a
   payment of it is a draft, which is then confirmed.
9. `PendingIsFrozen` (`Requests.cfg`): an edit that read a draft writes after the
   submission, so that what is approved is not what was seen
   (`requests/store.ts:244-246`, written at 279-290).
10. `FinishedIsNotPending` (`Requests.cfg`): an instance stays pending after its
   document has been cancelled or completed, as the instance follows only some
   actions of some users (`requests/document-sync.ts:20-21` against 106-118).
11. `TimingBalances` (`BankReconciliation.cfg`): a matched line and voucher on
   different sides of the day are no outstanding items, and the adjusted
   balances differ (`banking/balance-reconciliation.ts:6-8`).
12. `NeverOverDepreciated` (`FixedAssets.cfg`): the last month of a life, run
    before an earlier one, charges all that remains; the earlier month is
    charged on top, since only the months before it are summed
    (`assets/asset-store.ts:416`; `assets/depreciation.ts:20-22`, 31-32).
13. `DisposalNetsAll` (`FixedAssets.cfg`): a month before the disposal, charged
    after it, is missing in the disposal's voucher (`assets/disposal.ts:23-29`).
14. `SettledWasLent` (`Expenses.cfg`): an advance whose payment voucher is still a
    draft owes nothing as far as the ledger knows, and can be settled at once
    (`advances/store.ts:268-269`).
15. `CancelledIsFinal` (`Expenses.cfg`): a payment decided on before a cancellation
    pays the cancelled advance, as the status is not read again under the lock
    (`advances/payment.ts:74-82`).
16. `InvoiceSpentOnce` (`Expenses.cfg`): cancelling an approved reimbursement frees
    its invoice although its voucher is, or will be, posted
    (`reimbursements/store.ts:355`, `reimbursements/audit.ts:86`).

The same models have counterexamples to properties that hold under a condition
on overlaps. They are described here rather than run;
the first four are what `NotLocked`, `Orderly` and `Undisturbed` exclude:

- *Post and lock* (`vouchers/routes.ts:451`): the lock is read before the
  transaction, so a post may commit into a month locked since; two slots break
  `ImplementsBook`. `closePeriod` and `closeFiscalYear` have the same gap
  between `checkPostable` and their commit, which breaks `LockedMonthFrozen`.
- *Two posts of one voucher* (`vouchers/routes.ts:511`): both succeed, the
  second replaces the first one's number and poster, and leaves a gap in the
  series.
- *Approve and post*: an approval by the poster that commits between the check
  of duties and the post leaves reviewer and poster the same. *Analyse and
  post*: a voucher rebuilt under its id in between is posted with the old
  lines, unapproved.
- *Post and close* (`ledger/close-period.ts:94`): a posting that commits while a
  closing is computed stays on the accounts of the closed month, and likewise
  for years (`ledger/annual-closing.ts:207`). Two months closed at once do the
  same to each other: the later one moves the earlier one's balance, too, and
  so both do.
- *Late posting*: a voucher posted into a month that is closed but not locked
  keeps its year from being closed (`ledger/annual-closing.ts:215`); one posted
  into a closed year is carried over with a later year's profit
  (`ledger/annual-closing.ts:189-190`).
- *Opening reversed*: the opening voucher can be reversed like any other, and
  then neither deleted (`src/migrations/044_voucher_reversal.sql:35`) nor entered
  again (`ledger/opening-balance.ts:251`), although it must be possible to take
  it back (`ledger/opening-balance.ts:428`). *Delete and close*
  (`ledger/opening-balance.ts:463`): a year closed between this read and the
  deletion does not stop it; and opening balances may be entered, though not
  deleted, after a year is closed.
- *Submit and confirm* (`payments/store.ts:323`): a paid payment becomes
  submitted again, and stays so. *Late answers*
  (`bank-connect/store.ts:508`): an older "processing" may overwrite a final
  status until the next query; and a payment sent twice has two references,
  which the bank cannot tell from two payments.
- *Lost jobs* (`jobs/runner.ts:91`): a job whose process stops, or whose
  settling fails, is "running" for ever; `EventuallyEnds` excepts it by name
  (`Lost`).
- *Budget deleted while reserving* (`budget/budget-store.ts:160`): a reservation
  made between the count and the delete goes with the budget.
- *Two matching runs* (`banking/reconciliation.ts:297`) both raise a line; a run
  overwrites the match a user made since it read the line
  (`banking/reconciliation.ts:231`).
- *Automatic by request* (`banking/bank.routes.ts:121-128`): a request may call a
  line `auto` with any voucher, posted or not, and of any amount; nothing in the
  table tells it from what the program has matched.
- *Depreciation during a disposal* (`assets/disposal.ts:235`): a run that read the
  asset before charges it after it has left, unless it is of an earlier month
  (`RunsBefore`). *Two runs of different months* (`assets/asset-store.ts:416`):
  neither sees the other's charge (`OneMonth`).
- *Approved without a voucher* (`reimbursements/routes.ts:252`): if the process
  stops between the approval and the draft, nothing drafts it later, although
  the comment there says that it can be generated again: an approved
  reimbursement cannot be approved again.

## 6. Not modelled

Of modelled components, see "Left out" in section 2 and the notes in
`PROJECT.json`. Not modelled yet: settlement of receivables
and payables, whose trigger (`src/migrations/063_ar_ap_settlement.sql`) sums without a lock; the
audit chain, whose predecessor is read per process; sessions.
Not planned: tax rules, payroll tables, reports, exports, searches, AI
assistants and the web client, which compute from or show what the modelled
parts keep, and make up most of the repository's lines; costs, currency
revaluation and recurring vouchers, which generate drafts whose life
`VoucherLedger` models; master data, which has little state; the multi-tenant
separation of rows, as one company is modelled. One component per line, with
the reason, is in `PROJECT.json`.

## 7. Plan

Done: `VoucherLedger` with `LedgerBook`, `PeriodClosing`, `Payments`,
`Approvals`, `Requests`, `BankReconciliation`, `Expenses`, `FixedAssets` and
`Jobs`, each with its proofs. Next, in this order:

1. Weaker conditions where one property of several needs less, such as runs of
   depreciation for different months whose assets differ.
2. Settlement of open items.
3. The audit chain and sessions, as small modules.
