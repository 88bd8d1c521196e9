--------------------------- MODULE VoucherLedger ---------------------------
(***************************************************************************)
(* The voucher life cycle and the general ledger it feeds: vouchers are    *)
(* created as drafts, approved, posted into the ledger under a number and  *)
(* corrected only by reversal; accounting periods are locked and unlocked; *)
(* a business event can be analysed again, which deletes and rebuilds its  *)
(* vouchers.                                                               *)
(*                                                                         *)
(* A handler of the API reads the rows it needs in autocommit statements,  *)
(* decides, and then writes in a READ COMMITTED transaction.  A slot is    *)
(* one HTTP request in flight; what it read stays in the slot while other  *)
(* slots run.  With one slot, requests are served one at a time.           *)
(***************************************************************************)
EXTENDS Integers, FiniteSets

CONSTANTS
  Slots,        \* requests the server handles at the same time
  Users,        \* accountants (a request is made by one of them)
  Events,       \* business events
  Analysis,     \* deterministic ids voucher-<event>-<type> given by analysis
  Template,     \* ids of vouchers created from a template, fresh each time
  Reversal,     \* ids vch-rev-<voucher>-<time>, fresh each time
  EventOf,      \* the business event an Analysis or Template id belongs to
  Words,        \* voucher words: receipt, payment, general
  WordOf,       \* the word of an Analysis or Template id, from its type
  Amounts,      \* amounts a voucher can carry, a set of positive integers
  LastPeriod,   \* bound: the months are 1..LastPeriod
  PeriodOf,     \* the month in which a business event occurred
  MaxStamp,     \* bound: times a voucher row is written
  MaxSeq,       \* bound: voucher numbers within a period and word
  NoUser,       \* SQL null in approved_by_user_id
  NoVoucher     \* SQL null in reverses_voucher_id, and "no such row"

Ids     == Analysis \cup Template \cup Reversal
Periods == 1..LastPeriod

ASSUME ConstantsAssumption ==
  /\ LastPeriod \in Nat \ {0} /\ MaxStamp \in Nat /\ MaxSeq \in Nat
  /\ Amounts \subseteq Nat \ {0}
  /\ EventOf \in [Analysis \cup Template -> Events]
  /\ WordOf \in [Analysis \cup Template -> Words]
  /\ PeriodOf \in [Events -> Periods]
  /\ NoUser \notin Users
  /\ NoVoucher \notin Ids
  /\ (Analysis \cup Template) \cap Reversal = {}
  /\ Analysis \cap Template = {}
  /\ IsFiniteSet(Ids)

Statuses == {"draft", "review_required", "posted"}
Lines    == Amounts \cup {-a : a \in Amounts}

(* A row of vouchers. lines is the signed amount the voucher moves from    *)
(* its credit account to its debit account; seq = 0 is "no number yet".    *)
Voucher ==
  [event : Events, word : Words, period : Periods, lines : Lines,
   reverses : Ids \cup {NoVoucher}, status : Statuses,
   approver : Users \cup {NoUser}, postedAt : BOOLEAN, seq : Nat]

(* What a voucher has in ledger_entries, ledger_posting_batches and        *)
(* voucher_posting_records: the three are always written together.         *)
Entry == [lines : Lines, period : Periods, poster : Users]
NoEntry == [period |-> 0]

(* The workflow run of a voucher, as stored in workflow_runs.              *)
RunStates == {"none", "under_review", "completed"}

(* What a slot remembers between the statements of its handler.            *)
Approval == [op : {"approve"}, user : Users, id : Ids]
Edit     == [op : {"update"}, id : Ids, status : Statuses \ {"posted"}]
Reversing == [op : {"reverse"}, id : Ids, target : Voucher]
Posting  == [op : {"post.read", "post.checked"}, user : Users, id : Ids,
             target : Voucher, stamp : Nat]
Writing  == [op : {"post.started"}, user : Users, id : Ids,
             target : Voucher, stamp : Nat, seq : Nat, hit : BOOLEAN]
Requests == [op : {"idle"}] \cup Approval \cup Edit \cup Reversing
              \cup Posting \cup Writing

VARIABLES
  voucher,   \* vouchers: the rows, by id
  stamp,     \* updated_at of each id, as a count of writes; 0 = never existed
  entry,     \* the ledger entries of each voucher
  locked,    \* accounting_periods with is_locked
  month,     \* current_date, by month
  run,       \* workflow_runs.current_state of each voucher
  command,   \* succeeded voucher.post executions: (voucher, object_version)
  slot       \* the request each slot is serving

vars == <<voucher, stamp, entry, locked, month, run, command, slot>>
books == <<voucher, stamp, entry, run, command>>

Idle == [op |-> "idle"]
NoRow == [status |-> "none"]

Exists(v)    == voucher[v] # NoRow
IsPosted(v)  == voucher[v].status = "posted"
Free(s)      == slot[s] = Idle
Answer(s)    == slot' = [slot EXCEPT ![s] = Idle]

Init ==
  /\ voucher = [v \in Ids |-> NoRow]
  /\ stamp = [v \in Ids |-> 0]
  /\ entry = [v \in Ids |-> NoEntry]
  /\ locked = {}
  /\ month = 1
  /\ run = [v \in Ids |-> "none"]
  /\ command = {}
  /\ slot = [s \in Slots |-> Idle]

-----------------------------------------------------------------------------
(* Numbers and reversals: what the queries and unique indexes compute.     *)

(* Numbers in use: the rows of the partial unique index uq_vouchers_number *)
Numbered(p, w) ==
  {v \in Ids : /\ Exists(v) /\ IsPosted(v)
               /\ voucher[v].period = p /\ voucher[v].word = w}

(* coalesce(max(voucher_seq) + 1, 1) as a set with that single member      *)
NextSeqs(p, w) ==
  {n \in 1..MaxSeq :
     /\ \A v \in Numbered(p, w) : voucher[v].seq < n
     /\ n > 1 => \E v \in Numbered(p, w) : voucher[v].seq = n - 1}

(* A plausible bug: the unique index is missing.                          *)
NumberTakenUnindexed(v, p, w, n) == FALSE

NumberTaken(v, p, w, n) ==
  \E x \in Numbered(p, w) \ {v} : voucher[x].seq = n

ReversalsOf(v) == {r \in Ids : Exists(r) /\ voucher[r].reverses = v}

(* canReverseVoucher                                                       *)
CanReverse(v) ==
  /\ IsPosted(v) /\ voucher[v].postedAt
  /\ voucher[v].reverses = NoVoucher
  /\ ReversalsOf(v) = {}

(* A plausible bug: statuses are overwritten without a transition check.  *)
TransitionUnchecked(from, to) == TRUE

(* Workflow transitions from the state of a voucher's status.              *)
Transition(from, to) ==
  \/ from = to
  \/ <<from, to>> \in {<<"draft", "review_required">>}

MayExecute(status) == status \in {"draft", "review_required"}

(* A plausible bug: the poster is not compared with the reviewer.         *)
DutiesAllowedUnreviewed(reviewer, poster) ==
  \E authorizer \in Users : authorizer # poster

(* validateWorkflowAuthorization for voucher.post: the poster is not the   *)
(* recorded reviewer, and someone else than the poster authorises it.      *)
DutiesAllowed(reviewer, poster) ==
  /\ reviewer # NoUser => reviewer # poster
  /\ \E authorizer \in Users : authorizer # poster

IsLocked(p) == p \in locked
-----------------------------------------------------------------------------
(* Creation.                                                               *)

(* A plausible bug: a draft of complete material is stored as posted.     *)
DraftReady(e, w, p, amount, original, status) ==
  [event |-> e, word |-> w, period |-> p, lines |-> amount,
   reverses |-> original, approver |-> NoUser, postedAt |-> TRUE, seq |-> 0,
   status |-> IF status = "review_required" THEN "posted" ELSE status]

Draft(e, w, p, amount, original, status) ==
  [event |-> e, word |-> w, period |-> p, lines |-> amount,
   reverses |-> original, status |-> status, approver |-> NoUser,
   postedAt |-> FALSE, seq |-> 0]

(* createVoucherFromTemplate: a draft of a fresh id for an event, dated on *)
(* the day the event occurred.                                             *)
CreateVoucherFromTemplate(s, t, amount) ==
  /\ Free(s)
  /\ stamp[t] = 0
  /\ voucher' = [voucher EXCEPT ![t] =
       Draft(EventOf[t], WordOf[t], PeriodOf[EventOf[t]], amount, NoVoucher, "draft")]
  /\ stamp' = [stamp EXCEPT ![t] = 1]
  /\ UNCHANGED <<entry, locked, month, run, command, slot>>

(* evaluateAnalyzeGuard over loadAnalyzeGuardInput                         *)
VouchersOf(e) == {v \in Ids : Exists(v) /\ voucher[v].event = e}

PostedReversalOf(v, r) == voucher[r].status = "posted" /\ voucher[r].reverses = v

(* A plausible bug: posted vouchers do not stop a new analysis.           *)
BlocksAnalysisNever(v) == FALSE

BlocksAnalysis(v) ==
  IsPosted(v) /\ ~ \E r \in Ids : PostedReversalOf(v, r)

AnalyzeAllowed(e) ==
  /\ \A v \in VouchersOf(e) : ~BlocksAnalysis(v)
  /\ \A v \in VouchersOf(e) : entry[v].period \notin locked

(* analyzeEvent: in one transaction, with the event's voucher rows locked, *)
(* everything derived from the event is deleted and its vouchers are built *)
(* again under their deterministic ids.  An UPDATE that was waiting for    *)
(* one of the deleted rows now finds none.                                 *)
AnalyzeEvent(s, e, built, amount, status) ==
  LET gone == VouchersOf(e) IN
  /\ Free(s)
  /\ AnalyzeAllowed(e)
  /\ built \subseteq {a \in Analysis : EventOf[a] = e}
  /\ \A a \in built : stamp[a] < MaxStamp
  /\ voucher' = [v \in Ids |->
       IF v \in built
       THEN Draft(e, WordOf[v], PeriodOf[e], amount, NoVoucher, status)
       ELSE IF v \in gone THEN NoRow ELSE voucher[v]]
  /\ stamp' = [v \in Ids |-> IF v \in built THEN stamp[v] + 1 ELSE stamp[v]]
  /\ entry' = [v \in Ids |-> IF v \in gone THEN NoEntry ELSE entry[v]]
  /\ slot' = [x \in Slots |->
       IF slot[x].op = "post.started" /\ slot[x].id \in gone
       THEN [slot[x] EXCEPT !.hit = FALSE] ELSE slot[x]]
  /\ UNCHANGED <<locked, month, run, command>>

-----------------------------------------------------------------------------
(* approveVoucher: reads the voucher, then overwrites whatever is there.   *)

ApproveRead(s, u, v) ==
  /\ Free(s)
  /\ Exists(v)
  /\ Transition(voucher[v].status, "review_required")
  /\ slot' = [slot EXCEPT ![s] = [op |-> "approve", user |-> u, id |-> v]]
  /\ UNCHANGED <<books, locked, month>>

ApproveCommit(s) ==
  /\ slot[s].op = "approve"
  /\ LET v == slot[s].id IN
     /\ stamp[v] < MaxStamp
     /\ IF Exists(v)
        THEN /\ voucher' = [voucher EXCEPT ![v] =
                          [@ EXCEPT !.status = "review_required",
                                    !.approver = slot[s].user]]
             /\ stamp' = [stamp EXCEPT ![v] = @ + 1]
        ELSE UNCHANGED <<voucher, stamp>>
     /\ run' = [run EXCEPT ![v] = "under_review"]
  /\ Answer(s)
  /\ UNCHANGED <<entry, locked, month, command>>

-----------------------------------------------------------------------------
(* updateVoucher: edits the summary and may move the status, not to posted *)

UpdateRead(s, v, status) ==
  /\ Free(s)
  /\ Exists(v)
  /\ ~voucher[v].postedAt /\ ~IsPosted(v)
  /\ Transition(voucher[v].status, status)
  /\ slot' = [slot EXCEPT ![s] = [op |-> "update", id |-> v, status |-> status]]
  /\ UNCHANGED <<books, locked, month>>

UpdateCommit(s) ==
  /\ slot[s].op = "update"
  /\ LET v == slot[s].id IN
     /\ stamp[v] < MaxStamp
     /\ IF Exists(v)
        THEN /\ voucher' = [voucher EXCEPT ![v].status = slot[s].status]
             /\ stamp' = [stamp EXCEPT ![v] = @ + 1]
        ELSE UNCHANGED <<voucher, stamp>>
  /\ Answer(s)
  /\ UNCHANGED <<entry, locked, month, run, command>>

-----------------------------------------------------------------------------
(* postVoucher.                                                            *)

(* The voucher is read; a posted one is answered at once, an unapproved    *)
(* one refused.                                                            *)
PostRead(s, u, v) ==
  /\ Free(s)
  /\ Exists(v)
  /\ ~voucher[v].postedAt
  /\ voucher[v].approver # NoUser
  /\ slot' = [slot EXCEPT ![s] =
       [op |-> "post.read", user |-> u, id |-> v,
        target |-> voucher[v], stamp |-> stamp[v]]]
  /\ UNCHANGED <<books, locked, month>>

(* A plausible bug: the period lock is not read.                           *)
PostCheckUnlocked(s) ==
  /\ slot[s].op = "post.read"
  /\ DutiesAllowed(voucher[slot[s].id].approver, slot[s].user)
  /\ slot' = [slot EXCEPT ![s] = [@ EXCEPT !.op = "post.checked"]]
  /\ UNCHANGED <<books, locked, month>>

(* A second query reads the reviewer, a third the period lock.             *)
PostCheck(s) ==
  /\ slot[s].op = "post.read"
  /\ LET v == slot[s].id
         reviewer == IF Exists(v) THEN voucher[v].approver ELSE NoUser
     IN DutiesAllowed(reviewer, slot[s].user)
  /\ MayExecute(slot[s].target.status)
  /\ ~IsLocked(slot[s].target.period)
  /\ slot' = [slot EXCEPT ![s] = [@ EXCEPT !.op = "post.checked"]]
  /\ UNCHANGED <<books, locked, month>>

(* The transaction's UPDATE takes its snapshot: the number is computed, and *)
(* the row it will write is chosen.                                         *)
PostStart(s) ==
  /\ slot[s].op = "post.checked"
  /\ \E n \in NextSeqs(slot[s].target.period, slot[s].target.word) :
       slot' = [slot EXCEPT ![s] =
         [op |-> "post.started", user |-> @.user, id |-> @.id, target |-> @.target,
          stamp |-> @.stamp, seq |-> n, hit |-> Exists(@.id)]]
  /\ UNCHANGED <<books, locked, month>>

(* What a posting transaction would write over the row it found.           *)
MarkPosted(row, target, n) ==
  [row EXCEPT !.status = "posted", !.postedAt = TRUE, !.seq = n,
              !.period = target.period, !.word = target.word]

(* A plausible bug: the entries have no foreign key to the voucher.       *)
PostRefusedByNumber(r) ==
  r.hit /\ NumberTaken(r.id, r.target.period, r.target.word, r.seq)

(* The unique index refuses a number in use, the foreign keys of the       *)
(* entries refuse a voucher that does not exist.                           *)
PostRefused(r) ==
  \/ ~Exists(r.id)
  \/ r.hit /\ NumberTaken(r.id, r.target.period, r.target.word, r.seq)

(* The entries are rewritten from the lines that were read; the workflow   *)
(* run completes unless this version of the voucher was posted before.     *)
PostCommit(s) ==
  LET r == slot[s] IN
  /\ r.op = "post.started"
  /\ ~PostRefused(r)
  /\ r.hit => stamp[r.id] < MaxStamp
  /\ voucher' = IF r.hit
              THEN [voucher EXCEPT ![r.id] = MarkPosted(@, r.target, r.seq)]
              ELSE voucher
  /\ stamp' = IF r.hit THEN [stamp EXCEPT ![r.id] = @ + 1] ELSE stamp
  /\ entry' = [entry EXCEPT ![r.id] =
       [lines |-> r.target.lines, period |-> r.target.period, poster |-> r.user]]
  /\ IF <<r.id, r.stamp>> \in command
     THEN UNCHANGED <<run, command>>
     ELSE /\ command' = command \cup {<<r.id, r.stamp>>}
          /\ run' = [run EXCEPT ![r.id] = "completed"]
  /\ Answer(s)
  /\ UNCHANGED <<locked, month>>

-----------------------------------------------------------------------------
(* reverseVoucher: after the checks, a draft with the lines negated, dated  *)
(* today, under a fresh id.                                                 *)

ReverseRead(s, v) ==
  /\ Free(s)
  /\ Exists(v)
  /\ CanReverse(v)
  /\ ~IsLocked(entry[v].period)
  /\ slot' = [slot EXCEPT ![s] =
       [op |-> "reverse", id |-> v, target |-> voucher[v]]]
  /\ UNCHANGED <<books, locked, month>>

(* A plausible bug: no unique index on the reversed voucher.              *)
ReversalRefusedMissing(v) == ~Exists(v)

(* uq_vouchers_reverses_once and the foreign key to the reversed voucher   *)
ReversalRefused(v) == ~Exists(v) \/ ReversalsOf(v) # {}

ReverseCommit(s, r) ==
  /\ slot[s].op = "reverse"
  /\ stamp[r] = 0
  /\ LET v == slot[s].id
         t == slot[s].target
     IN /\ ~ReversalRefused(v)
        /\ voucher' = [voucher EXCEPT ![r] =
             Draft(t.event, t.word, month, -t.lines, v, "draft")]
  /\ stamp' = [stamp EXCEPT ![r] = 1]
  /\ Answer(s)
  /\ UNCHANGED <<entry, locked, month, run, command>>

-----------------------------------------------------------------------------
(* A request is given up between two of its steps: a check fails, the      *)
(* database refuses its transaction, or the server stops.                  *)
Abandon(s) ==
  /\ ~Free(s)
  /\ Answer(s)
  /\ UNCHANGED <<books, locked, month>>

LockAccountingPeriod(s, p) ==
  /\ Free(s)
  /\ ~IsLocked(p)
  /\ locked' = locked \cup {p}
  /\ UNCHANGED <<books, month, slot>>

UnlockAccountingPeriod(s, p) ==
  /\ Free(s)
  /\ IsLocked(p)
  /\ locked' = locked \ {p}
  /\ UNCHANGED <<books, month, slot>>

(* The calendar moves to the next month.                                   *)
NextMonth ==
  /\ month < LastPeriod
  /\ month' = month + 1
  /\ UNCHANGED <<books, locked, slot>>

Next ==
  \/ \E s \in Slots :
       \/ \E t \in Template, a \in Amounts : CreateVoucherFromTemplate(s, t, a)
       \/ \E e \in Events, built \in SUBSET Analysis, a \in Amounts,
             status \in Statuses \ {"posted"} : AnalyzeEvent(s, e, built, a, status)
       \/ \E u \in Users, v \in Ids : ApproveRead(s, u, v)
       \/ ApproveCommit(s)
       \/ \E v \in Ids, status \in Statuses \ {"posted"} : UpdateRead(s, v, status)
       \/ UpdateCommit(s)
       \/ \E u \in Users, v \in Ids : PostRead(s, u, v)
       \/ PostCheck(s)
       \/ PostStart(s)
       \/ PostCommit(s)
       \/ \E v \in Ids : ReverseRead(s, v)
       \/ \E r \in Reversal : ReverseCommit(s, r)
       \/ Abandon(s)
       \/ \E p \in Periods : LockAccountingPeriod(s, p)
       \/ \E p \in Periods : UnlockAccountingPeriod(s, p)
  \/ NextMonth

Spec == Init /\ [][Next]_vars

-----------------------------------------------------------------------------
(* Every variable keeps its type.                                          *)
TypeOK ==
  /\ voucher \in [Ids -> Voucher \cup {NoRow}]
  /\ stamp \in [Ids -> Nat]
  /\ entry \in [Ids -> Entry \cup {NoEntry}]
  /\ locked \subseteq Periods
  /\ month \in Periods
  /\ run \in [Ids -> RunStates]
  /\ command \subseteq Ids \X Nat
  /\ slot \in [Slots -> Requests]

-----------------------------------------------------------------------------
(* Safety whatever the interleaving of requests.                           *)

(* Two posted vouchers of one period and word never carry the same number, *)
(* although postVoucher computes max + 1 before it holds any lock.         *)
UniqueNumbers ==
  \A v, w \in Ids :
    /\ v # w /\ IsPosted(v) /\ IsPosted(w)
    /\ voucher[v].period = voucher[w].period /\ voucher[v].word = voucher[w].word
    => voucher[v].seq # voucher[w].seq

(* A voucher shown as posted has its entries in the ledger: no handler     *)
(* reaches "posted" around postVoucher, none removes the entries alone.    *)
PostedHasEntries == \A v \in Ids : IsPosted(v) => entry[v] # NoEntry

(* The ledger holds entries only of vouchers that exist, also when a post  *)
(* finishes after its voucher was deleted by analyzeEvent.                 *)
EntryHasVoucher == \A v \in Ids : entry[v] # NoEntry => Exists(v)

(* Of two requests that reverse the same voucher one fails, and a reversal *)
(* is never reversed.                                                      *)
ReversedOnce ==
  \A r, q \in Ids :
    Exists(r) /\ voucher[r].reverses # NoVoucher =>
      /\ Exists(q) /\ voucher[q].reverses = voucher[r].reverses => q = r
      /\ voucher[r].reverses # r
      /\ Exists(q) => voucher[q].reverses # r

(* Only ids of reversals reverse, and only other vouchers than reversals   *)
(* are reversed: what ReversedOnce rests on.                               *)
ReversalIds ==
  /\ \A v \in Ids : Exists(v) =>
       /\ v \in Reversal <=> voucher[v].reverses # NoVoucher
       /\ voucher[v].reverses \notin Reversal
  /\ \A s \in Slots : slot[s].op = "reverse" => slot[s].id \notin Reversal

-----------------------------------------------------------------------------
(* Safety of requests that overlap in an orderly way; LedgerBook says the   *)
(* most of it.  Three overlaps make the code break a promise, and Orderly   *)
(* excludes these and no more: a posting of a voucher together with another *)
(* posting, an approval or an edit of the same voucher; an analysis that    *)
(* rebuilds a voucher which is being posted; and a lock of the month that a *)
(* posting has found open.                                                  *)

PostOps == {"post.read", "post.checked", "post.started"}

Posts(s, v)   == slot[s].op \in PostOps /\ slot[s].id = v
Handles(s, v) == slot[s].op \in PostOps \cup {"approve", "update"} /\ slot[s].id = v

(* Whoever posts a voucher is alone in handling it.                        *)
PostsAlone ==
  \A s, t \in Slots, v \in Ids : Posts(s, v) /\ Handles(t, v) => s = t

(* No event is analysed again while a voucher of it is being posted.       *)
NotRebuilt ==
  \A t \in Slots, e \in Events : (\E v \in VouchersOf(e) : Posts(t, v)) =>
    \A s \in Slots, built \in SUBSET Analysis, a \in Amounts, st \in Statuses \ {"posted"} :
      ~AnalyzeEvent(s, e, built, a, st)

(* No month is locked between the check of a posting and its commit.       *)
NotLocked ==
  \A t \in Slots : slot[t].op \in {"post.checked", "post.started"} =>
    \A s \in Slots : ~LockAccountingPeriod(s, slot[t].target.period)

(* The book the ledger keeps, as LedgerBook sees it.                       *)
ledgerBook == [v \in Ids |->
  IF entry[v] = NoEntry THEN [number |-> 0]
  ELSE [lines |-> entry[v].lines, period |-> entry[v].period,
        word |-> voucher[v].word, number |-> voucher[v].seq,
        reverses |-> voucher[v].reverses]]

Book == INSTANCE LedgerBook WITH book <- ledgerBook, locked <- locked

(* The ledger implements the append-only book.                             *)
ImplementsBook == Book!Spec

(* Nothing of a posted voucher's row changes any more: neither its status  *)
(* nor its reviewer nor its lines nor its number.                          *)
PostedIsFinal ==
  [][\A v \in Ids : IsPosted(v) => voucher'[v] = voucher[v]]_vars

(* What is posted was approved, by another than who posted it, in whatever *)
(* order it was edited, approved and analysed again (routes.ts 399-440).   *)
DutiesSeparated ==
  \A v \in Ids : IsPosted(v) => voucher[v].approver \notin {NoUser, entry[v].poster}

(* Row, ledger and workflow run tell the same story of a voucher.          *)
LifecycleAgrees ==
  \A v \in Ids :
    /\ IsPosted(v) <=> entry[v] # NoEntry
    /\ IsPosted(v) <=> run[v] = "completed"
    /\ IsPosted(v) => voucher[v].postedAt

-----------------------------------------------------------------------------
(* What comments of the code promise and the code does not keep.           *)

(* A posted voucher stays posted: no update or approval takes it back      *)
(* (routes.ts 210-212).                                                    *)
PostedStaysPosted ==
  [][\A v \in Ids : IsPosted(v) => voucher'[v].status = "posted"]_vars

Reversed(v) == \E r \in Ids : PostedReversalOf(v, r)

(* Once every posted voucher of an event is reversed by a posted reversal  *)
(* and its periods are open, the event can be analysed again               *)
(* (analyze-guard.ts 17-20, analyze.routes.ts 140-141).                    *)
ReversedEventReopens ==
  \A e \in Events :
    (/\ \A v \in VouchersOf(e) :
          IsPosted(v) /\ voucher[v].reverses = NoVoucher => Reversed(v)
     /\ locked = {})
    => AnalyzeAllowed(e)
=============================================================================
