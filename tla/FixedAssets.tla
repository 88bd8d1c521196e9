---------------------------- MODULE FixedAssets ----------------------------
(***************************************************************************)
(* Fixed assets (assets/): entering one, depreciating a month's assets     *)
(* with a draft voucher (depreciation.ts, depreciation-run.ts), disposing  *)
(* of one with another (disposal.ts).  Each runs in a transaction that     *)
(* reads first and writes last, each query sees what has been committed by *)
(* then, and only the keys of what is written refuse a second writer.      *)
(***************************************************************************)
EXTENDS Integers, Functions

CONSTANTS
  Slots,    \* transactions under way at the same time
  Assets,   \* ids, by number of the asset
  Cards,    \* what a user may enter for an asset
  Months,   \* bound: the last month there is
  Prices,   \* proceeds a disposal may have, in cents
  NoPrice   \* proceeds are not known yet

ASSUME FixedAssetsAssumption ==
  /\ Months \in Nat /\ Prices \subseteq Nat /\ NoPrice \notin Prices
  /\ \A c \in Cards : /\ c.cost \in Int /\ c.salvage \in Int /\ c.life \in Int
                      /\ c.acquired \in 1..Months /\ c.start \in 1..Months

Periods == 1..Months

VARIABLES
  asset,   \* fixed_assets: the rows; disposed is a period, or 0
  charged, \* fixed_asset_depreciations by asset and period, 0 without a row
  draft,   \* the lines of disposal vouchers, debits positive, by asset
  locked,  \* periods that are locked
  slot     \* what each transaction remembers

vars == <<asset, charged, draft, locked, slot>>

NoRow == [disposed |-> -1]
Idle  == [op |-> "idle"]

Lines == [accumulated : Int, clearing : Int, cost : Int, cash : Int, gain : Int]

Asset == {[card |-> c, disposed |-> p] : c \in Cards, p \in Periods \cup {0}}

(* What a transaction remembers: the amounts computed so far, the assets   *)
(* still to compute; how the asset was found.                              *)
Charging  == [op : {"run"}, period : Periods, todo : [Assets -> Asset \cup {NoRow}],
              amount : [Assets -> Nat]]
Disposing == [op : {"pending", "sum", "dispose"}, asset : Assets, row : Asset,
              period : Periods, accumulated : Nat]

Init ==
  /\ asset = [a \in Assets |-> NoRow]
  /\ charged = [a \in Assets |-> [p \in Periods |-> 0]]
  /\ draft = [a \in Assets |-> {}]
  /\ locked = {}
  /\ slot = [s \in Slots |-> Idle]

Exists(a)   == asset[a] # NoRow
Disposed(a) == asset[a].disposed > 0
Go(s, t)    == slot' = [slot EXCEPT ![s] = t]

-----------------------------------------------------------------------------
(* The depreciation of a month.                                            *)

DepreciableBase(card) == card.cost - card.salvage

MonthlyDepreciation(card) == DepreciableBase(card) \div card.life

IsFinalMonth(card, period) == period - card.start >= card.life - 1

IsDisposedBy(row, period) ==
  row.disposed > 0 /\ (row.disposed < period \/ row.disposed < row.card.start)

(* A plausible bug: the last month is charged like any other.              *)
DepreciationUntrimmed(row, period, accumulated) ==
  LET remaining == DepreciableBase(row.card) - accumulated
      monthly   == MonthlyDepreciation(row.card)
  IN IF IsDisposedBy(row, period) \/ period < row.card.start \/ remaining <= 0 \/ monthly <= 0
     THEN 0
     ELSE IF remaining <= monthly THEN remaining ELSE monthly

(* A plausible bug: the last month is trimmed, and those after it too.     *)
DepreciationEndless(row, period, accumulated) ==
  LET remaining == DepreciableBase(row.card) - accumulated
      monthly   == MonthlyDepreciation(row.card)
  IN IF IsDisposedBy(row, period) \/ period < row.card.start \/ monthly <= 0
     THEN 0
     ELSE IF IsFinalMonth(row.card, period) \/ remaining <= monthly
          THEN remaining ELSE monthly

(* depreciationForPeriod: the standard amount, or all that remains.        *)
DepreciationForPeriod(row, period, accumulated) ==
  LET remaining == DepreciableBase(row.card) - accumulated
      monthly   == MonthlyDepreciation(row.card)
  IN IF IsDisposedBy(row, period) \/ period < row.card.start \/ remaining <= 0 \/ monthly <= 0
     THEN 0
     ELSE IF IsFinalMonth(row.card, period) \/ remaining <= monthly
          THEN remaining ELSE monthly

(* accumulatedDepreciationCents: what was charged for earlier months.      *)
Accumulated(a, before) ==
  SumFunctionOnSet(charged[a], {p \in Periods : p < before})

TotalDepreciation(a) == SumFunctionOnSet(charged[a], Periods)

-----------------------------------------------------------------------------
(* Entering and depreciating.                                              *)

(* validate                                                                *)
Valid(card) ==
  card.cost > 0 /\ card.salvage \in 0..card.cost /\ card.life > 0

CreateFixedAsset(a, card) ==
  /\ ~Exists(a)
  /\ Valid(card)
  /\ asset' = [asset EXCEPT ![a] = [card |-> card, disposed |-> 0]]
  /\ UNCHANGED <<charged, draft, locked, slot>>

(* listDepreciableAssets                                                   *)
IsDepreciable(a, period) ==
  /\ Exists(a)
  /\ asset[a].card.start <= period
  /\ Disposed(a) => asset[a].disposed >= period

AlreadyRun(period) == \E a \in Assets : charged[a][period] > 0

(* runDepreciation up to the list of the assets.                           *)
RunDepreciation(s, period) ==
  /\ slot[s] = Idle
  /\ period \notin locked
  /\ ~AlreadyRun(period)
  /\ Go(s, [op |-> "run", period |-> period, amount |-> [a \in Assets |-> 0],
            todo |-> [a \in Assets |->
              IF IsDepreciable(a, period) THEN asset[a] ELSE NoRow]])
  /\ UNCHANGED <<asset, charged, draft, locked>>

(* One query per asset.                                                    *)
ComputeDepreciation(s, a) ==
  LET k == slot[s] IN
  /\ k.op = "run" /\ k.todo[a] # NoRow
  /\ Go(s, [k EXCEPT !.todo[a] = NoRow, !.amount[a] =
       DepreciationForPeriod(k.todo[a], k.period, Accumulated(a, k.period))])
  /\ UNCHANGED <<asset, charged, draft, locked>>

(* The draft voucher, whose id is that of the month, and a row per asset.  *)
ChargeDepreciation(s) ==
  LET k == slot[s] IN
  /\ k.op = "run" /\ \A a \in Assets : k.todo[a] = NoRow
  /\ \E a \in Assets : k.amount[a] > 0
  /\ ~AlreadyRun(k.period)
  /\ charged' = [a \in Assets |->
       [charged[a] EXCEPT ![k.period] = IF k.amount[a] > 0 THEN k.amount[a] ELSE @]]
  /\ Go(s, Idle)
  /\ UNCHANGED <<asset, draft, locked>>

-----------------------------------------------------------------------------
(* Disposing.                                                              *)

DisposeAsset(s, a, period) ==
  /\ slot[s] = Idle
  /\ Exists(a) /\ ~Disposed(a)
  /\ period >= asset[a].card.acquired
  /\ period \notin locked
  /\ Go(s, [op |-> "pending", asset |-> a, row |-> asset[a], period |-> period,
            accumulated |-> 0])
  /\ UNCHANGED <<asset, charged, draft, locked>>

(* A plausible bug: later months count as charged already.                 *)
PendingDepreciationTotal(a, row, period) ==
  /\ DepreciationForPeriod([row EXCEPT !.disposed = period], period,
                           TotalDepreciation(a)) # 0
  /\ charged[a][period] = 0

(* pendingDepreciation                                                     *)
PendingDepreciation(a, row, period) ==
  /\ DepreciationForPeriod([row EXCEPT !.disposed = period], period,
                           Accumulated(a, period)) # 0
  /\ charged[a][period] = 0

CheckPending(s) ==
  LET k == slot[s] IN
  /\ k.op = "pending"
  /\ ~PendingDepreciation(k.asset, k.row, k.period)
  /\ Go(s, [k EXCEPT !.op = "sum"])
  /\ UNCHANGED <<asset, charged, draft, locked>>

SumDepreciation(s) ==
  LET k == slot[s] IN
  /\ k.op = "sum"
  /\ Go(s, [k EXCEPT !.op = "dispose", !.accumulated = TotalDepreciation(k.asset)])
  /\ UNCHANGED <<asset, charged, draft, locked>>

(* buildDisposalLines, per account: what was not depreciated is cleared    *)
(* against the proceeds, and the difference is a gain or a loss.           *)
BuildDisposalLines(cost, accumulated, proceeds) ==
  LET net == cost - accumulated IN
  IF proceeds = NoPrice
  THEN [accumulated |-> accumulated, clearing |-> net, cost |-> -cost, cash |-> 0, gain |-> 0]
  ELSE [accumulated |-> accumulated, clearing |-> net - proceeds + (proceeds - net),
        cost |-> -cost, cash |-> proceeds, gain |-> -(proceeds - net)]

(* The id of the draft is the asset's, so that it is disposed of once.     *)
CommitDisposal(s, proceeds) ==
  LET k == slot[s] IN
  /\ k.op = "dispose"
  /\ draft[k.asset] = {}
  /\ draft' = [draft EXCEPT ![k.asset] =
       {BuildDisposalLines(k.row.card.cost, k.accumulated, proceeds)}]
  /\ asset' = [asset EXCEPT ![k.asset].disposed = k.period]
  /\ Go(s, Idle)
  /\ UNCHANGED <<charged, locked>>

-----------------------------------------------------------------------------
(* Refused, failed, or the process has stopped.                            *)
Rollback(s) ==
  /\ slot[s] # Idle
  /\ Go(s, Idle)
  /\ UNCHANGED <<asset, charged, draft, locked>>

SetLock(period) ==
  /\ locked' = IF period \in locked THEN locked \ {period} ELSE locked \cup {period}
  /\ UNCHANGED <<asset, charged, draft, slot>>

Next ==
  \/ \E a \in Assets, card \in Cards : CreateFixedAsset(a, card)
  \/ \E p \in Periods : SetLock(p)
  \/ \E s \in Slots :
       \/ \E p \in Periods : RunDepreciation(s, p)
       \/ \E a \in Assets : ComputeDepreciation(s, a)
       \/ ChargeDepreciation(s)
       \/ \E a \in Assets, p \in Periods : DisposeAsset(s, a, p)
       \/ CheckPending(s)
       \/ SumDepreciation(s)
       \/ \E proceeds \in Prices \cup {NoPrice} : CommitDisposal(s, proceeds)
       \/ Rollback(s)

Spec == Init /\ [][Next]_vars

-----------------------------------------------------------------------------
(* Every variable keeps its type.                                          *)
TypeOK ==
  /\ asset \in [Assets -> Asset \cup {NoRow}]
  /\ charged \in [Assets -> [Periods -> Nat]]
  /\ draft \in [Assets -> SUBSET Lines]
  /\ locked \subseteq Periods
  /\ slot \in [Slots -> {Idle} \cup Charging \cup Disposing]

(* Two transactions under way together may break the next two properties,  *)
(* and do only if they meet in one of these ways.                          *)

(* Runs that overlap are of one month, the second of which is refused.     *)
OneMonth ==
  \A s, t \in Slots : slot[s].op = "run" /\ slot[t].op = "run"
                        => slot[s].period = slot[t].period

(* A run that overlaps a disposal is of an earlier month than it.          *)
RunsBefore ==
  \A s, t \in Slots : slot[s].op = "run" /\ slot[t].op \in {"pending", "sum", "dispose"}
                        => slot[s].period < slot[t].period

(* An asset charged for a later month than all before is never charged     *)
(* more than it may lose in all, and once that month is the last of its    *)
(* life exactly that: whatever months were left out or run out of order,   *)
(* nothing is lost to rounding (depreciation.ts 27-32, 146-153).  As long  *)
(* as OneMonth.                                                            *)
ChargedInTurn ==
  [][\A a \in Assets, p \in Periods :
       /\ charged[a][p] = 0 /\ charged'[a][p] > 0
       /\ \A q \in Periods : q > p => charged[a][q] = 0
       => LET total == TotalDepreciation(a) + charged'[a][p] IN
          /\ total <= DepreciableBase(asset[a].card)
          /\ IsFinalMonth(asset[a].card, p) => total = DepreciableBase(asset[a].card)]_vars

(* After its disposal an asset is charged neither for the month it left in *)
(* nor for a later one (depreciation.ts 17-25, disposal.ts 165-185): what  *)
(* its voucher has netted can only miss earlier months.  As long as        *)
(* RunsBefore.                                                             *)
NothingAfterDisposal ==
  [][\A a \in Assets, p \in Periods :
       Disposed(a) /\ charged'[a][p] # charged[a][p] => p < asset[a].disposed]_vars

-----------------------------------------------------------------------------
(* What comments promise and the code does not keep.                       *)

(* What is charged for an asset adds up to at most its cost less its       *)
(* salvage value (depreciation.ts 20-22 and 31-32), in whatever order the  *)
(* months are run.                                                         *)
NeverOverDepreciated ==
  \A a \in Assets : Exists(a) => TotalDepreciation(a) <= DepreciableBase(asset[a].card)

(* The voucher of a disposal nets all that was ever charged for the asset  *)
(* (disposal.ts 23-29): no month is charged afterwards.                    *)
DisposalNetsAll ==
  \A a \in Assets : \A lines \in draft[a] : lines.accumulated = TotalDepreciation(a)
=============================================================================
