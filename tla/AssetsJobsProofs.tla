------------------------- MODULE AssetsJobsProofs -------------------------
(***************************************************************************)
(* Proofs about FixedAssets, for every number of transactions, assets,     *)
(* cards, months and prices, and about Jobs, for every number of ticks and *)
(* jobs.  The two share no state and no lemma.                             *)
(***************************************************************************)
EXTENDS FixedAssets, Jobs, Sums

-----------------------------------------------------------------------------
(* Fixed assets: shapes of the data.                                       *)

Leaving == {"pending", "sum", "dispose"}

Calls == {Idle} \cup Charging \cup Disposing

LEMMA CardShape ==
  ASSUME NEW card \in Cards
  PROVE  /\ card.cost \in Int /\ card.salvage \in Int /\ card.life \in Int
         /\ card.acquired \in Periods /\ card.start \in Periods
BY FixedAssetsAssumption DEF Periods

LEMMA PeriodsShape ==
  /\ Months \in Nat /\ IsFiniteSet(Periods)
  /\ \A p \in Periods : p \in Nat /\ p > 0
  /\ \A p \in Nat : IsFiniteSet({q \in Periods : q < p})
<1>1. Months \in Nat
  BY FixedAssetsAssumption
<1>2. IsFiniteSet(Periods)
  BY <1>1, FS_Interval DEF Periods
<1> QED
  BY <1>1, <1>2, FS_Subset DEF Periods

LEMMA RowShape ==
  /\ NoRow \notin Asset
  /\ \A row \in Asset :
       /\ row.card \in Cards /\ row.disposed \in Nat
       /\ row = [card |-> row.card, disposed |-> row.disposed]
       /\ \A p \in Periods : /\ [row EXCEPT !.disposed = p] = [card |-> row.card, disposed |-> p]
                             /\ [card |-> row.card, disposed |-> p] \in Asset
<1>1. NoRow \notin Asset
  <2>1. \A c \in Cards, q \in Periods \cup {0} : [card |-> c, disposed |-> q].disposed # NoRow.disposed
    BY PeriodsShape DEF NoRow
  <2> QED
    BY <2>1 DEF Asset
<1>2. ASSUME NEW row \in Asset
      PROVE  /\ row.card \in Cards /\ row.disposed \in Nat
             /\ row = [card |-> row.card, disposed |-> row.disposed]
             /\ \A p \in Periods : /\ [row EXCEPT !.disposed = p] = [card |-> row.card, disposed |-> p]
                                   /\ [card |-> row.card, disposed |-> p] \in Asset
  <2>1. PICK c \in Cards, q \in Periods \cup {0} : row = [card |-> c, disposed |-> q]
    BY DEF Asset
  <2>2. q \in Nat
    BY PeriodsShape
  <2>3. \A p \in Periods : [card |-> c, disposed |-> p] \in Asset
    BY DEF Asset
  <2> QED
    BY <2>1, <2>2, <2>3
<1> QED
  BY <1>1, <1>2

LEMMA AssetShape ==
  ASSUME TypeOK, NEW a \in Assets
  PROVE  /\ Exists(a) => asset[a] \in Asset
         /\ Disposed(a) => Exists(a) /\ asset[a].disposed \in Periods
<1>1. asset[a] \in Asset \cup {NoRow}
  BY DEF TypeOK
<1> QED
  BY <1>1, PeriodsShape DEF Exists, Disposed, Asset, NoRow

(* The step a transaction is at tells what it remembers.                   *)
LEMMA CallShape ==
  ASSUME NEW k \in Calls
  PROVE  /\ k.op = "run" => k \in Charging
         /\ k.op \in Leaving => k \in Disposing
         /\ k.op = "idle" => k = Idle
BY DEF Calls, Idle, Charging, Disposing, Leaving

-----------------------------------------------------------------------------
(* The arithmetic of a month.                                              *)

(* Never more than what remains, and in the last month all of it.          *)
LEMMA DepreciationBounds ==
  ASSUME NEW card \in Cards, Valid(card), NEW row, row.card = card, row.disposed \in Int,
         NEW period \in Periods, NEW accumulated \in Nat
  PROVE  LET amount    == DepreciationForPeriod(row, period, accumulated)
             remaining == DepreciableBase(card) - accumulated
         IN /\ amount \in Nat
            /\ amount > 0 => /\ amount <= remaining
                             /\ IsFinalMonth(card, period) => amount = remaining
<1>1. card.cost \in Int /\ card.salvage \in Int /\ card.life \in Int /\ card.life > 0
  BY CardShape DEF Valid
<1>2. DepreciableBase(card) \in Int
  BY <1>1 DEF DepreciableBase
<1>3. MonthlyDepreciation(card) \in Int
  BY <1>1, <1>2 DEF MonthlyDepreciation
<1> QED
  BY <1>2, <1>3 DEF DepreciationForPeriod

(* When nothing is charged in the month of a disposal.                     *)
LEMMA NothingDue ==
  ASSUME NEW card \in Cards, Valid(card), NEW p \in Periods, NEW accumulated \in Nat
  PROVE  DepreciationForPeriod([card |-> card, disposed |-> p], p, accumulated) = 0
           <=> \/ p < card.start
               \/ DepreciableBase(card) - accumulated <= 0
               \/ MonthlyDepreciation(card) <= 0
<1>1. card.cost \in Int /\ card.salvage \in Int /\ card.life \in Int /\ card.life > 0
      /\ card.start \in Int /\ p \in Int /\ p > 0
  BY CardShape, PeriodsShape DEF Valid
<1>2. DepreciableBase(card) \in Int
  BY <1>1 DEF DepreciableBase
<1>3. MonthlyDepreciation(card) \in Int
  BY <1>1, <1>2 DEF MonthlyDepreciation
<1> QED
  BY <1>1, <1>2, <1>3 DEF DepreciationForPeriod, IsDisposedBy

(* What was charged is counted in cents, none of them negative.            *)
LEMMA AccumulatedType ==
  ASSUME TypeOK, NEW a \in Assets
  PROVE  /\ TotalDepreciation(a) \in Nat
         /\ \A p \in Periods : Accumulated(a, p) \in Nat
<1>1. \A p \in Periods : charged[a][p] \in Nat
  BY DEF TypeOK
<1>2. TotalDepreciation(a) \in Nat
  BY <1>1, PeriodsShape, SumNatural DEF TotalDepreciation
<1>3. ASSUME NEW p \in Periods PROVE Accumulated(a, p) \in Nat
  <2> DEFINE S == {q \in Periods : q < p}
  <2>1. IsFiniteSet(S) /\ \A q \in S : charged[a][q] \in Nat
    BY <1>1, PeriodsShape
  <2> HIDE DEF S
  <2>2. SumFunctionOnSet(charged[a], S) \in Nat
    BY <2>1, SumNatural
  <2> QED
    BY <2>2 DEF S, Accumulated
<1> QED
  BY <1>2, <1>3

(* Where no month from p on is charged, the earlier ones are all there is. *)
LEMMA LastSoFar ==
  ASSUME TypeOK, NEW a \in Assets, NEW p \in Periods,
         \A q \in Periods : q >= p => charged[a][q] = 0
  PROVE  TotalDepreciation(a) = Accumulated(a, p)
<1> DEFINE S == {q \in Periods : q < p}
           f == charged[a]
<1>1. \A q \in Periods : f[q] \in Int
  BY DEF TypeOK
<1>2. S \in SUBSET Periods /\ \A q \in Periods \ S : f[q] = 0
  BY PeriodsShape
<1>3. IsFiniteSet(Periods)
  BY PeriodsShape
<1> HIDE DEF S, f
<1>4. SumFunctionOnSet(f, Periods) = SumFunctionOnSet(f, S)
  BY <1>1, <1>2, <1>3, SumSupport
<1> QED
  BY <1>4 DEF S, f, TotalDepreciation, Accumulated

-----------------------------------------------------------------------------
(* Rows once entered, and those that transactions have read, stay what     *)
(* they are but for the disposal.                                          *)

(* What a transaction has read of assets is still their card.              *)
Read(k) ==
  /\ k.op = "run" =>
       \A a \in Assets : k.todo[a] # NoRow => Exists(a) /\ k.todo[a].card = asset[a].card
  /\ k.op \in Leaving => Exists(k.asset) /\ k.row.card = asset[k.asset].card

Known ==
  /\ \A a \in Assets : Exists(a) => Valid(asset[a].card)
  /\ \A s \in Slots : Read(slot[s])

IInv == TypeOK /\ Known

LEMMA IdleRead == Idle \in Calls /\ Idle.op \notin Leaving \cup {"run"} /\ Read(Idle)
BY DEF Idle, Calls, Leaving, Read

LEMMA Initially == Init => IInv
<1> SUFFICES ASSUME Init PROVE IInv
  OBVIOUS
<1>1. TypeOK
  BY DEF Init, TypeOK
<1>2. Known
  BY IdleRead DEF Init, Known, Exists
<1> QED
  BY <1>1, <1>2 DEF IInv

(* A transaction takes a step of its own and writes nothing yet.           *)
LEMMA OwnStep ==
  ASSUME IInv, NEW s \in Slots, NEW x \in Calls, Read(x), Go(s, x),
         UNCHANGED <<asset, charged, draft>>, locked' \subseteq Periods
  PROVE  IInv'
<1>1. TypeOK'
  BY DEF IInv, TypeOK, Go, Calls
<1>2. \A t \in Slots : slot'[t] = slot[t] \/ slot'[t] = x
  BY DEF IInv, TypeOK, Go
<1>3. Known'
  BY <1>2 DEF IInv, Known, Read, Exists
<1> QED
  BY <1>1, <1>3 DEF IInv

(* Rows are written whose cards were known before.                         *)
LEMMA RowsWritten ==
  ASSUME IInv, asset' \in [Assets -> Asset \cup {NoRow}],
         charged' \in [Assets -> [Periods -> Nat]], draft' \in [Assets -> SUBSET Lines],
         locked' = locked,
         \A a \in Assets : Exists(a)' => Valid(asset'[a].card),
         \A a \in Assets : Exists(a) => Exists(a)' /\ asset'[a].card = asset[a].card,
         slot' = slot \/ \E s \in Slots : Go(s, Idle)
  PROVE  IInv'
<1>1. \A t \in Slots : slot'[t] = slot[t] \/ slot'[t] = Idle
  BY DEF IInv, TypeOK, Go
<1>2. slot' \in [Slots -> Calls]
  BY IdleRead DEF IInv, TypeOK, Go, Calls
<1>3. TypeOK'
  BY <1>2 DEF IInv, TypeOK, Calls
<1>4. ASSUME NEW t \in Slots PROVE Read(slot[t])'
  <2>1. CASE slot'[t] = Idle
    BY <2>1, IdleRead DEF Read
  <2>2. CASE slot'[t] = slot[t]
    <3>1. Read(slot[t]) /\ slot[t] \in Calls
      BY DEF IInv, Known, TypeOK, Calls
    <3>2. slot[t].op \in Leaving => slot[t].asset \in Assets
      BY <3>1, CallShape DEF Disposing
    <3> QED
      BY <2>2, <3>1, <3>2 DEF Read
  <2> QED
    BY <1>1, <2>1, <2>2
<1> QED
  BY <1>3, <1>4 DEF IInv, Known

LEMMA Creating ==
  ASSUME IInv, NEW a \in Assets, NEW card \in Cards, CreateFixedAsset(a, card)
  PROVE  IInv'
<1>1. [card |-> card, disposed |-> 0] \in Asset
  BY DEF Asset
<1>2. asset' \in [Assets -> Asset \cup {NoRow}] /\ asset'[a].card = card
  BY <1>1 DEF IInv, TypeOK, CreateFixedAsset
<1>3. \A b \in Assets : Exists(b)' => Valid(asset'[b].card)
  BY <1>2 DEF IInv, TypeOK, Known, CreateFixedAsset, Exists
<1>4. \A b \in Assets : Exists(b) => Exists(b)' /\ asset'[b].card = asset[b].card
  BY DEF IInv, TypeOK, CreateFixedAsset, Exists
<1> QED
  BY <1>2, <1>3, <1>4, RowsWritten DEF CreateFixedAsset, IInv, TypeOK

LEMMA Running ==
  ASSUME IInv, NEW s \in Slots, NEW p \in Periods, RunDepreciation(s, p)
  PROVE  IInv'
<1> DEFINE todo == [a \in Assets |-> IF IsDepreciable(a, p) THEN asset[a] ELSE NoRow]
           x == [op |-> "run", period |-> p, amount |-> [a \in Assets |-> 0], todo |-> todo]
<1>1. todo \in [Assets -> Asset \cup {NoRow}]
  BY DEF IInv, TypeOK
<1>2. x \in Calls
  BY <1>1 DEF Calls, Charging
<1>3. Read(x)
  BY DEF Read, Leaving, IsDepreciable
<1>4. Go(s, x)
  BY DEF RunDepreciation
<1> HIDE DEF x
<1> QED
  BY <1>2, <1>3, <1>4, OwnStep DEF RunDepreciation, IInv, TypeOK

(* What a transaction read of an asset it may still compute.               *)
LEMMA TodoShape ==
  ASSUME IInv, NEW s \in Slots, slot[s].op = "run"
  PROVE  /\ slot[s] \in Charging /\ slot[s].period \in Periods
         /\ slot[s].amount \in [Assets -> Nat] /\ slot[s].todo \in [Assets -> Asset \cup {NoRow}]
         /\ \A a \in Assets : slot[s].todo[a] # NoRow =>
              /\ slot[s].todo[a] \in Asset /\ Exists(a) /\ asset[a] \in Asset
              /\ slot[s].todo[a].card = asset[a].card
              /\ asset[a].card \in Cards /\ Valid(asset[a].card)
<1>1. slot[s] \in Charging
  BY CallShape DEF IInv, TypeOK, Calls
<1>2. \A a \in Assets : slot[s].todo[a] # NoRow => Exists(a) /\ slot[s].todo[a].card = asset[a].card
  BY DEF IInv, Known, Read
<1>3. /\ slot[s].period \in Periods /\ slot[s].amount \in [Assets -> Nat]
      /\ slot[s].todo \in [Assets -> Asset \cup {NoRow}]
  BY <1>1 DEF Charging
<1> QED
  BY <1>1, <1>2, <1>3, AssetShape, RowShape DEF IInv, Known

LEMMA Computing ==
  ASSUME IInv, NEW s \in Slots, NEW a \in Assets, ComputeDepreciation(s, a)
  PROVE  IInv'
<1> DEFINE k == slot[s]
           d == DepreciationForPeriod(k.todo[a], k.period, Accumulated(a, k.period))
           x == [k EXCEPT !.todo[a] = NoRow, !.amount[a] = d]
<1>1. k.op = "run" /\ k.todo[a] # NoRow /\ Go(s, x)
  BY DEF ComputeDepreciation
<1>2. d \in Nat
  <2>1. k.todo[a] \in Asset /\ asset[a].card \in Cards /\ Valid(asset[a].card)
        /\ k.todo[a].card = asset[a].card /\ k.period \in Periods
    BY <1>1, TodoShape
  <2>2. k.todo[a].disposed \in Int
    BY <2>1, RowShape
  <2>3. Accumulated(a, k.period) \in Nat
    BY <2>1, AccumulatedType DEF IInv
  <2> HIDE DEF k
  <2> QED
    BY <2>1, <2>2, <2>3, DepreciationBounds
<1>3. k \in Charging /\ k.amount \in [Assets -> Nat] /\ k.todo \in [Assets -> Asset \cup {NoRow}]
  BY <1>1, TodoShape
<1> HIDE DEF d
<1>4. x \in Charging
  BY <1>2, <1>3 DEF Charging
<1>5. Read(x)
  <2>1. x.op = "run"
    BY <1>3, <1>1 DEF Charging
  <2>2. \A b \in Assets : x.todo[b] # NoRow => x.todo[b] = k.todo[b] /\ k.todo[b] # NoRow
    BY <1>3 DEF Charging
  <2> HIDE DEF x
  <2> QED
    BY <2>1, <2>2, <1>1, TodoShape DEF Read, Leaving
<1> HIDE DEF x
<1> QED
  BY <1>1, <1>4, <1>5, OwnStep DEF ComputeDepreciation, IInv, TypeOK, Calls

LEMMA Charged ==
  ASSUME IInv, NEW s \in Slots, ChargeDepreciation(s)
  PROVE  IInv'
<1>1. slot[s].op = "run"
  BY DEF ChargeDepreciation
<1>2. slot[s].period \in Periods /\ slot[s].amount \in [Assets -> Nat]
  BY <1>1, TodoShape
<1>3. charged' \in [Assets -> [Periods -> Nat]]
  BY <1>2 DEF IInv, TypeOK, ChargeDepreciation
<1>4. UNCHANGED <<asset, draft, locked>> /\ Go(s, Idle)
  BY DEF ChargeDepreciation
<1> QED
  BY <1>3, <1>4, RowsWritten DEF IInv, TypeOK, Known, Exists

(* What a disposal has read of its asset.                                  *)
LEMMA LeavingShape ==
  ASSUME IInv, NEW s \in Slots, slot[s].op \in Leaving
  PROVE  /\ slot[s] \in Disposing /\ slot[s].period \in Periods /\ slot[s].asset \in Assets
         /\ slot[s].row \in Asset /\ slot[s].accumulated \in Nat
         /\ Exists(slot[s].asset) /\ asset[slot[s].asset] \in Asset
         /\ slot[s].row.card = asset[slot[s].asset].card
         /\ slot[s].row.card \in Cards /\ Valid(slot[s].row.card)
<1>1. slot[s] \in Disposing
  BY CallShape DEF IInv, TypeOK, Calls
<1>2. Exists(slot[s].asset) /\ slot[s].row.card = asset[slot[s].asset].card
  BY DEF IInv, Known, Read
<1>3. /\ slot[s].period \in Periods /\ slot[s].asset \in Assets
      /\ slot[s].row \in Asset /\ slot[s].accumulated \in Nat
  BY <1>1 DEF Disposing
<1> QED
  BY <1>1, <1>2, <1>3, AssetShape, RowShape DEF IInv, Known

LEMMA DisposalBegins ==
  ASSUME IInv, NEW s \in Slots, NEW a \in Assets, NEW p \in Periods, DisposeAsset(s, a, p)
  PROVE  IInv'
<1> DEFINE x == [op |-> "pending", asset |-> a, row |-> asset[a], period |-> p, accumulated |-> 0]
<1>1. Exists(a) /\ asset[a] \in Asset
  BY AssetShape DEF DisposeAsset, IInv
<1>2. x \in Calls /\ Read(x)
  BY <1>1 DEF Calls, Disposing, Read, Leaving
<1>3. Go(s, x)
  BY DEF DisposeAsset
<1> HIDE DEF x
<1> QED
  BY <1>2, <1>3, OwnStep DEF DisposeAsset, IInv, TypeOK

LEMMA DisposalGoesOn ==
  ASSUME IInv, NEW s \in Slots, CheckPending(s) \/ SumDepreciation(s)
  PROVE  IInv'
<1> DEFINE k == slot[s]
<1>1. k.op \in Leaving
  BY DEF CheckPending, SumDepreciation, Leaving
<1>2. k \in Disposing /\ Read(k) /\ k.asset \in Assets
  BY <1>1, LeavingShape DEF IInv, Known
<1>3. CASE CheckPending(s)
  <2> DEFINE x == [k EXCEPT !.op = "sum"]
  <2>1. Go(s, x)
    BY <1>3 DEF CheckPending
  <2>2. x \in Calls /\ Read(x)
    BY <1>1, <1>2 DEF Calls, Disposing, Read, Leaving
  <2> HIDE DEF x
  <2> QED
    BY <1>3, <2>1, <2>2, OwnStep DEF CheckPending, IInv, TypeOK
<1>4. CASE SumDepreciation(s)
  <2> DEFINE x == [k EXCEPT !.op = "dispose", !.accumulated = TotalDepreciation(k.asset)]
  <2>1. Go(s, x)
    BY <1>4 DEF SumDepreciation
  <2>2. TotalDepreciation(k.asset) \in Nat
    BY <1>2, AccumulatedType DEF IInv
  <2>3. x \in Calls /\ Read(x)
    BY <1>1, <1>2, <2>2 DEF Calls, Disposing, Read, Leaving
  <2> HIDE DEF x
  <2> QED
    BY <1>4, <2>1, <2>3, OwnStep DEF SumDepreciation, IInv, TypeOK
<1> QED
  BY <1>3, <1>4

LEMMA DisposalEnds ==
  ASSUME IInv, NEW s \in Slots, NEW proceeds \in Prices \cup {NoPrice}, CommitDisposal(s, proceeds)
  PROVE  IInv'
<1> DEFINE k == slot[s]
<1>1. k.op \in Leaving
  BY DEF CommitDisposal, Leaving
<1>2. /\ k.asset \in Assets /\ k.period \in Periods /\ k.accumulated \in Nat
      /\ Exists(k.asset) /\ asset[k.asset] \in Asset
      /\ k.row.card \in Cards
  BY <1>1, LeavingShape
<1>3. asset' = [asset EXCEPT ![k.asset] = [card |-> asset[k.asset].card, disposed |-> k.period]]
  <2>1. [asset[k.asset] EXCEPT !.disposed = k.period]
          = [card |-> asset[k.asset].card, disposed |-> k.period]
    BY <1>2, RowShape, Zenon
  <2>2. asset' = [asset EXCEPT ![k.asset] = [asset[k.asset] EXCEPT !.disposed = k.period]]
    BY Zenon DEF CommitDisposal
  <2> QED
    BY <2>1, <2>2, Zenon
<1>4. [card |-> asset[k.asset].card, disposed |-> k.period] \in Asset
  BY <1>2, RowShape
<1>5. asset' \in [Assets -> Asset \cup {NoRow}]
  BY <1>3, <1>4 DEF IInv, TypeOK
<1>6. \A a \in Assets : Exists(a) => Exists(a)' /\ asset'[a].card = asset[a].card
  BY <1>2, <1>3, <1>4, RowShape DEF IInv, TypeOK, Exists
<1>7. \A a \in Assets : Exists(a)' => Valid(asset'[a].card)
  BY <1>2, <1>3, <1>6 DEF IInv, TypeOK, Exists, Known
<1>8. draft' \in [Assets -> SUBSET Lines]
  <2>1. k.row.card.cost \in Int /\ k.accumulated \in Int
    BY <1>2, CardShape
  <2>2. proceeds # NoPrice => proceeds \in Int
    BY FixedAssetsAssumption
  <2>3. \A cost, sum \in Int : BuildDisposalLines(cost, sum, proceeds) \in Lines
    BY <2>2 DEF BuildDisposalLines, Lines
  <2> QED
    BY <2>1, <2>3 DEF CommitDisposal, IInv, TypeOK
<1>9. charged' \in [Assets -> [Periods -> Nat]] /\ locked' = locked /\ Go(s, Idle)
  BY DEF CommitDisposal, IInv, TypeOK
<1> QED
  BY <1>5, <1>6, <1>7, <1>8, <1>9, RowsWritten

LEMMA InvariantKept == IInv /\ [Next]_vars => IInv'
<1> SUFFICES ASSUME IInv, [Next]_vars PROVE IInv'
  OBVIOUS
<1>1. ASSUME NEW p \in Periods, SetLock(p) PROVE IInv'
  <2>1. locked' \subseteq Periods
    BY <1>1 DEF SetLock, IInv, TypeOK
  <2> QED
    BY <1>1, <2>1 DEF SetLock, IInv, TypeOK, Known, Read, Exists
<1>2. ASSUME NEW s \in Slots, Rollback(s) PROVE IInv'
  BY <1>2, IdleRead, OwnStep DEF Rollback, IInv, TypeOK
<1>3. CASE UNCHANGED vars
  BY <1>3 DEF vars, IInv, TypeOK, Known, Read, Exists
<1> QED
  BY <1>1, <1>2, <1>3, Creating, Running, Computing, Charged, DisposalBegins,
     DisposalGoesOn, DisposalEnds DEF Next

(* Rows keep their type, and so do transactions (fixed_assets,             *)
(* fixed_asset_depreciations and the vouchers of disposals).               *)
THEOREM TypeCorrect == Spec => []TypeOK
<1>1. IInv => TypeOK
  BY DEF IInv
<1> QED
  BY Initially, InvariantKept, <1>1, PTL DEF Spec

-----------------------------------------------------------------------------
(* What one step changes.                                                  *)

LEMMA SlotSteps ==
  ASSUME IInv, [Next]_vars, NEW t \in Slots, slot'[t] # slot[t]
  PROVE  \/ slot'[t] = Idle
         \/ \E p \in Periods : RunDepreciation(t, p)
         \/ \E a \in Assets : ComputeDepreciation(t, a)
         \/ \E a \in Assets, p \in Periods : DisposeAsset(t, a, p)
         \/ CheckPending(t)
         \/ SumDepreciation(t)
<1>1. \A s \in Slots : \A x : Go(s, x) =>
        slot'[s] = x /\ \A u \in Slots : u # s => slot'[u] = slot[u]
  BY DEF IInv, TypeOK, Go
<1>2. ASSUME NEW s \in Slots, NEW p \in Periods, RunDepreciation(s, p) PROVE s = t
  BY <1>1, <1>2 DEF RunDepreciation
<1>3. ASSUME NEW s \in Slots, NEW a \in Assets, ComputeDepreciation(s, a) PROVE s = t
  BY <1>1, <1>3, Zenon DEF ComputeDepreciation
<1>4. ASSUME NEW s \in Slots, NEW a \in Assets, NEW p \in Periods, DisposeAsset(s, a, p) PROVE s = t
  BY <1>1, <1>4 DEF DisposeAsset
<1>5. ASSUME NEW s \in Slots, CheckPending(s) PROVE s = t
  BY <1>1, <1>5 DEF CheckPending
<1>6. ASSUME NEW s \in Slots, SumDepreciation(s) PROVE s = t
  BY <1>1, <1>6 DEF SumDepreciation
<1>7. ASSUME NEW s \in Slots, NEW proceeds \in Prices \cup {NoPrice},
             ChargeDepreciation(s) \/ CommitDisposal(s, proceeds) \/ Rollback(s)
      PROVE  slot'[t] = Idle
  <2>1. Go(s, Idle)
    BY <1>7 DEF ChargeDepreciation, CommitDisposal, Rollback
  <2> QED
    BY <1>1, <2>1
<1>8. ~ UNCHANGED slot
  OBVIOUS
<1>9. NoPrice \in Prices \cup {NoPrice}
  OBVIOUS
<1>10. Next
  BY <1>8 DEF vars
<1> QED
  BY <1>2, <1>3, <1>4, <1>5, <1>6, <1>7, <1>8, <1>9, <1>10 DEF Next, CreateFixedAsset, SetLock

LEMMA AssetSteps ==
  ASSUME IInv, [Next]_vars, NEW a \in Assets, asset'[a] # asset[a]
  PROVE  \/ ~Exists(a) /\ asset'[a].disposed = 0
         \/ \E s \in Slots :
              /\ slot[s].op = "dispose" /\ slot[s].asset = a /\ draft[a] = {}
              /\ draft'[a] # {} /\ charged' = charged
              /\ asset'[a].disposed = slot[s].period
              /\ asset'[a].card = asset[a].card
<1>1. ASSUME NEW b \in Assets, NEW card \in Cards, CreateFixedAsset(b, card)
      PROVE  ~Exists(a) /\ asset'[a].disposed = 0
  BY <1>1 DEF CreateFixedAsset, IInv, TypeOK
<1>2. ASSUME NEW s \in Slots, NEW proceeds \in Prices \cup {NoPrice}, CommitDisposal(s, proceeds)
      PROVE  /\ slot[s].op = "dispose" /\ slot[s].asset = a /\ draft[a] = {}
             /\ draft'[a] # {} /\ charged' = charged
             /\ asset'[a].disposed = slot[s].period
             /\ asset'[a].card = asset[a].card
  <2>1. slot[s].op \in Leaving /\ slot[s].op = "dispose"
    BY <1>2 DEF CommitDisposal, Leaving
  <2>2. /\ slot[s].asset \in Assets /\ asset[slot[s].asset] \in Asset /\ slot[s].period \in Periods
    BY <2>1, LeavingShape
  <2>3. asset' = [asset EXCEPT ![slot[s].asset] = [asset[slot[s].asset] EXCEPT !.disposed = slot[s].period]]
    BY <1>2, Zenon DEF CommitDisposal
  <2>4. [asset[slot[s].asset] EXCEPT !.disposed = slot[s].period]
          = [card |-> asset[slot[s].asset].card, disposed |-> slot[s].period]
    BY <2>2, RowShape, Zenon
  <2>5. asset' = [asset EXCEPT ![slot[s].asset] =
                    [card |-> asset[slot[s].asset].card, disposed |-> slot[s].period]]
    BY <2>3, <2>4, Zenon
  <2>6. slot[s].asset = a
    BY <2>2, <2>5 DEF IInv, TypeOK
  <2>7. draft[a] = {} /\ draft'[a] # {} /\ charged' = charged
    BY <1>2, <2>6 DEF CommitDisposal, IInv, TypeOK
  <2> QED
    BY <2>1, <2>5, <2>6, <2>7 DEF IInv, TypeOK
<1>3. asset' # asset
  OBVIOUS
<1>4. Next
  BY <1>3 DEF vars
<1> QED
  BY <1>1, <1>2, <1>3, <1>4 DEF Next, SetLock, RunDepreciation, ComputeDepreciation, ChargeDepreciation,
     DisposeAsset, CheckPending, SumDepreciation, Rollback

(* Cards are entered once and for all.                                     *)
LEMMA CardsStay ==
  ASSUME IInv, [Next]_vars, NEW a \in Assets, Exists(a)
  PROVE  Exists(a)' /\ asset'[a].card = asset[a].card
<1>1. asset'[a].card = asset[a].card /\ (asset'[a] = asset[a] \/ asset'[a].disposed # -1)
  <2>1. CASE asset'[a] = asset[a]
    BY <2>1
  <2>2. CASE asset'[a] # asset[a]
    <3>1. PICK s \in Slots : /\ slot[s].op = "dispose" /\ asset'[a].disposed = slot[s].period
                             /\ asset'[a].card = asset[a].card
      BY <2>2, AssetSteps
    <3>2. slot[s].period \in Periods
      BY <3>1, LeavingShape DEF Leaving
    <3> QED
      BY <3>1, <3>2, PeriodsShape
  <2> QED
    BY <2>1, <2>2
<1> QED
  BY <1>1 DEF Exists, NoRow

(* What is charged for a month is charged once, by a run of that month.    *)
LEMMA ChargeSteps ==
  ASSUME IInv, [Next]_vars, NEW a \in Assets, NEW p \in Periods, charged'[a][p] # charged[a][p]
  PROVE  \E s \in Slots :
           /\ ChargeDepreciation(s) /\ slot[s].op = "run" /\ slot[s].period = p
           /\ charged[a][p] = 0 /\ slot[s].amount[a] > 0 /\ charged'[a][p] = slot[s].amount[a]
<1>1. charged' # charged
  OBVIOUS
<1>2. Next
  BY <1>1 DEF vars
<1>3. PICK s \in Slots : ChargeDepreciation(s)
  BY <1>1, <1>2 DEF Next, CreateFixedAsset, SetLock, RunDepreciation, ComputeDepreciation,
     DisposeAsset, CheckPending, SumDepreciation, CommitDisposal, Rollback
<1>4. slot[s].op = "run" /\ ~AlreadyRun(slot[s].period)
  BY <1>3 DEF ChargeDepreciation
<1>5. slot[s].period \in Periods /\ slot[s].amount \in [Assets -> Nat]
  BY <1>4, TodoShape
<1>6. charged' = [b \in Assets |->
        [charged[b] EXCEPT ![slot[s].period] =
           IF slot[s].amount[b] > 0 THEN slot[s].amount[b] ELSE charged[b][slot[s].period]]]
  BY <1>3 DEF ChargeDepreciation
<1>7. slot[s].period = p /\ slot[s].amount[a] > 0 /\ charged'[a][p] = slot[s].amount[a]
  BY <1>5, <1>6 DEF IInv, TypeOK
<1>8. charged[a][p] = 0
  <2>1. charged[a][p] \in Nat /\ ~(charged[a][p] > 0)
    BY <1>4, <1>7 DEF AlreadyRun, IInv, TypeOK
  <2> QED
    BY <2>1
<1> QED
  BY <1>3, <1>4, <1>7, <1>8

-----------------------------------------------------------------------------
(* Charged in turn: what a run will charge still is all that remains, or   *)
(* less than that, because no other run charges an earlier month meanwhile.*)

Owed(a, p, amount) ==
  LET remaining == DepreciableBase(asset[a].card) - Accumulated(a, p) IN
  /\ Exists(a)
  /\ amount <= remaining
  /\ IsFinalMonth(asset[a].card, p) => amount = remaining

InTurn ==
  \A s \in Slots, a \in Assets :
    slot[s].op = "run" /\ slot[s].amount[a] > 0 => Owed(a, slot[s].period, slot[s].amount[a])

(* It is owed as long as the earlier months are not charged.               *)
LEMMA OwedKept ==
  ASSUME IInv, [Next]_vars, NEW a \in Assets, NEW p \in Periods, NEW amount, Owed(a, p, amount),
         \A q \in Periods : q < p => charged'[a][q] = charged[a][q]
  PROVE  \A n : n = amount => Owed(a, p, n)'
<1> DEFINE S == {q \in Periods : q < p}
<1>1. Exists(a)' /\ asset'[a].card = asset[a].card
  BY CardsStay DEF Owed
<1>2. IsFiniteSet(S) /\ \A q \in S : charged[a][q] \in Int /\ charged[a][q] = charged'[a][q]
  BY PeriodsShape DEF IInv, TypeOK
<1>3. SumFunctionOnSet(charged[a], S) = SumFunctionOnSet(charged'[a], S)
  <2> HIDE DEF S
  <2> QED
    BY <1>2, SumAgree
<1>4. Accumulated(a, p)' = Accumulated(a, p)
  BY <1>3 DEF Accumulated
<1> QED
  BY <1>1, <1>4 DEF Owed, DepreciableBase, IsFinalMonth

LEMMA InTurnKept == IInv /\ InTurn /\ OneMonth /\ [Next]_vars => InTurn'
<1> SUFFICES ASSUME IInv, InTurn, OneMonth, [Next]_vars, NEW s \in Slots, NEW a \in Assets,
                    slot'[s].op = "run", slot'[s].amount[a] > 0
             PROVE  Owed(a, slot[s].period, slot[s].amount[a])'
  BY DEF InTurn
<1>1. CASE slot'[s] = slot[s]
  <2>1. slot[s].op = "run" /\ slot[s].period \in Periods /\ Owed(a, slot[s].period, slot[s].amount[a])
    BY <1>1, TodoShape DEF InTurn
  <2>2. \A q \in Periods : q < slot[s].period => charged'[a][q] = charged[a][q]
    <3> SUFFICES ASSUME NEW q \in Periods, q < slot[s].period, charged'[a][q] # charged[a][q]
                 PROVE  FALSE
      OBVIOUS
    <3>1. PICK t \in Slots : slot[t].op = "run" /\ slot[t].period = q
      BY ChargeSteps
    <3> QED
      BY <2>1, <3>1, PeriodsShape DEF OneMonth
  <2>3. PICK p, n : p = slot[s].period /\ n = slot[s].amount[a]
    OBVIOUS
  <2>4. p \in Periods /\ Owed(a, p, n)
    BY <2>1, <2>3
  <2>5. Owed(a, p, n)'
    BY <2>2, <2>3, <2>4, OwedKept
  <2> QED
    BY <1>1, <2>3, <2>5
<1>2. CASE slot'[s] # slot[s]
  <2>1. \/ \E p \in Periods : RunDepreciation(s, p)
        \/ \E b \in Assets : ComputeDepreciation(s, b)
    <3>1. slot'[s] # Idle
      BY IdleRead
    <3>2. ASSUME NEW b \in Assets, NEW p \in Periods, DisposeAsset(s, b, p) PROVE FALSE
      BY <3>2 DEF DisposeAsset, Go, IInv, TypeOK
    <3>3. ASSUME CheckPending(s) \/ SumDepreciation(s) PROVE FALSE
      <4>1. slot[s] \in Disposing
        BY <3>3, LeavingShape DEF CheckPending, SumDepreciation, Leaving
      <4>2. CASE CheckPending(s)
        <5>1. slot'[s] = [slot[s] EXCEPT !.op = "sum"]
          BY <4>2 DEF CheckPending, Go, IInv, TypeOK
        <5> QED
          BY <4>1, <5>1 DEF Disposing
      <4>3. CASE SumDepreciation(s)
        <5>1. PICK n : slot'[s] = [slot[s] EXCEPT !.op = "dispose", !.accumulated = n]
          BY <4>3, Zenon DEF SumDepreciation, Go, IInv, TypeOK
        <5> QED
          BY <4>1, <5>1 DEF Disposing
      <4> QED
        BY <3>3, <4>2, <4>3
    <3> QED
      BY <1>2, <3>1, <3>2, <3>3, SlotSteps
  <2>2. ASSUME NEW p \in Periods, RunDepreciation(s, p) PROVE FALSE
    <3>1. slot'[s].amount = [b \in Assets |-> 0]
      BY <2>2 DEF RunDepreciation, Go, IInv, TypeOK
    <3> QED
      BY <3>1
  <2>3. ASSUME NEW b \in Assets, ComputeDepreciation(s, b)
        PROVE  Owed(a, slot[s].period, slot[s].amount[a])'
    <3> DEFINE k == slot[s]
               d == DepreciationForPeriod(k.todo[b], k.period, Accumulated(b, k.period))
    <3>1. k.op = "run" /\ k.todo[b] # NoRow
      BY <2>3 DEF ComputeDepreciation
    <3>2. /\ k \in Charging /\ k.period \in Periods /\ k.amount \in [Assets -> Nat]
          /\ k.todo[b] \in Asset /\ Exists(b) /\ k.todo[b].card = asset[b].card
          /\ asset[b].card \in Cards /\ Valid(asset[b].card)
      BY <3>1, TodoShape
    <3>3. slot'[s] = [k EXCEPT !.todo[b] = NoRow, !.amount[b] = d]
      BY <2>3, Zenon DEF ComputeDepreciation, Go, IInv, TypeOK
    <3>4. slot'[s].period = k.period /\ slot'[s].amount[a] = IF a = b THEN d ELSE k.amount[a]
      <4> HIDE DEF d
      <4> QED
        BY <3>2, <3>3 DEF Charging
    <3>5. charged' = charged /\ asset' = asset
      BY <2>3 DEF ComputeDepreciation
    <3>6. Owed(a, k.period, slot'[s].amount[a])
      <4>1. CASE a # b
        BY <3>1, <3>4, <4>1 DEF InTurn
      <4>2. CASE a = b
        <5>1. Accumulated(b, k.period) \in Nat
          BY <3>2, AccumulatedType DEF IInv
        <5>2. k.todo[b].disposed \in Int
          BY <3>2, RowShape
        <5>3. d > 0 => d <= DepreciableBase(asset[b].card) - Accumulated(b, k.period)
                    /\ (IsFinalMonth(asset[b].card, k.period)
                          => d = DepreciableBase(asset[b].card) - Accumulated(b, k.period))
          <6> HIDE DEF k
          <6> QED
            BY <3>2, <5>1, <5>2, DepreciationBounds
        <5> HIDE DEF d
        <5> QED
          BY <3>2, <3>4, <4>2, <5>3 DEF Owed
      <4> QED
        BY <4>1, <4>2
    <3>7. PICK p, n : p = slot'[s].period /\ n = slot'[s].amount[a]
      OBVIOUS
    <3>8. Owed(a, p, n)
      BY <3>4, <3>6, <3>7
    <3>9. Owed(a, p, n)'
      BY <3>5, <3>8 DEF Owed, Exists, Accumulated
    <3> QED
      BY <3>7, <3>9
  <2> QED
    BY <2>1, <2>2, <2>3
<1> QED
  BY <1>1, <1>2

(* As long as runs that overlap are of one month, an asset charged in the  *)
(* order of the months is never charged more than it may lose, and by the  *)
(* end of its life exactly that (depreciation.ts 27-32, 146-153).          *)
THEOREM ChargedWithinBase == Spec /\ []OneMonth => ChargedInTurn
<1>1. Init => InTurn
  BY IdleRead DEF Init, InTurn
<1> DEFINE Goal == \A a \in Assets, p \in Periods :
       /\ charged[a][p] = 0 /\ charged'[a][p] > 0
       /\ \A q \in Periods : q > p => charged[a][q] = 0
       => LET total == TotalDepreciation(a) + charged'[a][p] IN
          /\ total <= DepreciableBase(asset[a].card)
          /\ IsFinalMonth(asset[a].card, p) => total = DepreciableBase(asset[a].card)
<1>2. IInv /\ InTurn /\ [Next]_vars => Goal
  <2> SUFFICES ASSUME IInv, InTurn, [Next]_vars, NEW a \in Assets, NEW p \in Periods,
                      charged[a][p] = 0, charged'[a][p] > 0,
                      \A q \in Periods : q > p => charged[a][q] = 0
               PROVE  LET total == TotalDepreciation(a) + charged'[a][p] IN
                      /\ total <= DepreciableBase(asset[a].card)
                      /\ IsFinalMonth(asset[a].card, p) => total = DepreciableBase(asset[a].card)
    OBVIOUS
  <2>1. PICK s \in Slots : /\ slot[s].op = "run" /\ slot[s].period = p
                          /\ slot[s].amount[a] > 0 /\ charged'[a][p] = slot[s].amount[a]
    BY ChargeSteps
  <2>2. Owed(a, p, charged'[a][p])
    BY <2>1 DEF InTurn
  <2>3. TotalDepreciation(a) = Accumulated(a, p)
    <3>1. \A q \in Periods : q >= p => charged[a][q] = 0
      BY PeriodsShape
    <3> QED
      BY <3>1, LastSoFar DEF IInv
  <2>4. charged'[a][p] \in Nat /\ Accumulated(a, p) \in Nat
    BY <2>1, TodoShape, AccumulatedType DEF IInv
  <2>5. DepreciableBase(asset[a].card) \in Int
    <3>1. asset[a].card \in Cards
      BY <2>2, AssetShape, RowShape DEF Owed, IInv
    <3> QED
      BY <3>1, CardShape DEF DepreciableBase
  <2> QED
    BY <2>2, <2>3, <2>4, <2>5 DEF Owed
<1> QED
  BY Initially, InvariantKept, InTurnKept, <1>1, <1>2, PTL DEF Spec, ChargedInTurn

-----------------------------------------------------------------------------
(* Nothing is charged after a disposal: the month an asset leaves in is    *)
(* charged before, or there is nothing to charge in it, and the runs under *)
(* way know of the disposal or are of earlier months.                      *)

(* A disposal in p finds no charge of that month pending.                  *)
Settled(a, card, p) ==
  \/ charged[a][p] # 0
  \/ DepreciationForPeriod([card |-> card, disposed |-> p], p, Accumulated(a, p)) = 0

Informed(k, a) ==
  k.op = "run" /\ Disposed(a) =>
    /\ k.todo[a] # NoRow => \/ k.period < asset[a].disposed
                            \/ k.todo[a] = asset[a] /\ k.period = asset[a].disposed
    /\ k.amount[a] > 0 => k.period < asset[a].disposed \/ charged[a][k.period] # 0

Left ==
  /\ \A a \in Assets :
       Disposed(a) => draft[a] # {} /\ Settled(a, asset[a].card, asset[a].disposed)
  /\ \A s \in Slots :
       slot[s].op \in {"sum", "dispose"} => Settled(slot[s].asset, slot[s].row.card, slot[s].period)
  /\ \A s \in Slots, a \in Assets : Informed(slot[s], a)

(* What is charged stays charged.                                          *)
LEMMA ChargedGrows ==
  ASSUME IInv, [Next]_vars, NEW a \in Assets, NEW p \in Periods
  PROVE  /\ charged[a][p] \in Nat /\ charged'[a][p] \in Nat /\ charged[a][p] <= charged'[a][p]
         /\ charged[a][p] # 0 => charged'[a][p] # 0
<1>1. charged[a][p] \in Nat /\ charged'[a][p] \in Nat
  BY InvariantKept DEF IInv, TypeOK
<1>2. CASE charged'[a][p] = charged[a][p]
  BY <1>1, <1>2
<1>3. CASE charged'[a][p] # charged[a][p]
  <2>1. charged[a][p] = 0
    BY <1>3, ChargeSteps
  <2> QED
    BY <1>1, <2>1
<1> QED
  BY <1>2, <1>3

(* It stays settled, for no earlier month is uncharged again.              *)
LEMMA SettledKept ==
  ASSUME IInv, [Next]_vars, NEW a \in Assets, NEW card \in Cards, Valid(card), NEW p \in Periods,
         Settled(a, card, p)
  PROVE  Settled(a, card, p)'
<1>1. CASE charged[a][p] # 0
  BY <1>1, ChargedGrows DEF Settled
<1>2. CASE charged[a][p] = 0
  <2> DEFINE S == {q \in Periods : q < p}
  <2>1. IsFiniteSet(S) /\ S \subseteq Periods
    BY PeriodsShape
  <2>2. \A q \in S : charged[a][q] \in Int /\ charged'[a][q] \in Int /\ charged[a][q] <= charged'[a][q]
    BY <2>1, ChargedGrows
  <2>3. SumFunctionOnSet(charged[a], S) <= SumFunctionOnSet(charged'[a], S)
    <3> HIDE DEF S
    <3> QED
      BY <2>1, <2>2, SumMonotone
  <2>4. PICK n : n = Accumulated(a, p)
    OBVIOUS
  <2>5. PICK m : m = Accumulated(a, p)'
    OBVIOUS
  <2>6. n <= m
    BY <2>3, <2>4, <2>5 DEF Accumulated
  <2>7. n \in Nat
    BY <2>4, AccumulatedType DEF IInv
  <2>8. m \in Nat
    <3>1. TypeOK'
      BY InvariantKept DEF IInv
    <3>2. \A q \in S : charged'[a][q] \in Nat
      BY <3>1, <2>1 DEF TypeOK
    <3>3. SumFunctionOnSet(charged'[a], S) \in Nat
      <4> HIDE DEF S
      <4> QED
        BY <2>1, <3>2, SumNatural
    <3> QED
      BY <3>3, <2>5 DEF Accumulated
  <2>9. DepreciationForPeriod([card |-> card, disposed |-> p], p, n) = 0
    BY <1>2, <2>4 DEF Settled
  <2>10. DepreciableBase(card) \in Int
    BY CardShape DEF DepreciableBase
  <2>11. DepreciationForPeriod([card |-> card, disposed |-> p], p, m) = 0
    BY <2>6, <2>7, <2>8, <2>9, <2>10, NothingDue
  <2>12. DepreciationForPeriod([card |-> card, disposed |-> p], p, m)'
           = DepreciationForPeriod([card |-> card, disposed |-> p], p, m)
    BY DEF DepreciationForPeriod, IsDisposedBy, DepreciableBase, MonthlyDepreciation, IsFinalMonth
  <2> QED
    BY <2>5, <2>11, <2>12 DEF Settled
<1> QED
  BY <1>1, <1>2

LEMMA RowLeft ==
  ASSUME IInv, Left, [Next]_vars, NEW a \in Assets, Disposed(a)'
  PROVE  (draft[a] # {} /\ Settled(a, asset[a].card, asset[a].disposed))'
<1>1. CASE asset'[a] = asset[a]
  <2>1. Disposed(a) /\ draft[a] # {} /\ Settled(a, asset[a].card, asset[a].disposed)
    BY <1>1 DEF Disposed, Left
  <2>2. /\ asset[a] \in Asset /\ asset[a].disposed \in Periods /\ Exists(a)
        /\ asset[a].card \in Cards /\ Valid(asset[a].card)
    BY <2>1, AssetShape, RowShape DEF IInv, Known
  <2>3. PICK card, p : card = asset[a].card /\ p = asset[a].disposed
    OBVIOUS
  <2>4. Settled(a, card, p)'
    BY <2>1, <2>2, <2>3, SettledKept
  <2>5. draft'[a] # {}
    <3>1. ASSUME NEW s \in Slots, NEW proceeds \in Prices \cup {NoPrice}, CommitDisposal(s, proceeds)
          PROVE  draft'[a] # {}
      BY <2>1, <3>1 DEF CommitDisposal, IInv, TypeOK
    <3>2. CASE draft' = draft
      BY <2>1, <3>2
    <3> QED
      BY <3>1, <3>2 DEF Next, vars, CreateFixedAsset, SetLock, RunDepreciation, ComputeDepreciation,
         ChargeDepreciation, DisposeAsset, CheckPending, SumDepreciation, Rollback
  <2> QED
    BY <1>1, <2>3, <2>4, <2>5
<1>2. CASE asset'[a] # asset[a]
  <2>1. PICK s \in Slots : /\ slot[s].op = "dispose" /\ slot[s].asset = a
                          /\ draft'[a] # {} /\ charged' = charged
                          /\ asset'[a].disposed = slot[s].period /\ asset'[a].card = asset[a].card
    BY <1>2, AssetSteps DEF Disposed
  <2>2. slot[s].row.card = asset[a].card /\ Settled(a, asset[a].card, slot[s].period)
    BY <2>1, LeavingShape DEF Left, Leaving
  <2>3. PICK card, p : card = asset[a].card /\ p = slot[s].period
    OBVIOUS
  <2>4. Settled(a, card, p)'
    BY <2>1, <2>2, <2>3 DEF Settled, Accumulated
  <2> QED
    BY <2>1, <2>3, <2>4
<1> QED
  BY <1>1, <1>2

LEMMA CallLeft ==
  ASSUME IInv, Left, [Next]_vars, NEW s \in Slots, slot'[s].op \in {"sum", "dispose"}
  PROVE  Settled(slot[s].asset, slot[s].row.card, slot[s].period)'
<1> DEFINE k == slot[s]
<1>1. /\ k.op \in Leaving /\ Settled(k.asset, k.row.card, k.period)
      /\ slot'[s].asset = k.asset /\ slot'[s].row = k.row /\ slot'[s].period = k.period
  <2>1. CASE slot'[s] = k
    BY <2>1 DEF Left, Leaving
  <2>2. CASE slot'[s] # k
    <3>1. CheckPending(s) \/ SumDepreciation(s)
      <4>1. ASSUME NEW a \in Assets, NEW p \in Periods, DisposeAsset(s, a, p) PROVE FALSE
        BY <4>1 DEF DisposeAsset, Go, IInv, TypeOK
      <4>2. ASSUME NEW p \in Periods, RunDepreciation(s, p) PROVE FALSE
        BY <4>2 DEF RunDepreciation, Go, IInv, TypeOK
      <4>3. ASSUME NEW a \in Assets, ComputeDepreciation(s, a) PROVE FALSE
        <5>1. k.op = "run" /\ k \in Charging
          BY <4>3, TodoShape DEF ComputeDepreciation
        <5>2. PICK d : slot'[s] = [k EXCEPT !.todo[a] = NoRow, !.amount[a] = d]
          BY <4>3, Zenon DEF ComputeDepreciation, Go, IInv, TypeOK
        <5> QED
          BY <5>1, <5>2 DEF Charging
      <4> QED
        BY <2>2, <4>1, <4>2, <4>3, SlotSteps, IdleRead DEF Leaving
    <3>2. k.op \in Leaving /\ k \in Disposing
      BY <3>1, LeavingShape DEF CheckPending, SumDepreciation, Leaving
    <3>3. CASE CheckPending(s)
      <4>1. slot'[s] = [k EXCEPT !.op = "sum"]
        BY <3>3 DEF CheckPending, Go, IInv, TypeOK
      <4>2. ~PendingDepreciation(k.asset, k.row, k.period)
        BY <3>3 DEF CheckPending
      <4>3. [k.row EXCEPT !.disposed = k.period] = [card |-> k.row.card, disposed |-> k.period]
        BY <3>2, LeavingShape, RowShape, Zenon
      <4>4. Settled(k.asset, k.row.card, k.period)
        BY <4>2, <4>3, Zenon DEF PendingDepreciation, Settled
      <4> QED
        BY <3>2, <4>1, <4>4 DEF Disposing
    <3>4. CASE SumDepreciation(s)
      <4>1. PICK n : slot'[s] = [k EXCEPT !.op = "dispose", !.accumulated = n]
        BY <3>4, Zenon DEF SumDepreciation, Go, IInv, TypeOK
      <4>2. Settled(k.asset, k.row.card, k.period)
        BY <3>4 DEF SumDepreciation, Left
      <4> QED
        BY <3>2, <4>1, <4>2 DEF Disposing
    <3> QED
      BY <3>1, <3>3, <3>4
  <2> QED
    BY <2>1, <2>2
<1>2. PICK a, card, p : a = k.asset /\ card = k.row.card /\ p = k.period
  OBVIOUS
<1>3. a \in Assets /\ card \in Cards /\ Valid(card) /\ p \in Periods
  BY <1>1, <1>2, LeavingShape
<1>4. Settled(a, card, p)'
  <2> HIDE DEF k
  <2> QED
    BY <1>1, <1>2, <1>3, SettledKept
<1> QED
  BY <1>1, <1>2, <1>4

(* A run that was under way learns of a disposal only if it is of an       *)
(* earlier month.                                                          *)
LEMMA RunInformed ==
  ASSUME IInv, Left, RunsBefore, [Next]_vars, NEW s \in Slots, NEW a \in Assets,
         slot'[s] = slot[s]
  PROVE  Informed(slot[s], a)'
<1> SUFFICES ASSUME slot[s].op = "run", Disposed(a)' PROVE Informed(slot[s], a)'
  BY DEF Informed
<1>1. slot[s].period \in Periods
  BY TodoShape
<1>2. CASE asset'[a] = asset[a]
  <2>1. Informed(slot[s], a) /\ Disposed(a)
    BY <1>2 DEF Left, Disposed
  <2>2. charged[a][slot[s].period] # 0 => charged'[a][slot[s].period] # 0
    BY <1>1, ChargedGrows
  <2> QED
    BY <1>2, <2>1, <2>2 DEF Informed
<1>3. CASE asset'[a] # asset[a]
  <2>1. PICK t \in Slots : slot[t].op = "dispose" /\ asset'[a].disposed = slot[t].period
    BY <1>3, AssetSteps DEF Disposed
  <2>2. slot[s].period < asset'[a].disposed
    BY <2>1 DEF RunsBefore
  <2> QED
    BY <2>2 DEF Informed
<1> QED
  BY <1>2, <1>3

(* A run that reads finds the disposals there have been.                   *)
LEMMA RunReads ==
  ASSUME IInv, Left, [Next]_vars, NEW s \in Slots, NEW a \in Assets, slot'[s] # slot[s]
  PROVE  Informed(slot[s], a)'
<1> SUFFICES ASSUME slot'[s].op = "run", Disposed(a)' PROVE Informed(slot[s], a)'
  BY DEF Informed
<1>1. \/ \E p \in Periods : RunDepreciation(s, p)
      \/ \E b \in Assets : ComputeDepreciation(s, b)
  <2>1. ASSUME NEW b \in Assets, NEW p \in Periods, DisposeAsset(s, b, p) PROVE FALSE
    BY <2>1 DEF DisposeAsset, Go, IInv, TypeOK
  <2>2. ASSUME CheckPending(s) \/ SumDepreciation(s) PROVE FALSE
    <3>1. slot'[s].op \in Leaving
      <4>1. slot[s] \in Disposing
        BY <2>2, LeavingShape DEF CheckPending, SumDepreciation, Leaving
      <4>2. CASE CheckPending(s)
        <5>1. slot'[s] = [slot[s] EXCEPT !.op = "sum"]
          BY <4>2 DEF CheckPending, Go, IInv, TypeOK
        <5> QED
          BY <4>1, <5>1 DEF Disposing, Leaving
      <4>3. CASE SumDepreciation(s)
        <5>1. PICK n : slot'[s] = [slot[s] EXCEPT !.op = "dispose", !.accumulated = n]
          BY <4>3, Zenon DEF SumDepreciation, Go, IInv, TypeOK
        <5> QED
          BY <4>1, <5>1 DEF Disposing, Leaving
      <4> QED
        BY <2>2, <4>2, <4>3
    <3> QED
      BY <3>1 DEF Leaving
  <2> QED
    BY <2>1, <2>2, SlotSteps, IdleRead
<1>2. UNCHANGED <<asset, charged>> /\ Disposed(a)
  BY <1>1 DEF RunDepreciation, ComputeDepreciation, Disposed
<1>3. ASSUME NEW p \in Periods, RunDepreciation(s, p) PROVE Informed(slot[s], a)'
  <2> DEFINE todo == [b \in Assets |-> IF IsDepreciable(b, p) THEN asset[b] ELSE NoRow]
  <2>1. slot'[s] = [op |-> "run", period |-> p, amount |-> [b \in Assets |-> 0], todo |-> todo]
    BY <1>3 DEF RunDepreciation, Go, IInv, TypeOK
  <2>2. slot'[s].period = p /\ slot'[s].amount[a] = 0 /\ slot'[s].todo[a] = todo[a]
    <3> HIDE DEF todo
    <3> QED
      BY <2>1
  <2>3. todo[a] # NoRow => todo[a] = asset[a] /\ p <= asset[a].disposed
    BY <1>2 DEF IsDepreciable
  <2>4. asset[a].disposed \in Int /\ p \in Int
    BY <1>2, AssetShape, PeriodsShape DEF IInv
  <2> HIDE DEF todo
  <2> QED
    BY <1>2, <2>2, <2>3, <2>4 DEF Informed
<1>4. ASSUME NEW b \in Assets, ComputeDepreciation(s, b) PROVE Informed(slot[s], a)'
  <2> DEFINE k == slot[s]
             d == DepreciationForPeriod(k.todo[b], k.period, Accumulated(b, k.period))
  <2>1. k.op = "run" /\ k.todo[b] # NoRow
    BY <1>4 DEF ComputeDepreciation
  <2>2. /\ k \in Charging /\ k.period \in Periods
        /\ asset[b] \in Asset /\ asset[b].card \in Cards /\ Valid(asset[b].card)
    BY <2>1, TodoShape
  <2>3. slot'[s] = [k EXCEPT !.todo[b] = NoRow, !.amount[b] = d]
    BY <1>4, Zenon DEF ComputeDepreciation, Go, IInv, TypeOK
  <2>4. /\ slot'[s].period = k.period
        /\ slot'[s].todo[a] = IF a = b THEN NoRow ELSE k.todo[a]
        /\ slot'[s].amount[a] = IF a = b THEN d ELSE k.amount[a]
    <3> HIDE DEF d
    <3> QED
      BY <2>2, <2>3 DEF Charging
  <2>5. Informed(k, a)
    BY DEF Left
  <2>6. a = b /\ d > 0 => k.period < asset[a].disposed \/ charged[a][k.period] # 0
    <3> SUFFICES ASSUME a = b, ~(k.period < asset[a].disposed), charged[a][k.period] = 0
                 PROVE  d = 0
      OBVIOUS
    <3>1. k.todo[a] = asset[a] /\ k.period = asset[a].disposed
      BY <1>2, <2>1, <2>5 DEF Informed
    <3>2. Settled(a, asset[a].card, asset[a].disposed)
      BY <1>2 DEF Left
    <3>3. DepreciationForPeriod([card |-> asset[a].card, disposed |-> asset[a].disposed],
                                asset[a].disposed, Accumulated(a, asset[a].disposed)) = 0
      BY <3>1, <3>2 DEF Settled
    <3>4. asset[a] = [card |-> asset[a].card, disposed |-> asset[a].disposed]
      BY <2>2, RowShape
    <3> QED
      BY <3>1, <3>3, <3>4, Zenon
  <2> HIDE DEF d
  <2> QED
    BY <1>2, <2>1, <2>4, <2>5, <2>6 DEF Informed
<1> QED
  BY <1>1, <1>3, <1>4

LEMMA LeftKept == IInv /\ Left /\ RunsBefore /\ [Next]_vars => Left'
BY RowLeft, CallLeft, RunInformed, RunReads DEF Left

(* As long as a run that overlaps a disposal is of an earlier month, an    *)
(* asset is charged neither for the month it left in nor for a later one   *)
(* (depreciation.ts 17-25, disposal.ts 165-185).                           *)
THEOREM NoChargeAfterDisposal == Spec /\ []RunsBefore => NothingAfterDisposal
<1>1. Init => Left
  BY IdleRead DEF Init, Left, Disposed, NoRow, Informed, Leaving
<1>2. IInv /\ Left /\ [Next]_vars =>
        \A a \in Assets, p \in Periods :
          Disposed(a) /\ charged'[a][p] # charged[a][p] => p < asset[a].disposed
  <2> SUFFICES ASSUME IInv, Left, [Next]_vars, NEW a \in Assets, NEW p \in Periods,
                      Disposed(a), charged'[a][p] # charged[a][p]
               PROVE  p < asset[a].disposed
    OBVIOUS
  <2>1. PICK s \in Slots : /\ slot[s].op = "run" /\ slot[s].period = p
                          /\ charged[a][p] = 0 /\ slot[s].amount[a] > 0
    BY ChargeSteps
  <2> QED
    BY <2>1 DEF Left, Informed
<1> QED
  BY Initially, InvariantKept, LeftKept, <1>1, <1>2, PTL DEF Spec, NothingAfterDisposal

(* One transaction at a time overlaps with no other.                       *)
LEMMA OneTransactionIsOrderly ==
  ASSUME \A s, t \in Slots : s = t
  PROVE  OneMonth /\ RunsBefore
BY DEF OneMonth, RunsBefore

-----------------------------------------------------------------------------
(* Jobs: the arithmetic of the clock and the backoff.                      *)

LEMMA RecordShape ==
  /\ NoRecord \notin Row /\ NoRecord.status = "none"
  /\ \A r \in Row : r.status \in Statuses /\ r.at \in Int /\ r.attempts \in Nat
BY DEF NoRecord, Row, Statuses, Ended

(* Powers of two are the sizes of power sets, and thereby naturals.        *)
LEMMA PowerOfTwo ==
  ASSUME NEW n \in Nat PROVE 2 ^ n \in Nat
<1>1. IsFiniteSet(1..n) /\ Cardinality(1..n) = n
  BY FS_Interval
<1>2. IsFiniteSet(SUBSET (1..n)) /\ Cardinality(SUBSET (1..n)) = 2 ^ n
  BY <1>1, FS_SUBSET
<1> QED
  BY <1>2, FS_CardinalityType

LEMMA BackoffType ==
  ASSUME NEW n \in Nat PROVE BackoffMs(n + 1) \in Int
<1>1. (n + 1) - 1 = n
  OBVIOUS
<1>2. PICK power \in Nat : power = 2 ^ ((n + 1) - 1)
  BY <1>1, PowerOfTwo
<1>3. BaseDelay \in Int /\ MaxDelay \in Int
  BY JobsAssumption
<1>4. BaseDelay * power \in Int
  BY <1>2, <1>3
<1>5. BackoffMs(n + 1) = Least(MaxDelay, BaseDelay * power)
  BY <1>2 DEF BackoffMs
<1> QED
  BY <1>3, <1>4, <1>5 DEF Least

LEMMA LaterType ==
  ASSUME JobTypeOK, NEW x \in Int PROVE Later(x) \in Int
<1> DEFINE waiting == {k \in Jobs : job[k].status = "pending"}
           times   == {job[j].at - 1 : j \in waiting}
           overdue == {y \in times : y < -Lag}
           late    == {y \in overdue : y >= x - 1}
           f       == [j \in waiting |-> job[j].at - 1]
<1>1. IsFiniteSet(waiting)
  BY JobsAssumption, FS_Subset
<1>2. f \in Surjection(waiting, times)
  BY DEF Surjection
<1>3. IsFiniteSet(times)
  <2> HIDE DEF waiting, times, f
  <2> QED
    BY <1>1, <1>2, FS_Surjection
<1>4. late \in SUBSET times
  OBVIOUS
<1>5. Cardinality(late) \in Nat
  <2> HIDE DEF times, late
  <2> QED
    BY <1>3, <1>4, FS_Subset, FS_CardinalityType
<1>6. Lag \in Int
  BY JobsAssumption
<1>7. Later(x) = IF x - 1 >= -Lag THEN x - 1 ELSE -Lag - Cardinality(late)
  BY DEF Later
<1> HIDE DEF late
<1> QED
  BY <1>5, <1>6, <1>7

-----------------------------------------------------------------------------
(* The invariant.                                                          *)

(* What ticks remember is remembered for ticks only.                       *)
TicksOnly ==
  /\ claim = [t \in Ticks |-> claim[t]] /\ ran = [t \in Ticks |-> ran[t]]
  /\ \A t \in Ticks : claim[t] = [j \in Batch(t) |-> claim[t][j]]

JobInv == JobTypeOK /\ TicksOnly /\ OneRunner

LEMMA JobsInitially == JobInit => JobInv
<1> SUFFICES ASSUME JobInit PROVE JobInv
  OBVIOUS
<1>1. \A t \in Ticks : claim[t] = NoClaim /\ Batch(t) = {}
  BY DEF JobInit, NoClaim, Batch
<1>2. Lag \in Nat
  BY JobsAssumption
<1> QED
  BY <1>1, <1>2 DEF JobInit, JobInv, JobTypeOK, TicksOnly, OneRunner, NoClaim

(* Jobs that no tick holds may change, as long as they keep their type.    *)
LEMMA OthersWritten ==
  ASSUME JobInv, job' \in [Jobs -> Row \cup {NoRecord}], UNCHANGED <<claim, ran>>,
         age' \in [Ticks -> 0..Lag],
         \A t \in Ticks : \A j \in Batch(t) : job'[j] = job[j]
  PROVE  JobInv'
<1>1. JobTypeOK' /\ TicksOnly'
  BY DEF JobInv, JobTypeOK, TicksOnly, Batch
<1>2. OneRunner'
  BY DEF JobInv, OneRunner, Batch
<1> QED
  BY <1>1, <1>2 DEF JobInv

LEMMA Enqueued ==
  ASSUME JobInv, NEW j \in Jobs, NEW d \in Delays, Enqueue(j, d)
  PROVE  JobInv'
<1>1. [status |-> "pending", at |-> d, attempts |-> 0] \in Row
  BY JobsAssumption DEF Row, Statuses
<1>2. \A t \in Ticks : j \notin Batch(t)
  BY RecordShape DEF Enqueue, JobInv, OneRunner
<1> QED
  BY <1>1, <1>2, OthersWritten DEF Enqueue, JobInv, JobTypeOK

LEMMA Claimed ==
  ASSUME JobInv, NEW t \in Ticks, Claim(t)
  PROVE  JobInv'
<1> DEFINE due == {j \in Jobs : Claimable(j)}
<1>1. PICK b \in SUBSET due :
        /\ job' = [j \in Jobs |-> IF j \in b THEN [job[j] EXCEPT !.status = "running"] ELSE job[j]]
        /\ claim' = [claim EXCEPT ![t] = [j \in b |-> job[j].attempts]]
  BY DEF Claim
<1>2. Batch(t) = {} /\ UNCHANGED <<age, ran>>
  BY DEF Claim, Free
<1>3. \A j \in b : /\ j \in Jobs /\ job[j].status = "pending" /\ job[j] \in Row
                   /\ \A u \in Ticks : j \notin Batch(u)
  BY RecordShape DEF Claimable, JobInv, JobTypeOK, OneRunner
<1>4. \A j \in b : /\ job'[j] \in Row /\ job'[j].status = "running"
                   /\ job'[j].attempts = job[j].attempts /\ job[j].attempts \in Nat
  <2> SUFFICES ASSUME NEW j \in b
               PROVE  /\ job'[j] \in Row /\ job'[j].status = "running"
                      /\ job'[j].attempts = job[j].attempts /\ job[j].attempts \in Nat
    OBVIOUS
  <2>1. job[j] \in Row /\ job'[j] = [job[j] EXCEPT !.status = "running"]
    BY <1>1, <1>3
  <2> QED
    BY <2>1 DEF Row, Statuses
<1>5. job' \in [Jobs -> Row \cup {NoRecord}] /\ \A j \in Jobs \ b : job'[j] = job[j]
  BY <1>1, <1>4 DEF JobInv, JobTypeOK
<1>6. claim'[t] = [j \in b |-> job[j].attempts] /\ \A u \in Ticks \ {t} : claim'[u] = claim[u]
  BY <1>1 DEF JobInv, TicksOnly
<1>7. Batch(t)' = b /\ \A u \in Ticks \ {t} : Batch(u)' = Batch(u)
  BY <1>6 DEF Batch
<1>8. JobTypeOK'
  <2>1. ran[t] = NoJob
    BY <1>2 DEF JobInv, JobTypeOK
  <2> QED
    BY <1>2, <1>3, <1>4, <1>5, <1>6, <1>7, <2>1 DEF JobInv, JobTypeOK
<1>9. TicksOnly'
  BY <1>1, <1>2, <1>6, <1>7 DEF JobInv, TicksOnly
<1>10. OneRunner'
  <2> SUFFICES ASSUME NEW u \in Ticks, NEW j \in Batch(u)'
               PROVE  /\ job'[j].status = "running" /\ job'[j].attempts = claim'[u][j]
                      /\ \A v \in Ticks \ {u} : j \notin Batch(v)'
    BY DEF OneRunner
  <2>1. CASE u = t
    BY <1>3, <1>4, <1>6, <1>7, <2>1
  <2>2. CASE u # t
    <3>1. j \in Batch(u) /\ j \in Jobs /\ j \notin b
      BY <1>3, <1>7, <2>2 DEF JobInv, JobTypeOK
    <3> QED
      BY <1>5, <1>6, <1>7, <2>2, <3>1 DEF JobInv, OneRunner
  <2> QED
    BY <2>1, <2>2
<1> QED
  BY <1>8, <1>9, <1>10 DEF JobInv

LEMMA Handled ==
  ASSUME JobInv, NEW t \in Ticks, NEW j \in Jobs, NEW ok \in BOOLEAN, RunHandler(t, j, ok)
  PROVE  JobInv'
<1>1. JobTypeOK' /\ TicksOnly'
  BY DEF RunHandler, JobInv, JobTypeOK, TicksOnly, Batch
<1>2. OneRunner'
  BY DEF RunHandler, JobInv, OneRunner, Batch
<1> QED
  BY <1>1, <1>2 DEF JobInv

(* A tick forgets some of its jobs; of the others none has been written.   *)
LEMMA Forgotten ==
  ASSUME JobInv, NEW t \in Ticks, NEW rest \in SUBSET Batch(t),
         claim' = [claim EXCEPT ![t] = [j \in rest |-> claim[t][j]]],
         ran' = [ran EXCEPT ![t] = NoJob], age' \in [Ticks -> 0..Lag],
         job' \in [Jobs -> Row \cup {NoRecord}],
         \A j \in Jobs : j \notin Batch(t) \/ j \in rest => job'[j] = job[j]
  PROVE  JobInv'
<1>1. claim'[t] = [j \in rest |-> claim[t][j]] /\ \A u \in Ticks \ {t} : claim'[u] = claim[u]
  BY DEF JobInv, TicksOnly
<1>2. Batch(t)' = rest /\ \A u \in Ticks \ {t} : Batch(u)' = Batch(u)
  BY <1>1 DEF Batch
<1>3. ran'[t] = NoJob /\ \A u \in Ticks \ {t} : ran'[u] = ran[u]
  BY DEF JobInv, TicksOnly
<1>4. JobTypeOK'
  BY <1>1, <1>2, <1>3 DEF JobInv, JobTypeOK
<1>5. TicksOnly'
  BY <1>1, <1>2 DEF JobInv, TicksOnly
<1>6. OneRunner'
  <2> SUFFICES ASSUME NEW u \in Ticks, NEW j \in Batch(u)'
               PROVE  /\ job'[j].status = "running" /\ job'[j].attempts = claim'[u][j]
                      /\ \A v \in Ticks \ {u} : j \notin Batch(v)'
    BY DEF OneRunner
  <2>1. j \in Batch(u) /\ j \in Jobs /\ claim'[u][j] = claim[u][j]
    BY <1>1, <1>2 DEF JobInv, JobTypeOK
  <2>2. j \notin Batch(t) \/ j \in rest
    BY <1>2, <2>1 DEF JobInv, OneRunner
  <2>3. \A v \in Ticks : j \in Batch(v)' => j \in Batch(v)
    BY <1>2
  <2> QED
    BY <2>1, <2>2, <2>3 DEF JobInv, OneRunner
<1> QED
  BY <1>4, <1>5, <1>6 DEF JobInv

(* What a job becomes when it is settled is a row.                         *)
LEMMA AfterType ==
  ASSUME JobInv, NEW j \in Jobs, job[j] \in Row, NEW attempts \in Nat, NEW started \in Int
  PROVE  AfterSuccess(j, attempts, started) \in Row /\ AfterFailure(j, attempts, started) \in Row
<1>1. job[j].at \in Int /\ Interval[j] \in Int
  BY RecordShape, JobsAssumption
<1>2. BackoffMs(attempts + 1) \in Int
  BY BackoffType
<1> QED
  BY <1>1, <1>2 DEF AfterSuccess, AfterFailure, Attempts, Row, Statuses, Ended

LEMMA SettledOrNot ==
  ASSUME JobInv, NEW t \in Ticks, Settle(t) \/ SettleFails(t)
  PROVE  JobInv'
<1> DEFINE j == ran[t].job
           rest == Batch(t) \ {j}
<1>1. j \in Batch(t) /\ j \in Jobs
  BY DEF Settle, SettleFails, JobInv, JobTypeOK
<1>2. age' \in [Ticks -> 0..Lag]
  BY JobsAssumption DEF Settle, SettleFails, GoOn, JobInv, JobTypeOK
<1>3. /\ claim' = [claim EXCEPT ![t] = [k \in rest |-> claim[t][k]]]
      /\ ran' = [ran EXCEPT ![t] = NoJob]
  BY DEF Settle, SettleFails, GoOn
<1>4. job' \in [Jobs -> Row \cup {NoRecord}] /\ \A k \in Jobs : k # j => job'[k] = job[k]
  <2>1. CASE Settle(t)
    <3>1. job[j] \in Row
      BY <1>1, RecordShape DEF JobInv, JobTypeOK, OneRunner
    <3>2. claim[t][j] \in Nat /\ age[t] \in Int
      BY <1>1, JobsAssumption DEF JobInv, JobTypeOK
    <3>3. PICK row \in Row : job' = [job EXCEPT ![j] = row]
      BY <1>1, <2>1, <3>1, <3>2, AfterType DEF Settle
    <3> QED
      BY <3>3 DEF JobInv, JobTypeOK
  <2>2. CASE SettleFails(t)
    BY <2>2 DEF SettleFails, JobInv, JobTypeOK
  <2> QED
    BY <2>1, <2>2
<1>5. rest \in SUBSET Batch(t) /\ \A k \in Jobs : k \notin Batch(t) \/ k \in rest => k # j
  BY <1>1
<1> HIDE DEF rest
<1> QED
  BY <1>2, <1>3, <1>4, <1>5, Forgotten

LEMMA Stopped ==
  ASSUME JobInv, NEW t \in Ticks, Stop(t)
  PROVE  JobInv'
<1> DEFINE rest == {}
<1>1. rest \in SUBSET Batch(t) /\ claim' = [claim EXCEPT ![t] = [j \in rest |-> claim[t][j]]]
  BY DEF Stop, NoClaim
<1>2. age' \in [Ticks -> 0..Lag] /\ job' \in [Jobs -> Row \cup {NoRecord}] /\ job' = job
  BY JobsAssumption DEF Stop, JobInv, JobTypeOK
<1>3. ran' = [ran EXCEPT ![t] = NoJob]
  BY DEF Stop
<1> HIDE DEF rest
<1> QED
  BY <1>1, <1>2, <1>3, Forgotten

LEMMA Passed ==
  ASSUME JobInv, Pass
  PROVE  JobInv'
<1>1. ASSUME NEW j \in Jobs
      PROVE  job'[j] \in Row \cup {NoRecord} /\ (job[j].status # "pending" => job'[j] = job[j])
  <2>1. CASE job[j].status = "pending"
    <3>1. job[j] \in Row
      BY <2>1, RecordShape DEF JobInv, JobTypeOK
    <3>2. PICK at \in Int : job'[j] = [job[j] EXCEPT !.at = at]
      BY <2>1, <3>1, LaterType, RecordShape DEF Pass, JobInv
    <3> QED
      BY <2>1, <3>1, <3>2 DEF Row
  <2>2. CASE job[j].status # "pending"
    BY <2>2 DEF Pass, JobInv, JobTypeOK
  <2> QED
    BY <2>1, <2>2
<1>2. job' = [j \in Jobs |-> job'[j]]
  BY DEF Pass
<1>3. job' \in [Jobs -> Row \cup {NoRecord}]
  BY <1>1, <1>2
<1>4. age' \in [Ticks -> 0..Lag]
  <2>1. Lag \in Nat /\ \A t \in Ticks : age[t] \in 0..Lag /\ (Free(t) \/ age[t] < Lag)
    BY JobsAssumption DEF Pass, JobInv, JobTypeOK
  <2> QED
    BY <2>1 DEF Pass
<1>5. \A t \in Ticks : \A j \in Batch(t) : job'[j] = job[j]
  BY <1>1 DEF JobInv, JobTypeOK, OneRunner
<1> QED
  BY <1>3, <1>4, <1>5, OthersWritten DEF Pass

LEMMA JobsKept == JobInv /\ [JobNext]_jobVars => JobInv'
<1> SUFFICES ASSUME JobInv, [JobNext]_jobVars PROVE JobInv'
  OBVIOUS
<1>1. CASE UNCHANGED jobVars
  BY <1>1 DEF jobVars, JobInv, JobTypeOK, TicksOnly, OneRunner, Batch
<1> QED
  BY <1>1, Enqueued, Claimed, Handled, SettledOrNot, Stopped, Passed DEF JobNext

LEMMA JobsInvariant == JobSpec => []JobInv
BY JobsInitially, JobsKept, PTL DEF JobSpec

(* Rows of scheduled_jobs and what ticks remember of them keep their type. *)
THEOREM JobsTypeCorrect == JobSpec => []JobTypeOK
<1>1. JobInv => JobTypeOK
  BY DEF JobInv
<1> QED
  BY <1>1, JobsInvariant, PTL

(* However many ticks overlap and wherever processes stop, no job is run   *)
(* by two ticks, and it is settled with the attempts it was claimed with   *)
(* (runner.ts 89-100).                                                     *)
THEOREM OneTickRunsAJob == JobSpec => []OneRunner
<1>1. JobInv => OneRunner
  BY DEF JobInv
<1> QED
  BY <1>1, JobsInvariant, PTL
=============================================================================
