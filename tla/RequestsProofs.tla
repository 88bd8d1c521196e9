--------------------------- MODULE RequestsProofs ---------------------------
(***************************************************************************)
(* Proofs about Approvals, for every set of flows, users and documents,    *)
(* and about Requests, which extends it: a request derives one event, what *)
(* it realized stays realized and what it reserved is released when it     *)
(* ends, for any number of HTTP requests, requests, budgets and users.     *)
(* What it rests on: a transition holds the lock of its row, so that the   *)
(* row it has read is still the row when it commits, while an update,      *)
(* which reads without the lock, writes only the content.                  *)
(***************************************************************************)
EXTENDS Requests, TLAPS

-----------------------------------------------------------------------------
(* Shapes of the data.                                                     *)

(* A pending row is an instance whose current step exists.                 *)
LEMMA RowShape ==
  ASSUME ApprovalTypeOK, NEW i \in Instances, instance[i] # NoInstance
  PROVE  instance[i] \in Instance
BY DEF ApprovalTypeOK

LEMMA PendingShape ==
  ASSUME ApprovalTypeOK, NEW i \in Instances, IsPending(i)
  PROVE  instance[i] # NoInstance /\ instance[i] \in Instance
BY DEF ApprovalTypeOK, IsPending, NoInstance

(* No instance is the absent row.                                          *)
LEMMA InstanceIsNoGap == ASSUME NEW x \in Instance PROVE x # NoInstance
BY DEF Instance, NoInstance, Ended

(* Recording an opinion on the current step changes that opinion alone.    *)
LEMMA RecordShape ==
  ASSUME NEW row \in Instance, row.current \in Orders, NEW u \in Users,
         NEW x \in Opinions
  PROVE  /\ Record(row, u, x) \in Instance
         /\ Record(row, u, x).current = row.current
         /\ Record(row, u, x).required = row.required
         /\ Record(row, u, x).flow = row.flow
         /\ Record(row, u, x).status = row.status
         /\ Record(row, u, x).document = row.document
         /\ \A o \in Orders, w \in Users : Record(row, u, x).opinion[o][w] =
              IF o = row.current /\ w = u THEN x ELSE row.opinion[o][w]
<1>1. row.opinion \in [Orders -> [Users -> Opinions]]
  BY DEF Instance
<1>2. [row.opinion EXCEPT ![row.current][u] = x] \in [Orders -> [Users -> Opinions]]
  BY <1>1
<1>3. Record(row, u, x) = [row EXCEPT !.opinion = [row.opinion EXCEPT ![row.current][u] = x]]
  BY DEF Record, Instance
<1>4. \A o \in Orders, w \in Users : [row.opinion EXCEPT ![row.current][u] = x][o][w] =
              IF o = row.current /\ w = u THEN x ELSE row.opinion[o][w]
  BY <1>1
<1> DEFINE new == [row.opinion EXCEPT ![row.current][u] = x]
<1>5. /\ \A o \in Orders, w \in Users :
            new[o][w] = IF o = row.current /\ w = u THEN x ELSE row.opinion[o][w]
      /\ new \in [Orders -> [Users -> Opinions]]
      /\ Record(row, u, x) = [row EXCEPT !.opinion = new]
  BY <1>2, <1>3, <1>4
<1> HIDE DEF new
<1>6. Record(row, u, x) \in Instance
  BY <1>5 DEF Instance
<1>7. Record(row, u, x).opinion = new
  BY <1>5 DEF Instance
<1>8. /\ Record(row, u, x).current = row.current
      /\ Record(row, u, x).required = row.required
      /\ Record(row, u, x).flow = row.flow
      /\ Record(row, u, x).status = row.status
      /\ Record(row, u, x).document = row.document
  BY <1>5 DEF Instance
<1> QED
  BY <1>5, <1>6, <1>7, <1>8

(* Where an instance may go from a row: its opinions and steps stay.       *)
LEMMA AdvanceShape ==
  ASSUME ApprovalsAssumption,
         NEW row \in Instance, row.current \in Orders, NEW next \in Advance(row)
  PROVE  /\ next \in Instance
         /\ next.opinion = row.opinion /\ next.required = row.required
         /\ next.flow = row.flow /\ next.document = row.document
         /\ \/ /\ ~IsStepSatisfied(Mode[row.flow][row.current], row.opinion[row.current])
               /\ next = row
            \/ /\ IsStepSatisfied(Mode[row.flow][row.current], row.opinion[row.current])
               /\ \/ /\ \A x \in row.required : x <= row.current
                     /\ next.status = "approved" /\ next.current = 0
                  \/ /\ next.status = row.status
                     /\ next.current \in row.required
                     /\ next.current > row.current
                     /\ \A x \in row.required : x > row.current => next.current <= x
<1> USE DEF Advance
<1>1. row.required \subseteq Orders /\ Orders \subseteq Nat
  BY DEF Instance, ApprovalsAssumption
<1>2. CASE ~IsStepSatisfied(Mode[row.flow][row.current], row.opinion[row.current])
  BY <1>2
<1>3. CASE /\ IsStepSatisfied(Mode[row.flow][row.current], row.opinion[row.current])
           /\ {x \in row.required : x > row.current} = {}
  <2>1. next = [row EXCEPT !.status = "approved", !.current = 0]
    BY <1>3
  <2>2. \A x \in row.required : x <= row.current
    BY <1>1, <1>3
  <2>3. next \in Instance /\ next.status = "approved" /\ next.current = 0
    BY <2>1 DEF Instance, Ended
  <2>4. /\ next.opinion = row.opinion /\ next.required = row.required
        /\ next.flow = row.flow /\ next.document = row.document
    BY <2>1 DEF Instance
  <2> QED
    BY <1>3, <2>2, <2>3, <2>4
<1>4. CASE /\ IsStepSatisfied(Mode[row.flow][row.current], row.opinion[row.current])
           /\ {x \in row.required : x > row.current} # {}
  <2>1. PICK o \in StepsAfter(row.required, row.current) :
          next = [row EXCEPT !.current = o]
    BY <1>4
  <2>2. /\ o \in row.required /\ o > row.current
        /\ \A x \in row.required : x > row.current => o <= x
    BY <2>1 DEF StepsAfter, Least
  <2> QED
    BY <1>1, <1>4, <2>1, <2>2 DEF Instance
<1> QED
  BY <1>2, <1>3, <1>4

-----------------------------------------------------------------------------
(* Type correctness.                                                       *)

LEMMA ApprovalTypeInit == ApprovalInit => ApprovalTypeOK
BY DEF ApprovalInit, ApprovalTypeOK

(* The new row of a submission.                                            *)
LEMMA SubmitShape ==
  ASSUME ApprovalsAssumption, ApprovalTypeOK, active # NoFlow,
         NEW d \in Documents, NEW u \in Users, NEW amount \in Totals,
         NEW panel \in [Orders -> Panels], NEW first \in Least(Required(active, amount))
  PROVE  NewInstance(d, u, active, Required(active, amount), first, panel) \in Instance
<1>1. active \in Flows /\ StepsOf[active] \subseteq Orders
  BY DEF ApprovalTypeOK, ApprovalsAssumption
<1>2. Required(active, amount) \subseteq Orders /\ first \in Orders
  BY <1>1 DEF Required, Least
<1>3. [o \in Orders |-> [x \in Users |->
            IF o \in Required(active, amount) /\ x \in panel[o] THEN "pending" ELSE "none"]]
        \in [Orders -> [Users -> Opinions]]
  BY DEF Opinions
<1> QED
  BY <1>1, <1>2, <1>3 DEF Instance, NewInstance

-----------------------------------------------------------------------------
(* The inductive invariant, said of one row.                               *)

Untouched(opinion) ==
  /\ \E u \in Users : opinion[u] = "pending"
  /\ \A u \in Users : opinion[u] \in {"none", "pending"}

SatisfiedIn(row, o) == IsStepSatisfied(Mode[row.flow][o], row.opinion[o])

(* A step somebody has rejected, and those before it are satisfied.        *)
RejectedIn(row) ==
  \E o \in row.required :
    /\ \E u \in Users : row.opinion[o][u] = "rejected"
    /\ \A x \in row.required : x < o => SatisfiedIn(row, x)

(* Beyond NoStepSkipped and NeverStuck: nobody has rejected the current    *)
(* step, and the steps after it have users who have not been heard.        *)
RowOK(row) ==
  /\ row.status = "approved" => \A o \in row.required : SatisfiedIn(row, o)
  /\ row.status = "pending" =>
       /\ row.current \in row.required
       /\ \A o \in row.required : o < row.current => SatisfiedIn(row, o)
       /\ \A o \in row.required : o > row.current => Untouched(row.opinion[o])
       /\ ~SatisfiedIn(row, row.current)
       /\ \E u \in Users : row.opinion[row.current][u] = "pending"
       /\ \A u \in Users : row.opinion[row.current][u] # "rejected"
  /\ row.status = "rejected" => RejectedIn(row)

ApprovalInv == ApprovalTypeOK /\ \A i \in Instances : RowOK(instance[i])

(* A step nobody has dealt with is not satisfied.                          *)
LEMMA UntouchedWaits ==
  ASSUME NEW m, NEW opinion, Untouched(opinion)
  PROVE  ~IsStepSatisfied(m, opinion)
BY DEF Untouched, IsStepSatisfied

(* A step that an approval without a rejection leaves open waits for       *)
(* somebody else.                                                          *)
LEMMA ApprovalLeavesOpen ==
  ASSUME NEW m \in {"all", "any"}, NEW opinion \in [Users -> Opinions],
         \A u \in Users : opinion[u] # "rejected",
         \E u \in Users : opinion[u] = "approved",
         ~IsStepSatisfied(m, opinion)
  PROVE  \E u \in Users : opinion[u] = "pending"
BY DEF IsStepSatisfied, Opinions

LEMMA RequiredOrders ==
  ASSUME ApprovalsAssumption, NEW row \in Instance
  PROVE  row.required \subseteq Orders /\ row.required \subseteq Nat
BY DEF Instance, ApprovalsAssumption

(* An approval keeps the invariant, wherever it moves the instance.        *)
LEMMA ApprovedRow ==
  ASSUME ApprovalsAssumption, NEW row \in Instance, RowOK(row), row.status = "pending",
         NEW u \in Users, row.opinion[row.current][u] = "pending",
         NEW next \in Advance(Record(row, u, "approved"))
  PROVE  next \in Instance /\ RowOK(next)
<1> DEFINE r == Record(row, u, "approved")
<1>1. /\ row.current \in row.required /\ row.current \in Orders /\ row.current \in Nat
      /\ row.required \subseteq Nat /\ row.required \subseteq Orders
  BY RequiredOrders DEF RowOK
<1>2. /\ r \in Instance
      /\ r.current = row.current /\ r.required = row.required /\ r.flow = row.flow
      /\ r.status = row.status
      /\ \A o \in Orders, w \in Users : r.opinion[o][w] =
           IF o = row.current /\ w = u THEN "approved" ELSE row.opinion[o][w]
  BY <1>1, RecordShape DEF Opinions
<1>3. next \in Advance(r)
  OBVIOUS
<1> HIDE DEF r
<1>4. \A o \in Orders : r.opinion[o] \in [Users -> Opinions] /\ row.opinion[o] \in [Users -> Opinions]
  BY <1>2 DEF Instance
<1>5. \A o \in Orders : o # row.current => r.opinion[o] = row.opinion[o]
  BY <1>2, <1>4
<1>6. /\ next \in Instance
      /\ next.opinion = r.opinion /\ next.required = r.required /\ next.flow = r.flow
      /\ \/ ~SatisfiedIn(r, r.current) /\ next = r
         \/ /\ SatisfiedIn(r, r.current)
            /\ \/ /\ \A x \in r.required : x <= r.current
                  /\ next.status = "approved" /\ next.current = 0
               \/ /\ next.status = r.status
                  /\ next.current \in r.required
                  /\ next.current > r.current
                  /\ \A x \in r.required : x > r.current => next.current <= x
  BY <1>1, <1>2, <1>3, AdvanceShape DEF SatisfiedIn
<1>7. \A o \in row.required : o < row.current => SatisfiedIn(r, o)
  BY <1>1, <1>2, <1>5 DEF RowOK, SatisfiedIn
<1>8. \A o \in row.required : o > row.current => Untouched(r.opinion[o])
  BY <1>1, <1>5 DEF RowOK
<1>12. ASSUME SatisfiedIn(r, r.current), NEW o \in row.required, o <= row.current
       PROVE  SatisfiedIn(r, o)
  <2>1. CASE o = row.current
    BY <1>2, <1>12, <2>1
  <2>2. CASE o # row.current
    BY <1>1, <1>7, <1>12, <2>2
  <2> QED
    BY <2>1, <2>2
<1>9. CASE ~SatisfiedIn(r, r.current) /\ next = r
  <2>1. Mode[row.flow][row.current] \in {"all", "any"}
    BY <1>1 DEF ApprovalsAssumption, Instance
  <2>2. \A w \in Users : r.opinion[row.current][w] # "rejected"
    BY <1>1, <1>2 DEF RowOK
  <2>3. r.opinion[row.current][u] = "approved"
    BY <1>1, <1>2
  <2>4. ~IsStepSatisfied(Mode[row.flow][row.current], r.opinion[row.current])
    BY <1>2, <1>9 DEF SatisfiedIn
  <2>5. r.opinion[row.current] \in [Users -> Opinions]
    BY <1>1, <1>4
  <2>6. \E w \in Users : r.opinion[row.current][w] = "pending"
    BY <2>1, <2>2, <2>3, <2>4, <2>5, ApprovalLeavesOpen
  <2> QED
    BY <1>1, <1>2, <1>6, <1>7, <1>8, <1>9, <2>2, <2>6 DEF RowOK
<1>10. CASE /\ SatisfiedIn(r, r.current) /\ next.status = "approved"
            /\ \A x \in r.required : x <= r.current
  <2>1. \A o \in row.required : SatisfiedIn(r, o)
    BY <1>2, <1>10, <1>12
  <2> QED
    BY <1>2, <1>6, <1>10, <2>1 DEF RowOK, SatisfiedIn
<1>11. CASE /\ SatisfiedIn(r, r.current) /\ next.status = r.status
            /\ next.current \in r.required /\ next.current > r.current
            /\ \A x \in r.required : x > r.current => next.current <= x
  <2>1. \A o \in row.required : o < next.current => SatisfiedIn(next, o)
    <3> SUFFICES ASSUME NEW o \in row.required, o < next.current PROVE SatisfiedIn(next, o)
      OBVIOUS
    <3>1. o <= row.current
      BY <1>1, <1>2, <1>11
    <3>2. SatisfiedIn(r, o)
      BY <1>11, <1>12, <3>1
    <3> QED
      BY <1>6, <3>2 DEF SatisfiedIn
  <2>2. \A o \in row.required : o >= next.current => Untouched(next.opinion[o])
    BY <1>1, <1>2, <1>6, <1>8, <1>11
  <2>3. Untouched(next.opinion[next.current])
    BY <1>1, <1>2, <1>11, <2>2
  <2>4. /\ \E w \in Users : next.opinion[next.current][w] = "pending"
        /\ \A w \in Users : next.opinion[next.current][w] # "rejected"
        /\ ~SatisfiedIn(next, next.current)
    BY <2>3, UntouchedWaits DEF Untouched, SatisfiedIn
  <2>5. \A o \in row.required : o > next.current => Untouched(next.opinion[o])
    BY <1>1, <1>2, <1>11, <2>2
  <2>6. next.status = "pending" /\ next.required = row.required
    BY <1>2, <1>6, <1>11
  <2> QED
    BY <1>2, <1>6, <1>11, <2>1, <2>4, <2>5, <2>6 DEF RowOK
<1> QED
  BY <1>6, <1>9, <1>10, <1>11

(* A submission starts at the first of its steps, where nobody was heard.  *)
LEMMA SubmittedRow ==
  ASSUME ApprovalsAssumption, ApprovalTypeOK, active # NoFlow,
         NEW d \in Documents, NEW u \in Users, NEW amount \in Totals,
         NEW panel \in [Orders -> Panels], NEW first \in Least(Required(active, amount)),
         \A o \in Required(active, amount) : panel[o] # {},
         NEW row,
         row = NewInstance(d, u, active, Required(active, amount), first, panel)
  PROVE  row \in Instance /\ RowOK(row)
<1>1. row \in Instance
  BY SubmitShape
<1>2. /\ row.status = "pending" /\ row.current = first
      /\ row.required = Required(active, amount) /\ row.required \subseteq Orders
      /\ row.required \subseteq Nat
  BY <1>1, RequiredOrders DEF NewInstance
<1>3. first \in row.required /\ \A x \in row.required : first <= x
  BY <1>2 DEF Least
<1>4. \A o \in row.required : Untouched(row.opinion[o])
  <2> SUFFICES ASSUME NEW o \in row.required PROVE Untouched(row.opinion[o])
    OBVIOUS
  <2>1. row.opinion[o] = [x \in Users |-> IF x \in panel[o] THEN "pending" ELSE "none"]
    BY <1>2 DEF NewInstance
  <2>2. panel[o] # {} /\ panel[o] \subseteq Users
    BY <1>2 DEF ApprovalsAssumption
  <2>3. \E w \in Users : row.opinion[o][w] = "pending"
    <3>1. PICK w \in panel[o] : TRUE
      BY <2>2
    <3> QED
      BY <2>1, <2>2, <3>1
  <2> QED
    BY <2>1, <2>3 DEF Untouched
<1>5. /\ \E w \in Users : row.opinion[row.current][w] = "pending"
      /\ \A w \in Users : row.opinion[row.current][w] # "rejected"
      /\ ~SatisfiedIn(row, row.current)
  BY <1>2, <1>3, <1>4, UntouchedWaits DEF Untouched, SatisfiedIn
<1>6. \A o \in row.required : ~(o < row.current)
  BY <1>2, <1>3
<1> QED
  BY <1>1, <1>2, <1>3, <1>4, <1>5, <1>6 DEF RowOK

(* Asking one more user leaves the step waiting.                           *)
LEMMA ExtendedRow ==
  ASSUME ApprovalsAssumption, NEW row \in Instance, RowOK(row), row.status = "pending",
         NEW target \in Users, row.opinion[row.current][target] = "none"
  PROVE  /\ Record(row, target, "pending") \in Instance
         /\ RowOK(Record(row, target, "pending"))
<1> DEFINE r == Record(row, target, "pending")
<1>1. /\ row.current \in row.required /\ row.current \in Orders /\ row.current \in Nat
      /\ row.required \subseteq Nat /\ row.required \subseteq Orders
  BY RequiredOrders DEF RowOK
<1>2. /\ r \in Instance
      /\ r.current = row.current /\ r.required = row.required /\ r.flow = row.flow
      /\ r.status = row.status
      /\ \A o \in Orders, w \in Users : r.opinion[o][w] =
           IF o = row.current /\ w = target THEN "pending" ELSE row.opinion[o][w]
  BY <1>1, RecordShape DEF Opinions
<1> HIDE DEF r
<1>3. \A o \in Orders : r.opinion[o] \in [Users -> Opinions] /\ row.opinion[o] \in [Users -> Opinions]
  BY <1>2 DEF Instance
<1>4. \A o \in Orders : o # row.current => r.opinion[o] = row.opinion[o]
  BY <1>2, <1>3
<1>5. /\ \E w \in Users : r.opinion[row.current][w] = "pending"
      /\ \A w \in Users : r.opinion[row.current][w] # "rejected"
  BY <1>1, <1>2 DEF RowOK
<1>6. ~SatisfiedIn(r, row.current)
  <2>1. r.opinion[row.current][target] = "pending"
    BY <1>1, <1>2
  <2>2. \A w \in Users : r.opinion[row.current][w] = "approved"
                           => row.opinion[row.current][w] = "approved"
    BY <1>1, <1>2
  <2>3. ~IsStepSatisfied(Mode[row.flow][row.current], row.opinion[row.current])
    BY DEF RowOK, SatisfiedIn
  <2>4. Mode[row.flow][row.current] = "any" =>
          ~\E w \in Users : row.opinion[row.current][w] = "approved"
    BY <2>3 DEF IsStepSatisfied
  <2> QED
    BY <1>2, <2>1, <2>2, <2>4 DEF IsStepSatisfied, SatisfiedIn
<1>7. \A o \in row.required : o < row.current => SatisfiedIn(r, o)
  BY <1>1, <1>2, <1>4 DEF RowOK, SatisfiedIn
<1>8. \A o \in row.required : o > row.current => Untouched(r.opinion[o])
  BY <1>1, <1>4 DEF RowOK
<1> QED
  BY <1>1, <1>2, <1>5, <1>6, <1>7, <1>8 DEF RowOK, r

(* A rejection ends an instance at its current step.                       *)
LEMMA RejectedRow ==
  ASSUME ApprovalsAssumption, NEW row \in Instance, RowOK(row), row.status = "pending",
         NEW u \in Users,
         NEW new, new = [Record(row, u, "rejected") EXCEPT !.status = "rejected", !.current = 0]
  PROVE  new \in Instance /\ RowOK(new)
<1> DEFINE r == Record(row, u, "rejected")
<1>1. /\ row.current \in row.required /\ row.current \in Orders
      /\ row.required \subseteq Nat /\ row.required \subseteq Orders
  BY RequiredOrders DEF RowOK
<1>2. /\ r \in Instance /\ r.required = row.required /\ r.flow = row.flow
      /\ \A o \in Orders, w \in Users : r.opinion[o][w] =
           IF o = row.current /\ w = u THEN "rejected" ELSE row.opinion[o][w]
  BY <1>1, RecordShape DEF Opinions
<1>a. new = [r EXCEPT !.status = "rejected", !.current = 0]
  OBVIOUS
<1> HIDE DEF r
<1>3. \A o \in Orders : r.opinion[o] \in [Users -> Opinions] /\ row.opinion[o] \in [Users -> Opinions]
  BY <1>2 DEF Instance
<1>4. \A o \in Orders : o # row.current => r.opinion[o] = row.opinion[o]
  BY <1>2, <1>3
<1>5. /\ new \in Instance /\ new.status = "rejected"
      /\ new.required = row.required /\ new.flow = row.flow /\ new.opinion = r.opinion
  BY <1>2, <1>a DEF Instance, Ended
<1>6. new.opinion[row.current][u] = "rejected"
  BY <1>1, <1>2, <1>5
<1>7. \A o \in row.required : o < row.current => SatisfiedIn(new, o)
  <2> SUFFICES ASSUME NEW o \in row.required, o < row.current PROVE SatisfiedIn(new, o)
    OBVIOUS
  <2>1. SatisfiedIn(row, o)
    BY DEF RowOK
  <2>2. new.opinion[o] = row.opinion[o] /\ new.flow = row.flow
    BY <1>1, <1>4, <1>5
  <2> QED
    BY <2>1, <2>2 DEF SatisfiedIn
<1>8. RejectedIn(new)
  BY <1>1, <1>5, <1>6, <1>7 DEF RejectedIn
<1> QED
  BY <1>5, <1>8 DEF RowOK

(* A withdrawn row owes nothing more.                                      *)
LEMMA CancelledRow ==
  ASSUME NEW row, row.status = "cancelled"
  PROVE  RowOK(row)
BY DEF RowOK

-----------------------------------------------------------------------------
(* The inductive invariant holds.                                          *)

LEMMA ApprovalInvInit == ApprovalInit => ApprovalInv
<1> SUFFICES ASSUME ApprovalInit PROVE \A i \in Instances : RowOK(instance[i])
  BY ApprovalTypeInit DEF ApprovalInv
<1> QED
  BY DEF ApprovalInit, NoInstance, RowOK

(* A step that replaces one row by one that is sound keeps the invariant.  *)
LEMMA OneRow ==
  ASSUME ApprovalInv, NEW i \in Instances, NEW row \in Instance, RowOK(row),
         instance' = [instance EXCEPT ![i] = row], active' = active
  PROVE  ApprovalInv'
<1>1. ApprovalTypeOK'
  BY DEF ApprovalInv, ApprovalTypeOK
<1>2. \A j \in Instances : instance'[j] = IF j = i THEN row ELSE instance[j]
  BY DEF ApprovalInv, ApprovalTypeOK
<1>3. \A j \in Instances : RowOK(instance'[j])
  BY <1>2 DEF ApprovalInv
<1>4. \A j \in Instances : RowOK(instance[j])'
  BY <1>3 DEF RowOK, RejectedIn, SatisfiedIn, Untouched, IsStepSatisfied
<1> QED
  BY <1>1, <1>4 DEF ApprovalInv

(* The row of a pending instance, as the steps below find it.              *)
LEMMA PendingRow ==
  ASSUME ApprovalsAssumption, ApprovalInv, NEW i \in Instances, IsPending(i)
  PROVE  /\ instance[i] \in Instance /\ RowOK(instance[i])
         /\ instance[i].status = "pending"
         /\ instance[i].current \in Orders
BY PendingShape, RequiredOrders DEF ApprovalInv, RowOK, IsPending

LEMMA ApprovalInvStep == ApprovalsAssumption /\ ApprovalInv /\ [ApprovalNext]_approvalVars => ApprovalInv'
<1> SUFFICES ASSUME ApprovalsAssumption, ApprovalInv, [ApprovalNext]_approvalVars PROVE ApprovalInv'
  OBVIOUS
<1>1. ASSUME NEW f \in Flows, CreateFlow(f) PROVE ApprovalInv'
  <2>1. ApprovalTypeOK'
    BY <1>1 DEF CreateFlow, ApprovalInv, ApprovalTypeOK
  <2>2. \A i \in Instances : RowOK(instance[i])'
    BY <1>1 DEF CreateFlow, ApprovalInv, RowOK, RejectedIn, SatisfiedIn, Untouched, IsStepSatisfied
  <2> QED
    BY <2>1, <2>2 DEF ApprovalInv
<1>2. ASSUME NEW d \in Documents, NEW u \in Users, NEW amount \in Totals,
             NEW panel \in [Orders -> Panels], SubmitForApproval(d, u, amount, panel)
      PROVE  ApprovalInv'
  <2>1. PICK i \in NextInstance, first \in Least(Required(active, amount)) :
          instance' = [instance EXCEPT ![i] =
            NewInstance(d, u, active, Required(active, amount), first, panel)]
    BY <1>2 DEF SubmitForApproval
  <2> DEFINE row == NewInstance(d, u, active, Required(active, amount), first, panel)
  <2>2. /\ active # NoFlow /\ active' = active
        /\ \A o \in Required(active, amount) : panel[o] # {}
    BY <1>2 DEF SubmitForApproval
  <2>3. row \in Instance /\ RowOK(row)
    BY <2>2, SubmittedRow DEF ApprovalInv
  <2>4. instance' = [instance EXCEPT ![i] = row] /\ i \in Instances
    BY <2>1 DEF NextInstance
  <2> HIDE DEF row
  <2> QED
    BY <2>2, <2>3, <2>4, OneRow
<1>3. ASSUME NEW i \in Instances, NEW u \in Users, Approve(i, u) PROVE ApprovalInv'
  <2>1. PICK row \in Advance(Record(instance[i], u, "approved")) :
          instance' = [instance EXCEPT ![i] = row]
    BY <1>3 DEF Approve
  <2>2. IsPending(i) /\ instance[i].opinion[instance[i].current][u] = "pending"
    BY <1>3 DEF Approve, Owes
  <2>3. row \in Instance /\ RowOK(row)
    BY <2>2, PendingRow, ApprovedRow
  <2> QED
    BY <1>3, <2>1, <2>3, OneRow DEF Approve
<1>4. ASSUME NEW i \in Instances, NEW u \in Users, Reject(i, u) PROVE ApprovalInv'
  <2> DEFINE row == [Record(instance[i], u, "rejected") EXCEPT !.status = "rejected", !.current = 0]
  <2>1. IsPending(i)
    BY <1>4 DEF Reject, Owes
  <2>2. row = [Record(instance[i], u, "rejected") EXCEPT !.status = "rejected", !.current = 0]
    OBVIOUS
  <2>3. instance' = [instance EXCEPT ![i] = row] /\ active' = active
    BY <1>4 DEF Reject, ApprovalInv, ApprovalTypeOK
  <2> HIDE DEF row
  <2>4. instance[i] \in Instance /\ RowOK(instance[i]) /\ instance[i].status = "pending"
    BY <2>1, PendingRow
  <2>5. row \in Instance /\ RowOK(row)
    BY <2>2, <2>4, RejectedRow
  <2> QED
    BY <2>3, <2>5, OneRow
<1>5. ASSUME NEW i \in Instances, NEW u \in Users, Cancel(i, u) PROVE ApprovalInv'
  <2> DEFINE row == [instance[i] EXCEPT !.status = "cancelled", !.current = 0]
  <2>1. instance[i] \in Instance
    BY <1>5, PendingRow DEF Cancel
  <2>2. instance' = [instance EXCEPT ![i] = row]
    BY <1>5 DEF Cancel, ApprovalInv, ApprovalTypeOK
  <2>3. row \in Instance /\ row.status = "cancelled"
    BY <2>1 DEF Instance, Ended
  <2> HIDE DEF row
  <2>4. RowOK(row) /\ active' = active
    BY <1>5, <2>3, CancelledRow DEF Cancel
  <2> QED
    BY <2>2, <2>3, <2>4, OneRow
<1>6. ASSUME NEW i \in Instances, NEW u \in Users, NEW target \in Users,
             AddParticipant(i, u, target)
      PROVE  ApprovalInv'
  <2>1. IsPending(i) /\ instance[i].opinion[instance[i].current][target] = "none"
    BY <1>6 DEF AddParticipant, Asked
  <2>2. /\ Record(instance[i], target, "pending") \in Instance
        /\ RowOK(Record(instance[i], target, "pending"))
    BY <2>1, PendingRow, ExtendedRow
  <2>3. instance' = [instance EXCEPT ![i] = Record(instance[i], target, "pending")]
    BY <1>6 DEF AddParticipant, Record, ApprovalInv, ApprovalTypeOK
  <2> QED
    BY <1>6, <2>2, <2>3, OneRow DEF AddParticipant
<1>7. CASE UNCHANGED approvalVars
  BY <1>7 DEF approvalVars, ApprovalInv, ApprovalTypeOK, RowOK, RejectedIn, SatisfiedIn, Untouched, IsStepSatisfied
<1> QED
  BY <1>1, <1>2, <1>3, <1>4, <1>5, <1>6, <1>7 DEF ApprovalNext

LEMMA ApprovalInvariant == ApprovalSpec => []ApprovalInv
<1>1. ApprovalsAssumption
  BY ApprovalsAssumption
<1> QED
  BY <1>1, ApprovalInvInit, ApprovalInvStep, PTL DEF ApprovalSpec

-----------------------------------------------------------------------------
(* The theorems about the engine.                                          *)

(* Every variable keeps its type in every behaviour.                       *)
THEOREM ApprovalTypeCorrect == ApprovalSpec => []ApprovalTypeOK
<1>1. ApprovalInv => ApprovalTypeOK
  BY DEF ApprovalInv
<1> QED
  BY <1>1, ApprovalInvariant, PTL

(* No approval step is skipped and nothing is rejected but by somebody     *)
(* asked, whatever the thresholds, modes and users of the flow and whoever *)
(* is added on the way (engine.ts 118-154).                                *)
THEOREM StepsAreSatisfied == ApprovalSpec => []NoStepSkipped
<1>1. ApprovalInv => NoStepSkipped
  BY DEF ApprovalInv, NoStepSkipped, RowOK, RejectedIn, SatisfiedIn, Satisfied, IsPending
<1> QED
  BY <1>1, ApprovalInvariant, PTL

(* A pending instance always waits for somebody who can move it            *)
(* (engine.ts 147-148 and 159-160).                                        *)
THEOREM SomebodyIsAwaited == ApprovalSpec => []NeverStuck
<1>1. ApprovalInv => NeverStuck
  BY DEF ApprovalInv, NeverStuck, RowOK, SatisfiedIn, Satisfied, IsPending, Owes
<1> QED
  BY <1>1, ApprovalInvariant, PTL

-----------------------------------------------------------------------------
(* Requests: what a transition has read, and what it derives.              *)

RowsInv ==
  /\ request = [r \in Documents |-> request[r]]
  /\ \A r \in Documents : request[r] = NoRow \/ request[r] \in Request
  /\ events = [r \in Documents |-> events[r]]

(* Nobody else moves a request that is being moved, and it stays as read.  *)
LockInv ==
  /\ \A s \in Slots : slot[s].op = "move" =>
       slot[s] \in Moving /\ request[slot[s].request] = slot[s].row
  /\ \A s, t \in Slots :
       slot[s].op = "move" /\ slot[t].op = "move" /\ slot[s].request = slot[t].request
       => s = t

CallsInv ==
  /\ slot = [s \in Slots |-> slot[s]]
  /\ \A s \in Slots :
       /\ "op" \in DOMAIN slot[s]
       /\ slot[s].op = "edit" => slot[s] \in Editing /\ Exists(slot[s].request)
       /\ slot[s].op = "sync" => slot[s] \in Syncing

EventInv == RowsInv /\ LockInv /\ CallsInv /\ OneEvent

LEMMA InitEventInv == Init => EventInv
BY DEF Init, EventInv, RowsInv, LockInv, CallsInv, OneEvent, Exists, NoRow, Idle

(* A step that neither touches the rows nor starts moving or editing.      *)
LEMMA OtherCallStep ==
  ASSUME EventInv, UNCHANGED <<request, events>>, NEW s \in Slots, NEW call,
         slot' = [slot EXCEPT ![s] = call], "op" \in DOMAIN call,
         call.op \notin {"move", "edit", "sync"}
  PROVE  EventInv'
BY DEF EventInv, RowsInv, LockInv, CallsInv, OneEvent, Exists

LEMMA RowsAndCallsKept ==
  ASSUME EventInv, UNCHANGED <<request, events, slot>>
  PROVE  EventInv'
BY DEF EventInv, RowsInv, LockInv, CallsInv, OneEvent, Exists

LEMMA StepEventInv == EventInv /\ [Next]_vars => EventInv'
<1> SUFFICES ASSUME EventInv, [Next]_vars PROVE EventInv'
  OBVIOUS
<1>1. CASE UNCHANGED vars
  BY <1>1, RowsAndCallsKept DEF vars
<1>2. CASE ApprovalRoute
  BY <1>2, RowsAndCallsKept DEF ApprovalRoute
<1>3. ASSUME NEW s \in Slots, NEW r \in Documents, NEW u \in Users, NEW c \in Contents,
             CreateRequest(s, r, u, c)
      PROVE  EventInv'
  <2>1. request[r] = NoRow /\ UNCHANGED <<events, slot>>
    BY <1>3 DEF CreateRequest, Exists
  <2>2. /\ request' = [x \in Documents |-> request'[x]]
        /\ \A x \in Documents \ {r} : request'[x] = request[x]
        /\ request'[r] \in Request
        /\ request'[r].status = "draft" /\ request'[r].event = FALSE
        /\ request'[r] # NoRow
    BY <1>3 DEF CreateRequest, EventInv, RowsInv, Request, Statuses, NoRow
  <2>3. RowsInv'
    BY <2>1, <2>2 DEF EventInv, RowsInv
  <2>4. \A t \in Slots : slot[t].op = "move" => slot[t].request # r
    BY <2>1 DEF EventInv, LockInv, Moving, Request, NoRow
  <2>5. LockInv'
    BY <2>1, <2>2, <2>4 DEF EventInv, LockInv, Moving
  <2>6. CallsInv'
    BY <2>1, <2>2 DEF EventInv, CallsInv, Exists, Editing
  <2>7. OneEvent'
    BY <2>1, <2>2 DEF EventInv, OneEvent, Exists
  <2> QED
    BY <2>3, <2>5, <2>6, <2>7 DEF EventInv
<1>4. ASSUME NEW s \in Slots, NEW r \in Documents, NEW c \in Contents, UpdateRead(s, r, c)
      PROVE  EventInv'
  <2>1. /\ UNCHANGED <<request, events>> /\ Exists(r)
        /\ slot' = [slot EXCEPT ![s] = [op |-> "edit", request |-> r, content |-> c]]
    BY <1>4 DEF UpdateRead, Go
  <2>2. [op |-> "edit", request |-> r, content |-> c] \in Editing
    BY DEF Editing
  <2> QED
    BY <2>1, <2>2 DEF EventInv, RowsInv, LockInv, CallsInv, OneEvent, Exists
<1>5. ASSUME NEW s \in Slots, UpdateCommit(s) PROVE EventInv'
  <2> DEFINE r == slot[s].request
  <2>1. slot[s] \in Editing /\ Exists(r) /\ r \in Documents /\ slot[s].content \in Contents
    BY <1>5 DEF UpdateCommit, EventInv, CallsInv, Editing
  <2>2. /\ \A t \in Slots : slot[t].op = "move" => slot[t].request # r
        /\ request' = [request EXCEPT ![r].content = slot[s].content]
        /\ slot' = [slot EXCEPT ![s] = Idle]
        /\ UNCHANGED events
    BY <1>5 DEF UpdateCommit, LockFree, Answer
  <2>3. request[r] \in Request
    BY <2>1 DEF EventInv, RowsInv, Exists
  <2> HIDE DEF r
  <2>4. /\ request' = [x \in Documents |-> request'[x]]
        /\ \A x \in Documents \ {r} : request'[x] = request[x]
        /\ request'[r] \in Request
        /\ request'[r].status = request[r].status /\ request'[r].event = request[r].event
    BY <2>1, <2>2, <2>3 DEF EventInv, RowsInv, Request
  <2>5. \A x \in Documents : Exists(x)' <=> Exists(x)
    BY <2>1, <2>4 DEF Exists, Request, NoRow
  <2>6. RowsInv'
    BY <2>2, <2>4 DEF EventInv, RowsInv
  <2>7. LockInv'
    BY <2>2, <2>4 DEF EventInv, LockInv, Moving, CallsInv, Idle
  <2>8. CallsInv'
    BY <2>2, <2>5 DEF EventInv, CallsInv, Idle, Editing
  <2>9. OneEvent'
    BY <2>1, <2>2, <2>4, <2>5 DEF EventInv, OneEvent
  <2> QED
    BY <2>6, <2>7, <2>8, <2>9 DEF EventInv
<1>6. ASSUME NEW s \in Slots, NEW r \in Documents, NEW a \in Actions, NEW u \in Users,
             TransitionStart(s, r, a, u)
      PROVE  EventInv'
  <2> DEFINE todo == IF a = "submit" THEN {} ELSE ApplicableBudgets(request[r].content)
             call == [op |-> "move", request |-> r, action |-> a, user |-> u,
                      row |-> request[r], todo |-> todo]
  <2>1. /\ UNCHANGED <<request, events>> /\ Exists(r) /\ LockFree(r)
        /\ slot' = [slot EXCEPT ![s] = call]
    BY <1>6 DEF TransitionStart, Go
  <2>2. todo \in SUBSET Budgets /\ request[r] \in Request
    BY <2>1 DEF ApplicableBudgets, EventInv, RowsInv, Exists
  <2> HIDE DEF todo
  <2>3. call \in Moving /\ call.op = "move" /\ "op" \in DOMAIN call
        /\ call.request = r /\ call.row = request[r]
    BY <2>2 DEF Moving
  <2> HIDE DEF call
  <2>4. LockInv'
    BY <2>1, <2>3 DEF EventInv, LockInv, CallsInv, LockFree
  <2>5. CallsInv'
    BY <2>1, <2>3 DEF EventInv, CallsInv, Exists
  <2> QED
    BY <2>1, <2>4, <2>5 DEF EventInv, RowsInv, OneEvent, Exists
<1>7. ASSUME NEW s \in Slots, NEW b \in Budgets, TransitionBudget(s, b) PROVE EventInv'
  <2> DEFINE call == [slot[s] EXCEPT !.todo = @ \ {b}]
  <2>1. /\ UNCHANGED <<request, events>> /\ slot[s].op = "move"
        /\ slot' = [slot EXCEPT ![s] = call]
    BY <1>7 DEF TransitionBudget, Go
  <2>2. slot[s] \in Moving /\ request[slot[s].request] = slot[s].row
    BY <2>1 DEF EventInv, LockInv
  <2>3. call \in Moving /\ call.op = "move" /\ "op" \in DOMAIN call
        /\ call.request = slot[s].request /\ call.row = slot[s].row
    BY <2>1, <2>2 DEF Moving
  <2> HIDE DEF call
  <2>4. LockInv'
    BY <2>1, <2>2, <2>3 DEF EventInv, LockInv, CallsInv
  <2>5. CallsInv'
    BY <2>1, <2>3 DEF EventInv, CallsInv, Exists
  <2> QED
    BY <2>1, <2>4, <2>5 DEF EventInv, RowsInv, OneEvent, Exists
<1>8. ASSUME NEW s \in Slots, TransitionCommit(s) PROVE EventInv'
  <2> DEFINE r == slot[s].request
             row == slot[s].row
             call == [op |-> "sync", request |-> r, action |-> slot[s].action,
                      user |-> slot[s].user, amount |-> request[r].content.amount]
  <2>1. /\ slot[s] \in Moving /\ r \in Documents /\ row \in Request /\ request[r] = row
        /\ slot[s].op = "move" /\ slot[s].action \in Actions
    BY <1>8 DEF TransitionCommit, EventInv, LockInv, Moving
  <2>2. slot' = [slot EXCEPT ![s] = call]
    BY <1>8 DEF TransitionCommit, Go
  <2>3. PICK target \in NextStatus(row.status, slot[s].action) :
          /\ request' = [request EXCEPT ![r].status = target,
                                        ![r].event = @ \/ target = "approved"]
          /\ events' = [events EXCEPT ![r] =
               IF DerivesEvent(row, target) THEN @ + 1 ELSE @]
    BY <1>8 DEF TransitionCommit
  <2>4. /\ target \in Statuses
        /\ target = "completed" => row.status = "approved"
    BY <2>3 DEF NextStatus
  <2>5. call \in Syncing /\ call.op = "sync" /\ "op" \in DOMAIN call
    BY <2>1, RequestsAssumption DEF Moving, Request, Syncing, RequestsAssumption
  <2> HIDE DEF r, row, call
  <2>6. /\ request' = [x \in Documents |-> request'[x]]
        /\ \A x \in Documents \ {r} : request'[x] = request[x]
        /\ request'[r] \in Request
        /\ request'[r].status = target
        /\ request'[r].event = (row.event \/ target = "approved")
    BY <2>1, <2>3, <2>4 DEF EventInv, RowsInv, Request
  <2>7. /\ events' = [x \in Documents |-> events'[x]]
        /\ \A x \in Documents \ {r} : events'[x] = events[x]
        /\ events'[r] = IF target = "approved" /\ ~row.event THEN events[r] + 1 ELSE events[r]
    BY <2>1, <2>3 DEF EventInv, RowsInv, DerivesEvent
  <2>8. /\ events[r] = IF row.event THEN 1 ELSE 0
        /\ row.status = "approved" => row.event
        /\ row.event \in BOOLEAN
        /\ request[r] # NoRow /\ request'[r] # NoRow
    BY <2>1, <2>6 DEF EventInv, OneEvent, Exists, Request, NoRow
  <2>9. RowsInv'
    BY <2>6, <2>7 DEF EventInv, RowsInv
  <2>10. \A t \in Slots \ {s} : slot'[t] = slot[t] /\ (slot[t].op = "move" => slot[t].request # r)
    BY <2>1, <2>2 DEF r, EventInv, LockInv, CallsInv
  <2>11. slot'[s] \in Syncing /\ slot'[s].op = "sync" /\ "op" \in DOMAIN slot'[s] /\ slot' = [t \in Slots |-> slot'[t]]
    BY <2>2, <2>5 DEF EventInv, CallsInv
  <2>12. LockInv'
    BY <2>6, <2>10, <2>11 DEF EventInv, LockInv, Moving
  <2>13. \A x \in Documents : Exists(x)' <=> Exists(x)
    BY <2>6, <2>8 DEF Exists
  <2>14. CallsInv'
    BY <2>10, <2>11, <2>13 DEF EventInv, CallsInv, Editing
  <2>15. events'[r] = IF request'[r].event THEN 1 ELSE 0
    <3>1. CASE row.event
      BY <2>6, <2>7, <2>8, <3>1
    <3>2. CASE ~row.event /\ target = "approved"
      <4>1. request'[r].event
        BY <2>6, <3>2
      <4>2. events'[r] = 1
        BY <2>7, <2>8, <3>2
      <4> QED
        BY <4>1, <4>2
    <3>3. CASE ~row.event /\ target # "approved"
      <4>1. ~request'[r].event
        BY <2>6, <3>3
      <4>2. events'[r] = 0
        BY <2>7, <2>8, <3>3
      <4> QED
        BY <4>1, <4>2
    <3> QED
      BY <3>1, <3>2, <3>3
  <2>16. request'[r].status \in {"approved", "completed"} => request'[r].event
    BY <2>4, <2>6, <2>8
  <2>17. ASSUME NEW x \in Documents
         PROVE  (/\ events[x] = IF Exists(x) /\ request[x].event THEN 1 ELSE 0
                 /\ request[x].status \in {"approved", "completed"} => request[x].event)'
    <3>1. CASE x = r
      BY <2>8, <2>15, <2>16, <3>1 DEF Exists
    <3>2. CASE x # r
      BY <2>6, <2>7, <3>2 DEF EventInv, OneEvent, Exists
    <3> QED
      BY <3>1, <3>2
  <2>18. OneEvent'
    BY <2>17 DEF OneEvent
  <2> QED
    BY <2>9, <2>12, <2>14, <2>18 DEF EventInv
<1>9. ASSUME NEW s \in Slots, Sync(s) PROVE EventInv'
  <2> DEFINE call == Idle
  <2>1. UNCHANGED <<request, events>> /\ slot' = [slot EXCEPT ![s] = call]
    BY <1>9 DEF Sync, Answer
  <2>2. "op" \in DOMAIN call /\ call.op \notin {"move", "edit", "sync"}
    BY DEF Idle
  <2> HIDE DEF call
  <2> QED
    BY <2>1, <2>2, OtherCallStep
<1>10. ASSUME NEW s \in Slots, NEW b \in Budgets, CreateBudget(s, b) PROVE EventInv'
  BY <1>10, RowsAndCallsKept DEF CreateBudget
<1>11. ASSUME NEW s \in Slots, NEW b \in Budgets, DeleteBudgetCount(s, b) PROVE EventInv'
  <2> DEFINE call == [op |-> "delete", budget |-> b]
  <2>1. UNCHANGED <<request, events>> /\ slot' = [slot EXCEPT ![s] = call]
    BY <1>11 DEF DeleteBudgetCount, Go
  <2>2. "op" \in DOMAIN call /\ call.op \notin {"move", "edit", "sync"}
    BY DEF Idle
  <2> HIDE DEF call
  <2> QED
    BY <2>1, <2>2, OtherCallStep
<1>12. ASSUME NEW s \in Slots, DeleteBudget(s) PROVE EventInv'
  <2> DEFINE call == Idle
  <2>1. UNCHANGED <<request, events>> /\ slot' = [slot EXCEPT ![s] = call]
    BY <1>12 DEF DeleteBudget, Answer
  <2>2. "op" \in DOMAIN call /\ call.op \notin {"move", "edit", "sync"}
    BY DEF Idle
  <2> HIDE DEF call
  <2> QED
    BY <2>1, <2>2, OtherCallStep
<1>13. ASSUME NEW s \in Slots, Abandon(s) PROVE EventInv'
  <2> DEFINE call == Idle
  <2>1. UNCHANGED <<request, events>> /\ slot' = [slot EXCEPT ![s] = call]
    BY <1>13 DEF Abandon, Answer
  <2>2. "op" \in DOMAIN call /\ call.op \notin {"move", "edit", "sync"}
    BY DEF Idle
  <2> HIDE DEF call
  <2> QED
    BY <2>1, <2>2, OtherCallStep
<1> QED
  BY <1>1, <1>2, <1>3, <1>4, <1>5, <1>6, <1>7, <1>8, <1>9, <1>10, <1>11, <1>12, <1>13
  DEF Next

(* A step of the requests is one of the approval engine or none: the       *)
(* requests call it only with what its own routes could be called with.    *)
LEMMA ApprovalStep ==
  EventInv /\ [Next]_vars => [ApprovalNext]_approvalVars
<1> SUFFICES ASSUME EventInv, Next PROVE ApprovalNext \/ UNCHANGED approvalVars
  BY DEF vars
<1>1. CASE ApprovalRoute
  BY <1>1 DEF ApprovalRoute
<1>2. ASSUME NEW s \in Slots, Sync(s) PROVE ApprovalNext
  <2> DEFINE c == slot[s]
  <2>1. /\ c.request \in Documents /\ c.user \in Users /\ c.amount \in Totals
    BY <1>2 DEF Sync, EventInv, CallsInv, Syncing
  <2>2. CASE \E panel \in [Orders -> Panels] :
               SubmitForApproval(c.request, c.user, c.amount, panel)
    BY <2>1, <2>2 DEF ApprovalNext
  <2>3. CASE \E i \in LatestPending(c.request) : Approve(i, c.user)
    BY <2>1, <2>3 DEF ApprovalNext, LatestPending
  <2>4. CASE \E i \in LatestPending(c.request) : Reject(i, c.user)
    BY <2>1, <2>4 DEF ApprovalNext, LatestPending
  <2> QED
    BY <1>2, <2>2, <2>3, <2>4 DEF Sync
<1>3. CASE ~ApprovalRoute /\ \A s \in Slots : ~Sync(s)
  BY <1>3 DEF Next, CreateRequest, UpdateRead, UpdateCommit, TransitionStart,
     TransitionBudget, TransitionCommit, CreateBudget, DeleteBudgetCount, DeleteBudget,
     Abandon
<1> QED
  BY <1>1, <1>2, <1>3

(* The requests implement the approval engine: what is proved of it above  *)
(* holds of the requests' approvals as well.                               *)
THEOREM RequestsUseApprovals == Spec => ApprovalSpec
<1>1. Init => ApprovalInit
  BY DEF Init
<1> QED
  BY <1>1, InitEventInv, StepEventInv, ApprovalStep, PTL
  DEF Spec, ApprovalSpec, approvalVars

(* OneEvent holds for every instance.                                      *)
THEOREM DerivedOnce == Spec => []OneEvent
<1>1. EventInv => OneEvent
  BY DEF EventInv
<1> QED
  BY <1>1, InitEventInv, StepEventInv, PTL DEF Spec

-----------------------------------------------------------------------------
(* Type correctness, with the engine's own proof for its variables.        *)

(* The calls that neither move, nor edit, nor bring approvals up to date.  *)
CallsTyped ==
  \A s \in Slots :
    slot[s] = Idle \/ slot[s] \in Deleting \/ slot[s].op \in {"move", "edit", "sync"}

BudgetsTyped ==
  /\ budget \in [Budgets -> {"none", "live", "gone"}]
  /\ encumbrance \in [Budgets -> [Documents -> Encumbrance \cup {NoRow}]]

TypeInv == EventInv /\ CallsTyped /\ BudgetsTyped /\ ApprovalInv

LEMMA TypeInvInit == Init => TypeInv
<1> SUFFICES ASSUME Init PROVE TypeInv
  OBVIOUS
<1>1. ApprovalInv
  <2>1. ApprovalInit
    BY DEF Init
  <2> QED
    BY <2>1, ApprovalInvInit
<1>2. CallsTyped /\ BudgetsTyped
  BY DEF Init, CallsTyped, BudgetsTyped
<1> QED
  BY <1>1, <1>2, InitEventInv DEF TypeInv

LEMMA CallsStep ==
  ASSUME EventInv, CallsTyped, [Next]_vars
  PROVE  CallsTyped'
<1> DEFINE Goal == CallsTyped'
<1>0. slot = [s \in Slots |-> slot[s]]
  BY DEF EventInv, CallsInv
<1>1. ASSUME NEW s \in Slots, NEW call, slot' = [slot EXCEPT ![s] = call],
             call = Idle \/ call \in Deleting \/ call.op \in {"move", "edit", "sync"}
      PROVE  Goal
  BY <1>0, <1>1 DEF CallsTyped
<1>2. ASSUME NEW s \in Slots, slot' = [slot EXCEPT ![s] = Idle] PROVE Goal
  BY <1>0, <1>2 DEF CallsTyped
<1>3. UNCHANGED slot => Goal
  BY DEF CallsTyped
<1>4. ASSUME NEW s \in Slots
      PROVE  /\ \A r \in Documents, u \in Users, c \in Contents : CreateRequest(s, r, u, c) => Goal
             /\ \A r \in Documents, c \in Contents : UpdateRead(s, r, c) => Goal
             /\ UpdateCommit(s) => Goal
             /\ \A r \in Documents, a \in Actions, u \in Users : TransitionStart(s, r, a, u) => Goal
             /\ \A b \in Budgets : TransitionBudget(s, b) => Goal
             /\ TransitionCommit(s) => Goal
             /\ Sync(s) => Goal
             /\ \A b \in Budgets : CreateBudget(s, b) => Goal
             /\ \A b \in Budgets : DeleteBudgetCount(s, b) => Goal
             /\ DeleteBudget(s) => Goal
             /\ Abandon(s) => Goal
  <2> HIDE DEF Goal
  <2>1. \A r \in Documents, u \in Users, c \in Contents : CreateRequest(s, r, u, c) => Goal
    BY <1>3 DEF CreateRequest
  <2>2. \A r \in Documents, c \in Contents : UpdateRead(s, r, c) => Goal
    BY <1>1 DEF UpdateRead, Go
  <2>3. \A r \in Documents, a \in Actions, u \in Users : TransitionStart(s, r, a, u) => Goal
    BY <1>1 DEF TransitionStart, Go
  <2>4. \A b \in Budgets : TransitionBudget(s, b) => Goal
    <3> SUFFICES ASSUME NEW b \in Budgets, TransitionBudget(s, b) PROVE Goal
      OBVIOUS
    <3>1. slot[s] \in Moving
      BY DEF TransitionBudget, EventInv, LockInv
    <3>2. PICK call : call = [slot[s] EXCEPT !.todo = @ \ {b}]
      OBVIOUS
    <3>3. call.op = "move" /\ slot' = [slot EXCEPT ![s] = call]
      BY <3>1, <3>2 DEF TransitionBudget, Go, Moving
    <3> QED
      BY <1>1, <3>3
  <2>5. TransitionCommit(s) => Goal
    BY <1>1 DEF TransitionCommit, Go
  <2>6. \A b \in Budgets : CreateBudget(s, b) => Goal
    BY <1>3 DEF CreateBudget
  <2>7. \A b \in Budgets : DeleteBudgetCount(s, b) => Goal
    BY <1>1 DEF DeleteBudgetCount, Go, Deleting
  <2>8. UpdateCommit(s) \/ Sync(s) \/ DeleteBudget(s) \/ Abandon(s) => Goal
    BY <1>2 DEF UpdateCommit, Sync, DeleteBudget, Abandon, Answer
  <2> QED
    BY <2>1, <2>2, <2>3, <2>4, <2>5, <2>6, <2>7, <2>8
<1>5. ApprovalRoute => Goal
  BY <1>3 DEF ApprovalRoute
<1>6. UNCHANGED vars => Goal
  BY <1>3 DEF vars
<1> HIDE DEF Goal
<1>7. ASSUME Next PROVE Goal
  BY <1>4, <1>5, <1>7 DEF Next
<1>8. Goal
  BY <1>6, <1>7
<1> QED
  BY <1>8 DEF Goal

(* What a step may do to the budgets: one encumbrance is written by the    *)
(* transition of its request, a budget is created, or one is deleted with  *)
(* its encumbrances.                                                       *)
LEMMA BudgetSteps ==
  ASSUME [Next]_vars
  PROVE  \/ UNCHANGED <<budget, encumbrance>>
         \/ \E s \in Slots, b \in Budgets : TransitionBudget(s, b)
         \/ \E s \in Slots, b \in Budgets : CreateBudget(s, b)
         \/ \E s \in Slots : DeleteBudget(s)
BY DEF Next, vars, CreateRequest, UpdateRead, UpdateCommit, TransitionStart,
       TransitionCommit, Sync, DeleteBudgetCount, Abandon, ApprovalRoute

(* What transitionEncumbrance makes of an encumbrance.                     *)
MovesTo(old, new, status) ==
  IF old.status = "reserved" THEN new.status = status ELSE new = old

(* A transition writes the encumbrance of its own request alone.           *)
LEMMA OneEncumbrance ==
  ASSUME EventInv, BudgetsTyped, NEW s \in Slots, NEW b \in Budgets, TransitionBudget(s, b)
  PROVE  \E m \in Moving, e \in Encumbrance \cup {NoRow} :
           /\ m = slot[s] /\ b \in m.todo /\ m.row = request[m.request]
           /\ encumbrance' = [encumbrance EXCEPT ![b][m.request] = e]
           /\ m.action = "approve" => e.status = "reserved" /\ budget[b] = "live"
           /\ m.action = "complete" =>
                MovesTo(encumbrance[b][m.request], e, "realized")
           /\ m.action \notin {"approve", "complete"} =>
                MovesTo(encumbrance[b][m.request], e, "released")
<1>1. PICK m \in Moving : m = slot[s] /\ m.op = "move" /\ m.row = request[m.request]
  BY DEF TransitionBudget, EventInv, LockInv
<1>2. m.request \in Documents /\ m.row \in Request
  BY DEF Moving
<1>3. PICK old \in Encumbrance \cup {NoRow} : old = encumbrance[b][m.request]
  BY <1>2 DEF BudgetsTyped
<1>4. CASE m.action = "approve"
  <2>1. [status |-> "reserved", amount |-> m.row.content.amount] \in Encumbrance
    BY <1>2, RequestsAssumption DEF Encumbrance, Request
  <2> QED
    BY <1>1, <1>4, <2>1 DEF TransitionBudget, Reserve
<1>5. ASSUME NEW st \in {"realized", "released"},
             TransitionEncumbrance(b, m.request, st)
      PROVE  \E e \in Encumbrance \cup {NoRow} :
               /\ encumbrance' = [encumbrance EXCEPT ![b][m.request] = e]
               /\ MovesTo(old, e, st)
  <2>1. CASE old.status = "reserved"
    <3>1. old \in Encumbrance
      BY <2>1 DEF NoRow
    <3>2. PICK e : e = [old EXCEPT !.status = st]
      OBVIOUS
    <3>3. e \in Encumbrance /\ e.status = st
      BY <3>1, <3>2 DEF Encumbrance
    <3>4. encumbrance' = [encumbrance EXCEPT ![b][m.request] = e]
      BY <1>2, <1>3, <1>5, <2>1, <3>2 DEF TransitionEncumbrance, BudgetsTyped
    <3> QED
      BY <2>1, <3>3, <3>4 DEF MovesTo
  <2>2. CASE old.status # "reserved"
    <3>1. encumbrance' = [encumbrance EXCEPT ![b][m.request] = old]
      BY <1>2, <1>3, <1>5, <2>2 DEF TransitionEncumbrance, BudgetsTyped
    <3> QED
      BY <2>2, <3>1 DEF MovesTo
  <2> QED
    BY <2>1, <2>2
<1>6. CASE m.action = "complete"
  BY <1>1, <1>3, <1>5, <1>6 DEF TransitionBudget
<1>7. CASE m.action \notin {"approve", "complete"}
  BY <1>1, <1>3, <1>5, <1>7 DEF TransitionBudget
<1> QED
  BY <1>4, <1>6, <1>7

LEMMA BudgetsStep ==
  ASSUME EventInv, BudgetsTyped, CallsTyped, [Next]_vars
  PROVE  BudgetsTyped'
<1>1. CASE UNCHANGED <<budget, encumbrance>>
  BY <1>1 DEF BudgetsTyped
<1>2. ASSUME NEW s \in Slots, NEW b \in Budgets, TransitionBudget(s, b)
      PROVE  BudgetsTyped'
  <2>1. PICK m \in Moving, e \in Encumbrance \cup {NoRow} :
          encumbrance' = [encumbrance EXCEPT ![b][m.request] = e]
    BY <1>2, OneEncumbrance
  <2>2. m.request \in Documents /\ budget' = budget
    BY <1>2 DEF Moving, TransitionBudget
  <2> QED
    BY <2>1, <2>2 DEF BudgetsTyped
<1>3. ASSUME NEW s \in Slots, NEW b \in Budgets, CreateBudget(s, b)
      PROVE  BudgetsTyped'
  BY <1>3 DEF CreateBudget, BudgetsTyped
<1>4. ASSUME NEW s \in Slots, DeleteBudget(s)
      PROVE  BudgetsTyped'
  <2>1. slot[s] \in Deleting
    BY <1>4 DEF DeleteBudget, CallsTyped, Idle
  <2>2. slot[s].budget \in Budgets
    BY <2>1 DEF Deleting
  <2> QED
    BY <1>4, <2>2 DEF DeleteBudget, BudgetsTyped
<1> QED
  BY <1>1, <1>2, <1>3, <1>4, BudgetSteps

LEMMA TypeInvStep == TypeInv /\ [Next]_vars => TypeInv'
<1> SUFFICES ASSUME TypeInv, [Next]_vars PROVE TypeInv'
  OBVIOUS
<1>1. EventInv' /\ CallsTyped' /\ BudgetsTyped'
  BY StepEventInv, CallsStep, BudgetsStep DEF TypeInv
<1>2. [ApprovalNext]_approvalVars
  BY ApprovalStep DEF TypeInv, approvalVars
<1>3. ApprovalInv'
  BY <1>2, ApprovalInvStep, ApprovalsAssumption DEF TypeInv
<1> QED
  BY <1>1, <1>3 DEF TypeInv

LEMMA TypeInvariance == Spec => []TypeInv
BY TypeInvInit, TypeInvStep, PTL DEF Spec

(* Every variable keeps its type.                                          *)
THEOREM TypeCorrect == Spec => []TypeOK
<1>1. TypeInv => TypeOK
  <2> SUFFICES ASSUME TypeInv PROVE TypeOK
    OBVIOUS
  <2>1. request \in [Documents -> Request \cup {NoRow}]
    BY DEF TypeInv, EventInv, RowsInv
  <2>2. events \in [Documents -> Nat]
    BY DEF TypeInv, EventInv, RowsInv, OneEvent
  <2>3. slot \in [Slots -> Calls]
    <3>1. \A s \in Slots : \/ slot[s] = Idle \/ slot[s] \in Deleting
                           \/ slot[s] \in Moving \/ slot[s] \in Editing
                           \/ slot[s] \in Syncing
      BY DEF TypeInv, EventInv, CallsInv, LockInv, CallsTyped
    <3>2. Idle \in [op : {"idle"}]
      BY DEF Idle
    <3>3. \A s \in Slots : slot[s] \in Calls
      BY <3>1, <3>2 DEF Calls
    <3> QED
      BY <3>3 DEF TypeInv, EventInv, CallsInv
  <2>4. ApprovalTypeOK
    BY DEF TypeInv, ApprovalInv
  <2> QED
    BY <2>1, <2>2, <2>3, <2>4 DEF TypeOK, TypeInv, BudgetsTyped
<1> QED
  BY <1>1, TypeInvariance, PTL

-----------------------------------------------------------------------------
(* Money.  Nothing is reserved on a budget that is gone; money is realized *)
(* only of requests that were approved; and of the budgets that apply to a *)
(* request being rejected, cancelled or completed, those that still keep   *)
(* money for it are those its transition has yet to visit.                 *)
Settled == {"approved", "completed", "cancelled"}

ReservedIsLive ==
  \A b \in Budgets, r \in Documents :
    encumbrance[b][r].status = "reserved" => budget[b] = "live"

RealizedIsSettled ==
  \A b \in Budgets, r \in Documents :
    encumbrance[b][r].status = "realized" => request[r].status \in Settled

Unvisited(m) ==
  /\ NextStatus(m.row.status, m.action) # {}
  /\ m.action \notin {"submit", "approve"} =>
       \A b \in Budgets :
         /\ IsBudgetApplicable(b, m.row.content)
         /\ encumbrance[b][m.request].status = "reserved"
         => b \in m.todo

MovesVisit == \A s \in Slots : slot[s].op = "move" => Unvisited(slot[s])

MoneyInv == ReservedIsLive /\ RealizedIsSettled /\ MovesVisit

LEMMA MoneyInit == Init => MoneyInv
BY DEF Init, MoneyInv, ReservedIsLive, RealizedIsSettled, MovesVisit, NoRow, Idle

(* Settled requests stay settled.                                          *)
LEMMA SettledStays ==
  ASSUME TypeInv, MoneyInv, [Next]_vars, NEW r \in Documents, request[r].status \in Settled
  PROVE  request'[r].status \in Settled
<1> DEFINE Goal == request'[r].status \in Settled
<1>0. Exists(r) /\ request[r] \in Request
  BY DEF Exists, NoRow, Settled, TypeInv, EventInv, RowsInv
<1>1. UNCHANGED request => Goal
  OBVIOUS
<1>2. ASSUME NEW s \in Slots
      PROVE  /\ \A x \in Documents, u \in Users, c \in Contents : CreateRequest(s, x, u, c) => Goal
             /\ UpdateCommit(s) => Goal
             /\ TransitionCommit(s) => Goal
  <2>1. \A x \in Documents, u \in Users, c \in Contents : CreateRequest(s, x, u, c) => Goal
    BY <1>0 DEF CreateRequest
  <2>2. UpdateCommit(s) => Goal
    <3> SUFFICES ASSUME UpdateCommit(s) PROVE Goal
      OBVIOUS
    <3>1. slot[s].request \in Documents
      BY DEF UpdateCommit, TypeInv, EventInv, CallsInv, Editing
    <3>2. request'[r].status = request[r].status
      BY <1>0, <3>1 DEF UpdateCommit, TypeInv, EventInv, RowsInv, Request
    <3> QED
      BY <3>2
  <2>3. TransitionCommit(s) => Goal
    <3> SUFFICES ASSUME TransitionCommit(s) PROVE Goal
      OBVIOUS
    <3>1. PICK m \in Moving : m = slot[s] /\ m.row = request[m.request]
      BY DEF TransitionCommit, TypeInv, EventInv, LockInv
    <3>2. m.request \in Documents
      BY DEF Moving
    <3>3. PICK target \in NextStatus(m.row.status, m.action) :
            request' = [request EXCEPT ![m.request].status = target,
                                       ![m.request].event = @ \/ target = "approved"]
      BY <3>1 DEF TransitionCommit
    <3>4. CASE r = m.request
      <4>1. m.row.status \in Settled
        BY <3>1, <3>4
      <4>2. target \in Settled
        BY <4>1 DEF NextStatus, Settled
      <4>3. request'[r].status = target
        BY <1>0, <3>2, <3>3, <3>4 DEF TypeInv, EventInv, RowsInv, Request
      <4> QED
        BY <4>2, <4>3
    <3>5. CASE r # m.request
      BY <3>2, <3>3, <3>5 DEF TypeInv, EventInv, RowsInv
    <3> QED
      BY <3>4, <3>5
  <2> QED
    BY <2>1, <2>2, <2>3
<1> HIDE DEF Goal
<1>3. ASSUME Next PROVE Goal
  BY <1>1, <1>2, <1>3 DEF Next, UpdateRead, TransitionStart, TransitionBudget, Sync,
     CreateBudget, DeleteBudgetCount, DeleteBudget, Abandon, ApprovalRoute
<1>4. Goal
  BY <1>1, <1>3 DEF vars
<1> QED
  BY <1>4 DEF Goal

(* A budget is visited by the transition of the request it is named for.   *)
LEMMA VisitKeepsMoney ==
  ASSUME TypeInv, MoneyInv, TypeInv', NEW s \in Slots, NEW b \in Budgets,
         TransitionBudget(s, b)
  PROVE  /\ MoneyInv'
         /\ \A c \in Budgets, r \in Documents :
              encumbrance[c][r].status = "realized" => encumbrance'[c][r].status = "realized"
<1>1. PICK m \in Moving, e \in Encumbrance \cup {NoRow} :
        /\ m = slot[s] /\ b \in m.todo /\ m.row = request[m.request]
        /\ encumbrance' = [encumbrance EXCEPT ![b][m.request] = e]
        /\ m.action = "approve" => e.status = "reserved" /\ budget[b] = "live"
        /\ m.action = "complete" =>
             MovesTo(encumbrance[b][m.request], e, "realized")
        /\ m.action \notin {"approve", "complete"} =>
             MovesTo(encumbrance[b][m.request], e, "released")
  BY OneEncumbrance DEF TypeInv
<1>2. /\ m.op = "move" /\ m.request \in Documents /\ m.action \in Actions
      /\ UNCHANGED <<budget, request>>
  BY <1>1 DEF Moving, TransitionBudget
<1>3. Unvisited(m)
  BY <1>1, <1>2 DEF MoneyInv, MovesVisit
<1>4. \A c \in Budgets, r \in Documents :
        encumbrance'[c][r] = IF c = b /\ r = m.request THEN e ELSE encumbrance[c][r]
  BY <1>1, <1>2 DEF TypeInv, BudgetsTyped
<1>5. /\ m.action = "approve" => m.row.status = "pending"
      /\ m.action = "complete" => m.row.status = "approved"
  BY <1>3 DEF Unvisited, NextStatus
<1>6. m.action # "approve" => e.status # "reserved"
  BY <1>1 DEF MovesTo
<1>7. ReservedIsLive'
  BY <1>1, <1>2, <1>4, <1>6 DEF MoneyInv, ReservedIsLive
<1>8. e.status = "realized" => request[m.request].status \in Settled
  <2>1. m.action = "complete" => request[m.request].status \in Settled
    BY <1>1, <1>5 DEF Settled
  <2>2. m.action # "complete" /\ e.status = "realized"
          => encumbrance[b][m.request].status = "realized"
    BY <1>1 DEF MovesTo
  <2> QED
    BY <1>2, <2>1, <2>2 DEF MoneyInv, RealizedIsSettled
<1>9. RealizedIsSettled'
  BY <1>2, <1>4, <1>8 DEF MoneyInv, RealizedIsSettled
<1>10. encumbrance[b][m.request].status = "realized" => e.status = "realized"
  <2> SUFFICES ASSUME encumbrance[b][m.request].status = "realized"
               PROVE  e.status = "realized"
    OBVIOUS
  <2>1. m.row.status \in Settled
    BY <1>1, <1>2 DEF MoneyInv, RealizedIsSettled
  <2>2. m.action # "approve"
    BY <1>5, <2>1 DEF Settled
  <2> QED
    BY <1>1, <2>2 DEF MovesTo
<1>11. PICK n : n = [m EXCEPT !.todo = @ \ {b}]
  OBVIOUS
<1>12. /\ n.op = "move" /\ n.request = m.request /\ n.row = m.row /\ n.action = m.action
       /\ n.todo = m.todo \ {b}
  BY <1>2, <1>11 DEF Moving
<1>13. /\ slot'[s] = n /\ \A t \in Slots \ {s} : slot'[t] = slot[t]
  BY <1>1, <1>11 DEF TransitionBudget, Go, TypeInv, EventInv, CallsInv
<1>14. ASSUME NEW t \in Slots, slot'[t].op = "move" PROVE Unvisited(slot[t])'
  <2>1. CASE t = s
    BY <1>2, <1>3, <1>4, <1>6, <1>12, <1>13, <2>1 DEF Unvisited
  <2>2. CASE t # s
    <3>1. slot'[t] = slot[t] /\ slot[t].op = "move" /\ Unvisited(slot[t])
      BY <1>13, <1>14, <2>2 DEF MoneyInv, MovesVisit
    <3>2. slot[t].request # m.request /\ slot[t].request \in Documents
      BY <1>1, <1>2, <2>2, <3>1 DEF TypeInv, EventInv, LockInv, Moving
    <3>3. \A c \in Budgets : encumbrance'[c][slot[t].request] = encumbrance[c][slot[t].request]
      BY <1>4, <3>2
    <3> QED
      BY <3>1, <3>3 DEF Unvisited
  <2> QED
    BY <2>1, <2>2
<1> QED
  BY <1>4, <1>7, <1>9, <1>10, <1>14 DEF MoneyInv, MovesVisit

(* Which slots move after a step, and what they remember.                  *)
LEMMA MovingSlots ==
  ASSUME EventInv, [Next]_vars, NEW t \in Slots, slot'[t].op = "move"
  PROVE  \/ slot'[t] = slot[t]
         \/ \E b \in Budgets : TransitionBudget(t, b)
         \/ \E r \in Documents, a \in Actions, u \in Users : TransitionStart(t, r, a, u)
<1> DEFINE Goal == \/ slot'[t] = slot[t]
                   \/ \E b \in Budgets : TransitionBudget(t, b)
                   \/ \E r \in Documents, a \in Actions, u \in Users : TransitionStart(t, r, a, u)
<1>0. slot = [s \in Slots |-> slot[s]]
  BY DEF EventInv, CallsInv
<1>1. UNCHANGED slot => Goal
  OBVIOUS
<1>2. ASSUME NEW s \in Slots, NEW call, slot' = [slot EXCEPT ![s] = call],
             s = t => call.op # "move"
      PROVE  Goal
  BY <1>0, <1>2
<1>3. ASSUME NEW s \in Slots
      PROVE  /\ \A r \in Documents, u \in Users, c \in Contents : CreateRequest(s, r, u, c) => Goal
             /\ \A r \in Documents, c \in Contents : UpdateRead(s, r, c) => Goal
             /\ UpdateCommit(s) => Goal
             /\ \A r \in Documents, a \in Actions, u \in Users : TransitionStart(s, r, a, u) => Goal
             /\ \A b \in Budgets : TransitionBudget(s, b) => Goal
             /\ TransitionCommit(s) => Goal
             /\ Sync(s) => Goal
             /\ \A b \in Budgets : CreateBudget(s, b) => Goal
             /\ \A b \in Budgets : DeleteBudgetCount(s, b) => Goal
             /\ DeleteBudget(s) => Goal
             /\ Abandon(s) => Goal
  <2>1. slot' = [slot EXCEPT ![s] = Idle] => Goal
    BY <1>2 DEF Idle
  <2>2. \A r \in Documents, a \in Actions, u \in Users : TransitionStart(s, r, a, u) => Goal
    BY <1>0 DEF TransitionStart, Go
  <2>3. \A b \in Budgets : TransitionBudget(s, b) => Goal
    BY <1>0 DEF TransitionBudget, Go
  <2> HIDE DEF Goal
  <2>4. \A r \in Documents, u \in Users, c \in Contents : CreateRequest(s, r, u, c) => Goal
    BY <1>1 DEF CreateRequest
  <2>5. \A r \in Documents, c \in Contents : UpdateRead(s, r, c) => Goal
    BY <1>2 DEF UpdateRead, Go
  <2>6. TransitionCommit(s) => Goal
    BY <1>2 DEF TransitionCommit, Go
  <2>7. \A b \in Budgets : CreateBudget(s, b) => Goal
    BY <1>1 DEF CreateBudget
  <2>8. \A b \in Budgets : DeleteBudgetCount(s, b) => Goal
    BY <1>2 DEF DeleteBudgetCount, Go
  <2>9. UpdateCommit(s) \/ Sync(s) \/ DeleteBudget(s) \/ Abandon(s) => Goal
    BY <2>1 DEF UpdateCommit, Sync, DeleteBudget, Abandon, Answer
  <2> QED
    BY <2>2, <2>3, <2>4, <2>5, <2>6, <2>7, <2>8, <2>9
<1>4. ApprovalRoute \/ UNCHANGED vars => Goal
  BY <1>1 DEF ApprovalRoute, vars
<1> HIDE DEF Goal
<1>5. ASSUME Next PROVE Goal
  BY <1>3, <1>4, <1>5 DEF Next
<1>6. Goal
  BY <1>4, <1>5
<1> QED
  BY <1>6 DEF Goal

(* A transition that starts has all the budgets to visit.                  *)
LEMMA StartVisits ==
  ASSUME TypeInv, MoneyInv, NEW s \in Slots, NEW r \in Documents, NEW a \in Actions,
         NEW u \in Users, TransitionStart(s, r, a, u)
  PROVE  Unvisited(slot[s])'
<1>1. PICK m : m = [op |-> "move", request |-> r, action |-> a, user |-> u,
                    row |-> request[r],
                    todo |-> IF a = "submit" THEN {} ELSE ApplicableBudgets(request[r].content)]
  OBVIOUS
<1>2. /\ m.request = r /\ m.action = a /\ m.row = request[r]
      /\ a # "submit" => m.todo = ApplicableBudgets(request[r].content)
  BY <1>1
<1>3. slot'[s] = m /\ encumbrance' = encumbrance
  BY <1>1 DEF TransitionStart, Go, TypeInv, EventInv, CallsInv
<1>4. NextStatus(m.row.status, m.action) # {}
  BY <1>2 DEF TransitionStart
<1>5. ASSUME NEW b \in Budgets, IsBudgetApplicable(b, request[r].content),
             encumbrance[b][r].status = "reserved"
      PROVE  b \in ApplicableBudgets(request[r].content)
  <2>1. budget[b] = "live"
    BY <1>5 DEF MoneyInv, ReservedIsLive
  <2>2. request[r].content.account # NoValue
    BY <1>5, RequestsAssumption DEF IsBudgetApplicable
  <2> QED
    BY <1>5, <2>1, <2>2 DEF ApplicableBudgets
<1> QED
  BY <1>2, <1>3, <1>4, <1>5 DEF Unvisited

LEMMA MoneyStep ==
  ASSUME TypeInv, MoneyInv, TypeInv', [Next]_vars
  PROVE  MoneyInv'
<1>1. CASE \E s \in Slots, b \in Budgets : TransitionBudget(s, b)
  BY <1>1, VisitKeepsMoney
<1>2. CASE ~ \E s \in Slots, b \in Budgets : TransitionBudget(s, b)
  <2>1. \A b \in Budgets, r \in Documents :
          encumbrance'[b][r] = encumbrance[b][r]
            \/ (encumbrance'[b][r] = NoRow /\ encumbrance'[b][r].status = "none")
    <3>1. ASSUME NEW s \in Slots, DeleteBudget(s)
          PROVE  encumbrance' = [encumbrance EXCEPT ![slot[s].budget] = [r \in Documents |-> NoRow]]
      BY <3>1 DEF DeleteBudget
    <3>2. NoRow.status = "none"
      BY DEF NoRow
    <3> QED
      BY <1>2, <3>1, <3>2, BudgetSteps DEF CreateBudget, TypeInv, BudgetsTyped
  <2>2. \A b \in Budgets, r \in Documents :
          encumbrance'[b][r].status = "reserved" => budget'[b] = budget[b] \/ budget'[b] = "live"
    <3>1. ASSUME NEW s \in Slots, DeleteBudget(s), NEW b \in Budgets, NEW r \in Documents
          PROVE  encumbrance'[b][r].status # "reserved" \/ budget'[b] = budget[b]
      <4>1. slot[s].budget \in Budgets
        BY <3>1 DEF DeleteBudget, TypeInv, CallsTyped, Idle, Deleting
      <4> QED
        BY <3>1, <4>1 DEF DeleteBudget, TypeInv, BudgetsTyped, NoRow
    <3>2. ASSUME NEW s \in Slots, NEW c \in Budgets, CreateBudget(s, c), NEW b \in Budgets
          PROVE  budget'[b] = budget[b] \/ budget'[b] = "live"
      BY <3>2 DEF CreateBudget, TypeInv, BudgetsTyped
    <3> QED
      BY <1>2, <3>1, <3>2, BudgetSteps
  <2>3. ReservedIsLive'
    BY <2>1, <2>2 DEF MoneyInv, ReservedIsLive
  <2>4. RealizedIsSettled'
    BY <2>1, SettledStays DEF MoneyInv, RealizedIsSettled
  <2>5. ASSUME NEW t \in Slots, slot'[t].op = "move" PROVE Unvisited(slot[t])'
    <3>1. CASE slot'[t] = slot[t]
      <4>1. slot[t] \in Moving /\ Unvisited(slot[t])
        BY <2>5, <3>1 DEF MoneyInv, MovesVisit, TypeInv, EventInv, LockInv
      <4>2. slot[t].request \in Documents
        BY <4>1 DEF Moving
      <4> QED
        BY <2>1, <3>1, <4>1, <4>2 DEF Unvisited
    <3>2. CASE \E r \in Documents, a \in Actions, u \in Users : TransitionStart(t, r, a, u)
      BY <3>2, StartVisits
    <3> QED
      BY <1>2, <2>5, <3>1, <3>2, MovingSlots DEF TypeInv
  <2> QED
    BY <2>3, <2>4, <2>5 DEF MoneyInv, MovesVisit
<1> QED
  BY <1>1, <1>2

LEMMA MoneyInvariance == Spec => [](TypeInv /\ MoneyInv)
<1>1. TypeInv /\ MoneyInv /\ [Next]_vars => (TypeInv /\ MoneyInv)'
  BY TypeInvStep, MoneyStep
<1> QED
  BY <1>1, TypeInvInit, MoneyInit, PTL DEF Spec

(* However transitions fail half-way and are tried again, money realized   *)
(* stays realized as long as its budget exists: an approval, which would   *)
(* reserve it again, is not reached from a request that was approved.      *)
THEOREM RealizedStays == Spec => RealizedIsFinal
<1>1. TypeInv /\ MoneyInv /\ TypeInv' /\ [Next]_vars =>
        [\A b \in Budgets, r \in Documents :
           encumbrance[b][r].status = "realized" =>
             encumbrance'[b][r].status = "realized" \/ budget'[b] = "gone"]_vars
  <2> SUFFICES ASSUME TypeInv, MoneyInv, TypeInv', [Next]_vars,
                      NEW b \in Budgets, NEW r \in Documents,
                      encumbrance[b][r].status = "realized"
               PROVE  encumbrance'[b][r].status = "realized" \/ budget'[b] = "gone"
    OBVIOUS
  <2>1. CASE \E s \in Slots, c \in Budgets : TransitionBudget(s, c)
    BY <2>1, VisitKeepsMoney
  <2>2. ASSUME NEW s \in Slots, DeleteBudget(s)
        PROVE  encumbrance'[b][r].status = "realized" \/ budget'[b] = "gone"
    <3>1. slot[s].budget \in Budgets
      BY <2>2 DEF DeleteBudget, TypeInv, CallsTyped, Idle, Deleting
    <3> QED
      BY <2>2, <3>1 DEF DeleteBudget, TypeInv, BudgetsTyped
  <2> QED
    BY <2>1, <2>2, BudgetSteps DEF CreateBudget
<1> QED
  BY <1>1, MoneyInvariance, PTL DEF Spec, RealizedIsFinal

(* Which steps change the status of a request that is already decided on.  *)
LEMMA EndedByCommit ==
  ASSUME TypeInv, [Next]_vars, NEW r \in Documents, request[r] # request'[r],
         request[r].status \in {"pending", "approved"},
         request'[r].content = request[r].content
  PROVE  \E s \in Slots : TransitionCommit(s) /\ slot[s].request = r
<1> DEFINE Goal == \E s \in Slots : TransitionCommit(s) /\ slot[s].request = r
<1>0. request[r] \in Request /\ Exists(r)
  BY DEF TypeInv, EventInv, RowsInv, NoRow, Exists
<1>1. UNCHANGED request => Goal
  OBVIOUS
<1>2. ASSUME NEW s \in Slots
      PROVE  /\ \A x \in Documents, u \in Users, c \in Contents : CreateRequest(s, x, u, c) => Goal
             /\ UpdateCommit(s) => Goal
             /\ TransitionCommit(s) => Goal
  <2>1. \A x \in Documents, u \in Users, c \in Contents : CreateRequest(s, x, u, c) => Goal
    BY <1>0 DEF CreateRequest, TypeInv, EventInv, RowsInv
  <2>2. UpdateCommit(s) => Goal
    <3> SUFFICES ASSUME UpdateCommit(s) PROVE FALSE
      OBVIOUS
    <3>1. slot[s].request \in Documents
      BY DEF UpdateCommit, TypeInv, EventInv, CallsInv, Editing
    <3>2. slot[s].request = r
      BY <3>1 DEF UpdateCommit, TypeInv, EventInv, RowsInv
    <3>3. PICK c : c = slot[s].content
      OBVIOUS
    <3>4. request'[r] = [request[r] EXCEPT !.content = c]
      BY <3>1, <3>2, <3>3 DEF UpdateCommit, TypeInv, EventInv, RowsInv
    <3>5. c = request[r].content
      BY <1>0, <3>4 DEF Request
    <3> QED
      BY <1>0, <3>4, <3>5 DEF Request
  <2>3. TransitionCommit(s) => Goal
    <3> SUFFICES ASSUME TransitionCommit(s) PROVE Goal
      OBVIOUS
    <3>1. slot[s].request = r
      BY DEF TransitionCommit, TypeInv, EventInv, RowsInv, LockInv, Moving
    <3> QED
      BY <3>1
  <2> QED
    BY <2>1, <2>2, <2>3
<1> HIDE DEF Goal
<1>3. ASSUME Next PROVE Goal
  BY <1>1, <1>2, <1>3 DEF Next, UpdateRead, TransitionStart, TransitionBudget, Sync,
     CreateBudget, DeleteBudgetCount, DeleteBudget, Abandon, ApprovalRoute
<1>4. Goal
  BY <1>1, <1>3 DEF vars
<1> QED
  BY <1>4 DEF Goal

(* However transitions fail half-way and are tried again, a request that   *)
(* is rejected, cancelled or completed leaves nothing reserved on the      *)
(* budgets that apply to it as it is then.                                 *)
THEOREM EndsRelease == Spec => EndReleasesBudgets
<1>1. TypeInv /\ MoneyInv /\ [Next]_vars =>
        [\A r \in Documents :
           /\ request[r] # request'[r]
           /\ request'[r].status \in Final \cup {"rejected"}
           /\ request[r].status \in {"pending", "approved"}
           /\ request'[r].content = request[r].content
           => \A b \in Budgets : IsBudgetApplicable(b, request[r].content) =>
                encumbrance[b][r].status # "reserved"]_vars
  <2> SUFFICES ASSUME TypeInv, MoneyInv, [Next]_vars, NEW r \in Documents,
                      request[r] # request'[r],
                      request'[r].status \in Final \cup {"rejected"},
                      request[r].status \in {"pending", "approved"},
                      request'[r].content = request[r].content,
                      NEW b \in Budgets, IsBudgetApplicable(b, request[r].content)
               PROVE  encumbrance[b][r].status # "reserved"
    OBVIOUS
  <2>1. PICK s \in Slots : TransitionCommit(s) /\ slot[s].request = r
    BY EndedByCommit
  <2>2. PICK m \in Moving : m = slot[s] /\ m.op = "move" /\ m.row = request[r] /\ m.request = r
    BY <2>1 DEF TransitionCommit, TypeInv, EventInv, LockInv
  <2>3. m.todo = {} /\ Unvisited(m)
    BY <2>1, <2>2 DEF TransitionCommit, MoneyInv, MovesVisit
  <2>4. PICK target \in NextStatus(m.row.status, m.action) : request'[r].status = target
    <3>1. PICK target \in NextStatus(m.row.status, m.action) :
            request' = [request EXCEPT ![m.request].status = target,
                                       ![m.request].event = @ \/ target = "approved"]
      BY <2>1, <2>2 DEF TransitionCommit
    <3>2. request'[r].status = target
      BY <2>2, <3>1 DEF TypeInv, EventInv, RowsInv, Request, Moving
    <3> QED
      BY <3>2
  <2>5. m.action \notin {"submit", "approve"}
    BY <2>2, <2>4 DEF NextStatus, Final
  <2> QED
    BY <2>2, <2>3, <2>5 DEF Unvisited
<1> QED
  BY <1>1, MoneyInvariance, PTL DEF Spec, EndReleasesBudgets

-----------------------------------------------------------------------------
(* What is proved of the engine holds of the approvals of requests: none   *)
(* is decided with a step skipped, none waits for nobody.                  *)
THEOREM RequestsAreDecidedFully == Spec => [](NoStepSkipped /\ NeverStuck)
BY RequestsUseApprovals, StepsAreSatisfied, SomebodyIsAwaited, PTL
=============================================================================
