-------------------------------- MODULE Jobs --------------------------------
(***************************************************************************)
(* The scheduler (jobs/runner.ts, jobs/schedule.ts).  A tick of the poll   *)
(* timer claims the due jobs that are oldest, runs them one after another  *)
(* and settles each: done, scheduled again, retried after a backoff, or    *)
(* dead.  The timer does not wait for a tick to end and every process has  *)
(* one, so ticks overlap; a process may stop anywhere, and the statement   *)
(* that settles a job may fail.                                            *)
(*                                                                         *)
(* run_at is kept relative to the clock: a job is due when it is not       *)
(* positive.  Of what is overdue by more than Lag only the order is kept.  *)
(* Lag also bounds how long a tick takes.                                  *)
(***************************************************************************)
EXTENDS Integers, FiniteSets

CONSTANTS
  Ticks,        \* ticks running at the same time, of one process or several
  Jobs,         \* ids of jobs
  Interval,     \* recurring_interval_ms of each job; 0 if it is not recurring
  MaxAttempts,  \* max_attempts of each job
  Delays,       \* how far ahead a job may be enqueued
  BatchSize,    \* jobs claimed by one tick
  BaseDelay, MaxDelay,  \* the backoff starts at the one and ends at the other
  Lag

ASSUME JobsAssumption ==
  /\ IsFiniteSet(Jobs)
  /\ Interval \in [Jobs -> Nat]
  /\ MaxAttempts \in [Jobs -> Int]
  /\ Delays \subseteq Int
  /\ BatchSize \in Nat \ {0} /\ BaseDelay \in Nat \ {0} /\ Lag \in Nat \ {0}
  /\ MaxDelay \in Nat /\ MaxDelay >= BaseDelay

Ended    == {"completed", "dead"}
Statuses == {"pending", "running"} \cup Ended
Row      == [status : Statuses, at : Int, attempts : Nat]
NoRecord    == [status |-> "none"]

VARIABLES
  job,    \* scheduled_jobs: the rows
  claim,  \* for each tick, the jobs it has still to settle, with their attempts
  age,    \* for each tick, the time since it began (nowMs)
  ran     \* for each tick, the job whose handler has ended, and how

jobVars == <<job, claim, age, ran>>

NoJob       == [ended |-> "none"]
NoClaim     == [j \in {} |-> 0]
Batch(t)    == DOMAIN claim[t]
Free(t)     == Batch(t) = {}

JobInit ==
  /\ job = [j \in Jobs |-> NoRecord]
  /\ claim = [t \in Ticks |-> NoClaim]
  /\ age = [t \in Ticks |-> 0]
  /\ ran = [t \in Ticks |-> NoJob]

Recurring(j) == Interval[j] > 0

Enqueue(j, d) ==
  /\ job[j] = NoRecord
  /\ job' = [job EXCEPT ![j] = [status |-> "pending", at |-> d, attempts |-> 0]]
  /\ UNCHANGED <<claim, age, ran>>

-----------------------------------------------------------------------------
(* A plausible bug: what is running and due may be claimed as well.        *)
ClaimableRunning(j) == job[j].status \in {"pending", "running"} /\ job[j].at <= 0

Claimable(j) == job[j].status = "pending" /\ job[j].at <= 0

(* A plausible bug: any batch of due jobs, in no order.                    *)
OldestAny(b, due) == TRUE

Oldest(b, due) == \A j \in b, k \in due \ b : job[j].at <= job[k].at

(* One statement: what it claims no other tick can claim.                  *)
Claim(t) ==
  LET due == {j \in Jobs : Claimable(j)} IN
  /\ Free(t)
  /\ due # {}
  /\ \E b \in SUBSET due :
       /\ Cardinality(b) <= BatchSize
       /\ Cardinality(b) < BatchSize => b = due
       /\ Oldest(b, due)
       /\ job' = [j \in Jobs |-> IF j \in b THEN [job[j] EXCEPT !.status = "running"]
                                            ELSE job[j]]
       /\ claim' = [claim EXCEPT ![t] = [j \in b |-> job[j].attempts]]
  /\ UNCHANGED <<age, ran>>

(* The handler of a claimed job ends, well or with an error.  (A kind that *)
(* has no handler cannot be enqueued.)                                     *)
RunHandler(t, j, ok) ==
  /\ j \in Batch(t)
  /\ ran[t] = NoJob
  /\ ran' = [ran EXCEPT ![t] = [ended |-> "handler", job |-> j, ok |-> ok]]
  /\ UNCHANGED <<job, claim, age>>

Least(a, b) == IF a < b THEN a ELSE b

BackoffMs(attempt) == Least(MaxDelay, BaseDelay * 2 ^ (attempt - 1))

(* A plausible bug: a retry does not count as an attempt.                  *)
AttemptsUncounted(attempts) == attempts

Attempts(attempts) == attempts + 1

(* What a job becomes when it has failed.  Times count from the start of   *)
(* the tick.                                                               *)
AfterFailure(j, attempts, started) ==
  IF attempts >= MaxAttempts[j]
  THEN [status |-> "dead", at |-> job[j].at, attempts |-> Attempts(attempts)]
  ELSE [status |-> "pending", at |-> BackoffMs(attempts + 1) - started,
        attempts |-> Attempts(attempts)]

(* What a job becomes when it has succeeded.                               *)
AfterSuccess(j, attempts, started) ==
  IF Recurring(j)
  THEN [status |-> "pending", at |-> Interval[j] - started, attempts |-> 0]
  ELSE [status |-> "completed", at |-> job[j].at, attempts |-> attempts]

(* A plausible bug: what is settled is not forgotten.                      *)
GoOnAgain(t) ==
  /\ claim' = [claim EXCEPT ![t] = [j \in Batch(t) \ {ran[t].job} |-> claim[t][j]]]
  /\ UNCHANGED <<ran, age>>

(* The tick goes on with the rest of its batch.                            *)
GoOn(t) ==
  /\ claim' = [claim EXCEPT ![t] = [j \in Batch(t) \ {ran[t].job} |-> claim[t][j]]]
  /\ ran' = [ran EXCEPT ![t] = NoJob]
  /\ age' = [age EXCEPT ![t] = IF Batch(t) = {ran[t].job} THEN 0 ELSE @]

Settle(t) ==
  LET j == ran[t].job
      attempts == claim[t][j] IN
  /\ ran[t] # NoJob
  /\ job' = [job EXCEPT ![j] =
       IF ran[t].ok THEN AfterSuccess(j, attempts, age[t])
                    ELSE AfterFailure(j, attempts, age[t])]
  /\ GoOn(t)

(* The statement that settles a job fails, which is logged and no more.    *)
SettleFails(t) ==
  /\ ran[t] # NoJob
  /\ GoOn(t)
  /\ UNCHANGED job

(* The process of a tick stops.                                            *)
Stop(t) ==
  /\ ~Free(t)
  /\ claim' = [claim EXCEPT ![t] = NoClaim]
  /\ ran' = [ran EXCEPT ![t] = NoJob]
  /\ age' = [age EXCEPT ![t] = 0]
  /\ UNCHANGED job

(* The clock.                                                              *)
Later(x) ==
  LET overdue == {y \in {job[j].at - 1 : j \in {k \in Jobs : job[k].status = "pending"}} :
                    y < -Lag}
  IN IF x - 1 >= -Lag THEN x - 1
     ELSE -Lag - Cardinality({y \in overdue : y >= x - 1})

Pass ==
  /\ \A t \in Ticks : ~Free(t) => age[t] < Lag
  /\ job' = [j \in Jobs |-> IF job[j].status = "pending"
                            THEN [job[j] EXCEPT !.at = Later(@)] ELSE job[j]]
  /\ age' = [t \in Ticks |-> IF Free(t) THEN age[t] ELSE age[t] + 1]
  /\ UNCHANGED <<claim, ran>>

JobNext ==
  \/ \E j \in Jobs, d \in Delays : Enqueue(j, d)
  \/ \E t \in Ticks :
       \/ Claim(t)
       \/ \E j \in Jobs, ok \in BOOLEAN : RunHandler(t, j, ok)
       \/ Settle(t)
       \/ SettleFails(t)
       \/ Stop(t)
  \/ Pass

(* The clock runs, the poll timer fires again and again, handlers end, and *)
(* what has ended is settled or fails to be.                               *)
Fairness ==
  /\ WF_jobVars(Pass)
  /\ WF_jobVars(\E t \in Ticks : Claim(t))
  /\ \A t \in Ticks :
       /\ WF_jobVars(\E j \in Jobs, ok \in BOOLEAN : RunHandler(t, j, ok))
       /\ WF_jobVars(Settle(t) \/ SettleFails(t))

JobSpec == JobInit /\ [][JobNext]_jobVars /\ Fairness

-----------------------------------------------------------------------------
(* Every variable keeps its type.                                          *)
JobTypeOK ==
  /\ job \in [Jobs -> Row \cup {NoRecord}]
  /\ \A t \in Ticks :
       /\ Batch(t) \subseteq Jobs /\ \A j \in Batch(t) : claim[t][j] \in Nat
       /\ ran[t] = NoJob \/ ran[t].job \in Batch(t)
  /\ age \in [Ticks -> 0..Lag]

(* No two ticks run the same job, and what a tick will settle still has    *)
(* the attempts it was claimed with: SKIP LOCKED and the status are enough *)
(* (runner.ts 89-100).                                                     *)
OneRunner ==
  \A t \in Ticks : \A j \in Batch(t) :
    /\ job[j].status = "running" /\ job[j].attempts = claim[t][j]
    /\ \A u \in Ticks \ {t} : j \notin Batch(u)

(* A job nobody holds and nobody will ever take up: its process stopped,   *)
(* or it could not be settled.  Nothing in the code looks for such rows.   *)
Lost(j) == job[j].status = "running" /\ \A t \in Ticks : j \notin Batch(t)

(* Every job waiting is run at some time, however many others recur or are *)
(* retried and however few a tick may claim (runner.ts 93-97).             *)
NoStarvation ==
  \A j \in Jobs : job[j].status = "pending" ~> job[j].status = "running"

(* A job that does not recur is completed or dead at some time, unless it  *)
(* is lost: retries come to an end (schedule.ts 38-52).                    *)
EventuallyEnds ==
  \A j \in Jobs : ~Recurring(j) =>
    (job[j].status = "pending" ~> job[j].status \in Ended \/ Lost(j))
=============================================================================
