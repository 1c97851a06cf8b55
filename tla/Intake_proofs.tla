---------------------------- MODULE Intake_proofs ----------------------------
(***************************************************************************)
(* Proofs about the cloud's job queue, for every number of jobs, keys,     *)
(* attempts, runs and restarts, and about the intake of observations that  *)
(* stands on it, for every set of uploads and batches and every number of  *)
(* handlers.                                                               *)
(***************************************************************************)
EXTENDS MCIntake, FiniteSetTheorems, TLAPS

(* The queue.  *)
(* What the worker and the queue keep in step: a processing record has a   *)
(* run in flight, and every id counted as active has one too.              *)
RunInv == TypeOK /\ LeaseHasRun /\ ActiveHasRun

LEMMA NextJob == QueueTypeOK /\ born < MaxJobs => born + 1 \in Jobs
  BY WorkQueueAssumption DEF QueueTypeOK, Jobs

LEMMA InitRunInv == Init => RunInv
  BY WorkQueueAssumption DEF Init, RunInv, TypeOK, QueueTypeOK, WorkerTypeOK,
     HistoryTypeOK, LeaseHasRun, ActiveHasRun, Status, NoJob

LEMMA StepRunInv == RunInv /\ [Next]_vars => RunInv'
<1> SUFFICES ASSUME RunInv, [Next]_vars PROVE RunInv'
  OBVIOUS
<1> USE WorkQueueAssumption
<1> USE DEF RunInv, TypeOK
<1>1. ASSUME NEW k \in Keys \cup {NoKey}, Enqueue(k) PROVE RunInv'
  <2>1. QueueTypeOK'
    BY <1>1, NextJob DEF QueueTypeOK, Status, Enqueue, Duplicate, Insert, workerVars
  <2>2. WorkerTypeOK'
    BY <1>1 DEF WorkerTypeOK, Enqueue, Duplicate, Insert, workerVars
  <2>3. HistoryTypeOK'
    BY <1>1, NextJob DEF QueueTypeOK, HistoryTypeOK, Enqueue, Duplicate, Insert, workerVars
  <2>4. LeaseHasRun'
    BY <1>1 DEF QueueTypeOK, WorkerTypeOK, LeaseHasRun, Status, Enqueue, Duplicate, Insert, workerVars
  <2>5. ActiveHasRun'
    BY <1>1 DEF WorkerTypeOK, ActiveHasRun, Enqueue, Duplicate, Insert, workerVars
  <2> QED
    BY <2>1, <2>2, <2>3, <2>4, <2>5
<1>2. ASSUME NEW j \in Jobs, Requeue(j) PROVE RunInv'
  <2>1. QueueTypeOK'
    BY <1>2, NextJob DEF QueueTypeOK, Status, Requeue, Insert, workerVars
  <2>2. WorkerTypeOK'
    BY <1>2 DEF WorkerTypeOK, Requeue, Insert, workerVars
  <2>3. HistoryTypeOK'
    BY <1>2, NextJob DEF QueueTypeOK, HistoryTypeOK, Requeue, Insert, workerVars
  <2>4. LeaseHasRun'
    BY <1>2 DEF QueueTypeOK, WorkerTypeOK, LeaseHasRun, Status, Requeue, Insert, workerVars
  <2>5. ActiveHasRun'
    BY <1>2 DEF WorkerTypeOK, ActiveHasRun, Requeue, Insert, workerVars
  <2> QED
    BY <2>1, <2>2, <2>3, <2>4, <2>5
<1>3. ASSUME NEW j \in Jobs, Elapse(j) PROVE RunInv'
  <2>1. QueueTypeOK'
    BY <1>3 DEF QueueTypeOK, Status, Elapse, workerVars, historyVars
  <2>2. WorkerTypeOK'
    BY <1>3 DEF WorkerTypeOK, Elapse, workerVars, historyVars
  <2>3. HistoryTypeOK'
    BY <1>3 DEF QueueTypeOK, HistoryTypeOK, Elapse, workerVars, historyVars
  <2>4. LeaseHasRun'
    BY <1>3 DEF QueueTypeOK, WorkerTypeOK, LeaseHasRun, Status, Elapse, workerVars, historyVars
  <2>5. ActiveHasRun'
    BY <1>3 DEF WorkerTypeOK, ActiveHasRun, Elapse, workerVars, historyVars
  <2> QED
    BY <2>1, <2>2, <2>3, <2>4, <2>5
<1>4. ASSUME NEW j \in Jobs, Expire(j) PROVE RunInv'
  <2>1. QueueTypeOK'
    BY <1>4 DEF QueueTypeOK, Status, Expire, workerVars, historyVars
  <2>2. WorkerTypeOK'
    BY <1>4 DEF WorkerTypeOK, Expire, workerVars, historyVars
  <2>3. HistoryTypeOK'
    BY <1>4 DEF QueueTypeOK, HistoryTypeOK, Expire, workerVars, historyVars
  <2>4. LeaseHasRun'
    BY <1>4 DEF QueueTypeOK, WorkerTypeOK, LeaseHasRun, Status, Expire, workerVars, historyVars
  <2>5. ActiveHasRun'
    BY <1>4 DEF WorkerTypeOK, ActiveHasRun, Expire, workerVars, historyVars
  <2> QED
    BY <2>1, <2>2, <2>3, <2>4, <2>5
<1>5. ASSUME NEW j \in Jobs, PollTake(j) PROVE RunInv'
  <2>1. QueueTypeOK'
    BY <1>5 DEF QueueTypeOK, Status, PollTake, Polling, Available, Sweep, historyVars
  <2>2. WorkerTypeOK'
    BY <1>5 DEF WorkerTypeOK, PollTake, Polling, Available, Sweep, historyVars
  <2>3. HistoryTypeOK'
    BY <1>5 DEF QueueTypeOK, HistoryTypeOK, PollTake, Polling, Available, Sweep, historyVars
  <2>4. LeaseHasRun'
    BY <1>5 DEF QueueTypeOK, WorkerTypeOK, LeaseHasRun, Status, PollTake, Polling, Available, Sweep, historyVars
  <2>5. ActiveHasRun'
    BY <1>5 DEF WorkerTypeOK, ActiveHasRun, PollTake, Polling, Available, Sweep, historyVars
  <2> QED
    BY <2>1, <2>2, <2>3, <2>4, <2>5
<1>6. ASSUME NEW j \in Jobs, Ack(j) PROVE RunInv'
  <2>1. QueueTypeOK'
    BY <1>6 DEF QueueTypeOK, Status, Ack, Release, HasRecord, Delete
  <2>2. WorkerTypeOK'
    BY <1>6 DEF WorkerTypeOK, Ack, Release, HasRecord, Delete
  <2>3. HistoryTypeOK'
    BY <1>6 DEF QueueTypeOK, HistoryTypeOK, Ack, Release, HasRecord, Delete
  <2>4. LeaseHasRun'
    BY <1>6 DEF QueueTypeOK, WorkerTypeOK, LeaseHasRun, Status, Ack, Release, HasRecord, Delete
  <2>5. ActiveHasRun'
    BY <1>6 DEF WorkerTypeOK, ActiveHasRun, Ack, Release, HasRecord, Delete
  <2> QED
    BY <2>1, <2>2, <2>3, <2>4, <2>5
<1>7. ASSUME NEW j \in Jobs, Nack(j) PROVE RunInv'
  <2>1. QueueTypeOK'
    BY <1>7 DEF QueueTypeOK, Status, Nack, Release, HasRecord, BudgetUsed, DeadLetter, Delete, Retry
  <2>2. WorkerTypeOK'
    BY <1>7 DEF WorkerTypeOK, Nack, Release, HasRecord, BudgetUsed, DeadLetter, Delete, Retry
  <2>3. HistoryTypeOK'
    BY <1>7 DEF QueueTypeOK, HistoryTypeOK, Nack, Release, HasRecord, BudgetUsed, DeadLetter, Delete, Retry
  <2>4. LeaseHasRun'
    BY <1>7 DEF QueueTypeOK, WorkerTypeOK, LeaseHasRun, Status, Nack, Release, HasRecord, BudgetUsed, DeadLetter, Delete, Retry
  <2>5. ActiveHasRun'
    BY <1>7 DEF WorkerTypeOK, ActiveHasRun, Nack, Release, HasRecord, BudgetUsed, DeadLetter, Delete, Retry
  <2> QED
    BY <2>1, <2>2, <2>3, <2>4, <2>5
<1>8. CASE PollEmpty
  <2>1. QueueTypeOK'
    BY <1>8 DEF QueueTypeOK, Status, PollEmpty, Polling, Sweep, workerVars, historyVars
  <2>2. WorkerTypeOK'
    BY <1>8 DEF WorkerTypeOK, PollEmpty, Polling, Sweep, workerVars, historyVars
  <2>3. HistoryTypeOK'
    BY <1>8 DEF QueueTypeOK, HistoryTypeOK, PollEmpty, Polling, Sweep, workerVars, historyVars
  <2>4. LeaseHasRun'
    BY <1>8 DEF QueueTypeOK, WorkerTypeOK, LeaseHasRun, Status, PollEmpty, Polling, Sweep, workerVars, historyVars
  <2>5. ActiveHasRun'
    BY <1>8 DEF WorkerTypeOK, ActiveHasRun, PollEmpty, Polling, Sweep, workerVars, historyVars
  <2> QED
    BY <2>1, <2>2, <2>3, <2>4, <2>5
<1>9. CASE Start
  <2>1. QueueTypeOK'
    BY <1>9 DEF QueueTypeOK, Status, Start, queueVars, historyVars
  <2>2. WorkerTypeOK'
    BY <1>9 DEF WorkerTypeOK, Start, queueVars, historyVars
  <2>3. HistoryTypeOK'
    BY <1>9 DEF QueueTypeOK, HistoryTypeOK, Start, queueVars, historyVars
  <2>4. LeaseHasRun'
    BY <1>9 DEF QueueTypeOK, WorkerTypeOK, LeaseHasRun, Status, Start, queueVars, historyVars
  <2>5. ActiveHasRun'
    BY <1>9 DEF WorkerTypeOK, ActiveHasRun, Start, queueVars, historyVars
  <2> QED
    BY <2>1, <2>2, <2>3, <2>4, <2>5
<1>10. CASE Stop
  <2>1. QueueTypeOK'
    BY <1>10 DEF QueueTypeOK, Status, Stop, queueVars, historyVars
  <2>2. WorkerTypeOK'
    BY <1>10 DEF WorkerTypeOK, Stop, queueVars, historyVars
  <2>3. HistoryTypeOK'
    BY <1>10 DEF QueueTypeOK, HistoryTypeOK, Stop, queueVars, historyVars
  <2>4. LeaseHasRun'
    BY <1>10 DEF QueueTypeOK, WorkerTypeOK, LeaseHasRun, Status, Stop, queueVars, historyVars
  <2>5. ActiveHasRun'
    BY <1>10 DEF WorkerTypeOK, ActiveHasRun, Stop, queueVars, historyVars
  <2> QED
    BY <2>1, <2>2, <2>3, <2>4, <2>5
<1>11. CASE Crash
  <2>1. QueueTypeOK'
    BY <1>11 DEF QueueTypeOK, Status, Crash, NoJob
  <2>2. WorkerTypeOK'
    BY <1>11 DEF WorkerTypeOK, Crash
  <2>3. HistoryTypeOK'
    BY <1>11 DEF QueueTypeOK, HistoryTypeOK, Crash
  <2>4. LeaseHasRun'
    BY <1>11 DEF QueueTypeOK, WorkerTypeOK, LeaseHasRun, Status, Crash
  <2>5. ActiveHasRun'
    BY <1>11 DEF WorkerTypeOK, ActiveHasRun, Crash
  <2> QED
    BY <2>1, <2>2, <2>3, <2>4, <2>5
<1>12. CASE UNCHANGED vars
  <2>1. QueueTypeOK'
    BY <1>12 DEF QueueTypeOK, Status, vars, queueVars, workerVars, historyVars
  <2>2. WorkerTypeOK'
    BY <1>12 DEF WorkerTypeOK, vars, queueVars, workerVars, historyVars
  <2>3. HistoryTypeOK'
    BY <1>12 DEF QueueTypeOK, HistoryTypeOK, vars, queueVars, workerVars, historyVars
  <2>4. LeaseHasRun'
    BY <1>12 DEF QueueTypeOK, WorkerTypeOK, LeaseHasRun, Status, vars, queueVars, workerVars, historyVars
  <2>5. ActiveHasRun'
    BY <1>12 DEF WorkerTypeOK, ActiveHasRun, vars, queueVars, workerVars, historyVars
  <2> QED
    BY <2>1, <2>2, <2>3, <2>4, <2>5
<1> QED
  BY <1>1, <1>2, <1>3, <1>4, <1>5, <1>6, <1>7, <1>8, <1>9, <1>10, <1>11,
     <1>12 DEF Next

(* Type correctness: the flags, counters and sets of the queue and of the  *)
(* worker stay in their domains; in particular runs never goes below zero. *)
THEOREM TypeCorrect == Spec => []TypeOK
<1>1. RunInv => TypeOK
  BY DEF RunInv
<1> QED
  BY InitRunInv, StepRunInv, <1>1, PTL DEF Spec

(* A leased job always has a handler run in flight (queue.ts dequeue, ack  *)
(* and nack under every interleaving of late results), and the ids the     *)
(* worker counts against its concurrency are always ids of runs in flight  *)
(* (worker.ts processJob): a late result leaves neither a job nobody works *)
(* on nor a phantom that takes a slot for ever.                            *)
THEOREM LeaseIsHeld == Spec => []RunsMatch
<1>1. RunInv => RunsMatch
  BY DEF RunInv, RunsMatch
<1> QED
  BY InitRunInv, StepRunInv, <1>1, PTL DEF Spec
----------------------------------------------------------------------------
(* The books of the queue.  A job that was never accepted has left no      *)
(* trace, an accepted one is in one of four places, and the attempt number *)
(* of a record and the failures charged to its job move together.          *)
Untouched ==
  \A j \in Jobs : j \notin accepted =>
    /\ status[j] = "absent"
    /\ j \notin acked \cup dead \cup lost
    /\ attempt[j] = 1
    /\ failures[j] = 0

AcceptedIsBorn == \A j \in accepted : j <= born

Placed ==
  \A j \in accepted : status[j] # "absent" \/ j \in acked \cup dead \cup lost

Apart ==
  /\ \A j \in acked \cup dead \cup lost : status[j] = "absent"
  /\ acked \cap dead = {}
  /\ acked \cap lost = {}
  /\ dead \cap lost = {}

BooksInv ==
  TypeOK /\ Untouched /\ AcceptedIsBorn /\ Placed /\ Apart /\ RetryBudgetExact

LEMMA InitBooks == Init => BooksInv
  BY WorkQueueAssumption, InitRunInv DEF Init, RunInv, BooksInv, Untouched,
     AcceptedIsBorn, Placed, Apart, RetryBudgetExact

(* A new id was never accepted, so inserting it starts its books afresh.   *)
LEMMA NewJobIsUntouched ==
  BooksInv /\ born < MaxJobs =>
    /\ born + 1 \in Jobs
    /\ born + 1 \notin accepted \cup acked \cup dead \cup lost
    /\ status[born + 1] = "absent"
    /\ attempt[born + 1] = 1
    /\ failures[born + 1] = 0
<1> SUFFICES ASSUME BooksInv, born < MaxJobs
             PROVE  /\ born + 1 \in Jobs
                    /\ born + 1 \notin accepted \cup acked \cup dead \cup lost
                    /\ status[born + 1] = "absent"
                    /\ attempt[born + 1] = 1
                    /\ failures[born + 1] = 0
  OBVIOUS
<1>1. born \in Nat /\ born + 1 \in Jobs
  BY WorkQueueAssumption, NextJob DEF BooksInv, TypeOK, QueueTypeOK
<1>2. born + 1 \notin accepted
  BY <1>1 DEF BooksInv, AcceptedIsBorn
<1> QED
  BY <1>1, <1>2 DEF BooksInv, Untouched

LEMMA StepBooks == RunInv /\ BooksInv /\ [Next]_vars => BooksInv'
<1> SUFFICES ASSUME RunInv, BooksInv, [Next]_vars PROVE BooksInv'
  OBVIOUS
<1> USE WorkQueueAssumption
<1>0. TypeOK'
  BY StepRunInv DEF RunInv
<1>1. ASSUME NEW k \in Keys \cup {NoKey}, Enqueue(k) PROVE BooksInv'
  <2>1. Untouched'
    BY <1>0, <1>1, NewJobIsUntouched DEF BooksInv, TypeOK, QueueTypeOK, HistoryTypeOK, Untouched, Placed, Apart, RetryBudgetExact, Status, Enqueue, Duplicate, Insert, workerVars
  <2>2. AcceptedIsBorn'
    BY <1>0, <1>1, NewJobIsUntouched DEF BooksInv, TypeOK, QueueTypeOK, HistoryTypeOK, AcceptedIsBorn, Untouched, Jobs, Enqueue, Duplicate, Insert, workerVars
  <2>3. Placed'
    BY <1>0, <1>1, NewJobIsUntouched DEF BooksInv, TypeOK, QueueTypeOK, HistoryTypeOK, Untouched, Placed, Apart, RetryBudgetExact, Status, Enqueue, Duplicate, Insert, workerVars
  <2>4. Apart'
    BY <1>0, <1>1, NewJobIsUntouched DEF BooksInv, TypeOK, QueueTypeOK, HistoryTypeOK, Untouched, Placed, Apart, RetryBudgetExact, Status, Enqueue, Duplicate, Insert, workerVars
  <2>5. RetryBudgetExact'
    BY <1>0, <1>1, NewJobIsUntouched DEF BooksInv, TypeOK, QueueTypeOK, HistoryTypeOK, Untouched, Placed, Apart, RetryBudgetExact, Status, Enqueue, Duplicate, Insert, workerVars
  <2> QED
    BY <1>0, <2>1, <2>2, <2>3, <2>4, <2>5 DEF BooksInv
<1>2. ASSUME NEW j \in Jobs, Requeue(j) PROVE BooksInv'
  <2>1. Untouched'
    BY <1>0, <1>2, NewJobIsUntouched DEF BooksInv, TypeOK, QueueTypeOK, HistoryTypeOK, Untouched, Placed, Apart, RetryBudgetExact, Status, Requeue, Insert, workerVars
  <2>2. AcceptedIsBorn'
    BY <1>0, <1>2, NewJobIsUntouched DEF BooksInv, TypeOK, QueueTypeOK, HistoryTypeOK, AcceptedIsBorn, Untouched, Jobs, Requeue, Insert, workerVars
  <2>3. Placed'
    BY <1>0, <1>2, NewJobIsUntouched DEF BooksInv, TypeOK, QueueTypeOK, HistoryTypeOK, Untouched, Placed, Apart, RetryBudgetExact, Status, Requeue, Insert, workerVars
  <2>4. Apart'
    BY <1>0, <1>2, NewJobIsUntouched DEF BooksInv, TypeOK, QueueTypeOK, HistoryTypeOK, Untouched, Placed, Apart, RetryBudgetExact, Status, Requeue, Insert, workerVars
  <2>5. RetryBudgetExact'
    BY <1>0, <1>2, NewJobIsUntouched DEF BooksInv, TypeOK, QueueTypeOK, HistoryTypeOK, Untouched, Placed, Apart, RetryBudgetExact, Status, Requeue, Insert, workerVars
  <2> QED
    BY <1>0, <2>1, <2>2, <2>3, <2>4, <2>5 DEF BooksInv
<1>3. ASSUME NEW j \in Jobs, Elapse(j) PROVE BooksInv'
  <2>1. Untouched'
    BY <1>0, <1>3 DEF BooksInv, TypeOK, QueueTypeOK, HistoryTypeOK, Untouched, Placed, Apart, RetryBudgetExact, Status, Elapse, workerVars, historyVars
  <2>2. AcceptedIsBorn'
    BY <1>0, <1>3 DEF BooksInv, TypeOK, QueueTypeOK, HistoryTypeOK, AcceptedIsBorn, Untouched, Jobs, Elapse, workerVars, historyVars
  <2>3. Placed'
    BY <1>0, <1>3 DEF BooksInv, TypeOK, QueueTypeOK, HistoryTypeOK, Untouched, Placed, Apart, RetryBudgetExact, Status, Elapse, workerVars, historyVars
  <2>4. Apart'
    BY <1>0, <1>3 DEF BooksInv, TypeOK, QueueTypeOK, HistoryTypeOK, Untouched, Placed, Apart, RetryBudgetExact, Status, Elapse, workerVars, historyVars
  <2>5. RetryBudgetExact'
    BY <1>0, <1>3 DEF BooksInv, TypeOK, QueueTypeOK, HistoryTypeOK, Untouched, Placed, Apart, RetryBudgetExact, Status, Elapse, workerVars, historyVars
  <2> QED
    BY <1>0, <2>1, <2>2, <2>3, <2>4, <2>5 DEF BooksInv
<1>4. ASSUME NEW j \in Jobs, Expire(j) PROVE BooksInv'
  <2>1. Untouched'
    BY <1>0, <1>4 DEF BooksInv, TypeOK, QueueTypeOK, HistoryTypeOK, Untouched, Placed, Apart, RetryBudgetExact, Status, Expire, workerVars, historyVars
  <2>2. AcceptedIsBorn'
    BY <1>0, <1>4 DEF BooksInv, TypeOK, QueueTypeOK, HistoryTypeOK, AcceptedIsBorn, Untouched, Jobs, Expire, workerVars, historyVars
  <2>3. Placed'
    BY <1>0, <1>4 DEF BooksInv, TypeOK, QueueTypeOK, HistoryTypeOK, Untouched, Placed, Apart, RetryBudgetExact, Status, Expire, workerVars, historyVars
  <2>4. Apart'
    BY <1>0, <1>4 DEF BooksInv, TypeOK, QueueTypeOK, HistoryTypeOK, Untouched, Placed, Apart, RetryBudgetExact, Status, Expire, workerVars, historyVars
  <2>5. RetryBudgetExact'
    BY <1>0, <1>4 DEF BooksInv, TypeOK, QueueTypeOK, HistoryTypeOK, Untouched, Placed, Apart, RetryBudgetExact, Status, Expire, workerVars, historyVars
  <2> QED
    BY <1>0, <2>1, <2>2, <2>3, <2>4, <2>5 DEF BooksInv
<1>5. ASSUME NEW j \in Jobs, PollTake(j) PROVE BooksInv'
  <2>1. Untouched'
    BY <1>0, <1>5 DEF BooksInv, TypeOK, QueueTypeOK, HistoryTypeOK, Untouched, Placed, Apart, RetryBudgetExact, Status, PollTake, Polling, Available, Sweep, historyVars
  <2>2. AcceptedIsBorn'
    BY <1>0, <1>5 DEF BooksInv, TypeOK, QueueTypeOK, HistoryTypeOK, AcceptedIsBorn, Untouched, Jobs, PollTake, Polling, Available, Sweep, historyVars
  <2>3. Placed'
    BY <1>0, <1>5 DEF BooksInv, TypeOK, QueueTypeOK, HistoryTypeOK, Untouched, Placed, Apart, RetryBudgetExact, Status, PollTake, Polling, Available, Sweep, historyVars
  <2>4. Apart'
    BY <1>0, <1>5 DEF BooksInv, TypeOK, QueueTypeOK, HistoryTypeOK, Untouched, Placed, Apart, RetryBudgetExact, Status, PollTake, Polling, Available, Sweep, historyVars
  <2>5. RetryBudgetExact'
    BY <1>0, <1>5 DEF BooksInv, TypeOK, QueueTypeOK, HistoryTypeOK, Untouched, Placed, Apart, RetryBudgetExact, Status, PollTake, Polling, Available, Sweep, historyVars
  <2> QED
    BY <1>0, <2>1, <2>2, <2>3, <2>4, <2>5 DEF BooksInv
<1>6. ASSUME NEW j \in Jobs, Ack(j) PROVE BooksInv'
  <2>1. Untouched'
    BY <1>0, <1>6 DEF BooksInv, TypeOK, QueueTypeOK, HistoryTypeOK, Untouched, Placed, Apart, RetryBudgetExact, Status, Ack, Release, HasRecord, Delete
  <2>2. AcceptedIsBorn'
    BY <1>0, <1>6 DEF BooksInv, TypeOK, QueueTypeOK, HistoryTypeOK, AcceptedIsBorn, Untouched, Jobs, Ack, Release, HasRecord, Delete
  <2>3. Placed'
    BY <1>0, <1>6 DEF BooksInv, TypeOK, QueueTypeOK, HistoryTypeOK, Untouched, Placed, Apart, RetryBudgetExact, Status, Ack, Release, HasRecord, Delete
  <2>4. Apart'
    BY <1>0, <1>6 DEF BooksInv, TypeOK, QueueTypeOK, HistoryTypeOK, Untouched, Placed, Apart, RetryBudgetExact, Status, Ack, Release, HasRecord, Delete
  <2>5. RetryBudgetExact'
    BY <1>0, <1>6 DEF BooksInv, TypeOK, QueueTypeOK, HistoryTypeOK, Untouched, Placed, Apart, RetryBudgetExact, Status, Ack, Release, HasRecord, Delete
  <2> QED
    BY <1>0, <2>1, <2>2, <2>3, <2>4, <2>5 DEF BooksInv
<1>7. ASSUME NEW j \in Jobs, Nack(j) PROVE BooksInv'
  <2>1. Untouched'
    BY <1>0, <1>7 DEF BooksInv, TypeOK, QueueTypeOK, HistoryTypeOK, Untouched, Placed, Apart, RetryBudgetExact, Status, Nack, Release, HasRecord, BudgetUsed, DeadLetter, Delete, Retry
  <2>2. AcceptedIsBorn'
    BY <1>0, <1>7 DEF BooksInv, TypeOK, QueueTypeOK, HistoryTypeOK, AcceptedIsBorn, Untouched, Jobs, Nack, Release, HasRecord, BudgetUsed, DeadLetter, Delete, Retry
  <2>3. Placed'
    BY <1>0, <1>7 DEF BooksInv, TypeOK, QueueTypeOK, HistoryTypeOK, Untouched, Placed, Apart, RetryBudgetExact, Status, Nack, Release, HasRecord, BudgetUsed, DeadLetter, Delete, Retry
  <2>4. Apart'
    BY <1>0, <1>7 DEF BooksInv, TypeOK, QueueTypeOK, HistoryTypeOK, Untouched, Placed, Apart, RetryBudgetExact, Status, Nack, Release, HasRecord, BudgetUsed, DeadLetter, Delete, Retry
  <2>5. RetryBudgetExact'
    BY <1>0, <1>7 DEF BooksInv, TypeOK, QueueTypeOK, HistoryTypeOK, Untouched, Placed, Apart, RetryBudgetExact, Status, Nack, Release, HasRecord, BudgetUsed, DeadLetter, Delete, Retry
  <2> QED
    BY <1>0, <2>1, <2>2, <2>3, <2>4, <2>5 DEF BooksInv
<1>8. CASE PollEmpty
  <2>1. Untouched'
    BY <1>0, <1>8 DEF BooksInv, TypeOK, QueueTypeOK, HistoryTypeOK, Untouched, Placed, Apart, RetryBudgetExact, Status, PollEmpty, Polling, Sweep, workerVars, historyVars
  <2>2. AcceptedIsBorn'
    BY <1>0, <1>8 DEF BooksInv, TypeOK, QueueTypeOK, HistoryTypeOK, AcceptedIsBorn, Untouched, Jobs, PollEmpty, Polling, Sweep, workerVars, historyVars
  <2>3. Placed'
    BY <1>0, <1>8 DEF BooksInv, TypeOK, QueueTypeOK, HistoryTypeOK, Untouched, Placed, Apart, RetryBudgetExact, Status, PollEmpty, Polling, Sweep, workerVars, historyVars
  <2>4. Apart'
    BY <1>0, <1>8 DEF BooksInv, TypeOK, QueueTypeOK, HistoryTypeOK, Untouched, Placed, Apart, RetryBudgetExact, Status, PollEmpty, Polling, Sweep, workerVars, historyVars
  <2>5. RetryBudgetExact'
    BY <1>0, <1>8 DEF BooksInv, TypeOK, QueueTypeOK, HistoryTypeOK, Untouched, Placed, Apart, RetryBudgetExact, Status, PollEmpty, Polling, Sweep, workerVars, historyVars
  <2> QED
    BY <1>0, <2>1, <2>2, <2>3, <2>4, <2>5 DEF BooksInv
<1>9. CASE Start
  <2>1. Untouched'
    BY <1>0, <1>9 DEF BooksInv, TypeOK, QueueTypeOK, HistoryTypeOK, Untouched, Placed, Apart, RetryBudgetExact, Status, Start, queueVars, historyVars
  <2>2. AcceptedIsBorn'
    BY <1>0, <1>9 DEF BooksInv, TypeOK, QueueTypeOK, HistoryTypeOK, AcceptedIsBorn, Untouched, Jobs, Start, queueVars, historyVars
  <2>3. Placed'
    BY <1>0, <1>9 DEF BooksInv, TypeOK, QueueTypeOK, HistoryTypeOK, Untouched, Placed, Apart, RetryBudgetExact, Status, Start, queueVars, historyVars
  <2>4. Apart'
    BY <1>0, <1>9 DEF BooksInv, TypeOK, QueueTypeOK, HistoryTypeOK, Untouched, Placed, Apart, RetryBudgetExact, Status, Start, queueVars, historyVars
  <2>5. RetryBudgetExact'
    BY <1>0, <1>9 DEF BooksInv, TypeOK, QueueTypeOK, HistoryTypeOK, Untouched, Placed, Apart, RetryBudgetExact, Status, Start, queueVars, historyVars
  <2> QED
    BY <1>0, <2>1, <2>2, <2>3, <2>4, <2>5 DEF BooksInv
<1>10. CASE Stop
  <2>1. Untouched'
    BY <1>0, <1>10 DEF BooksInv, TypeOK, QueueTypeOK, HistoryTypeOK, Untouched, Placed, Apart, RetryBudgetExact, Status, Stop, queueVars, historyVars
  <2>2. AcceptedIsBorn'
    BY <1>0, <1>10 DEF BooksInv, TypeOK, QueueTypeOK, HistoryTypeOK, AcceptedIsBorn, Untouched, Jobs, Stop, queueVars, historyVars
  <2>3. Placed'
    BY <1>0, <1>10 DEF BooksInv, TypeOK, QueueTypeOK, HistoryTypeOK, Untouched, Placed, Apart, RetryBudgetExact, Status, Stop, queueVars, historyVars
  <2>4. Apart'
    BY <1>0, <1>10 DEF BooksInv, TypeOK, QueueTypeOK, HistoryTypeOK, Untouched, Placed, Apart, RetryBudgetExact, Status, Stop, queueVars, historyVars
  <2>5. RetryBudgetExact'
    BY <1>0, <1>10 DEF BooksInv, TypeOK, QueueTypeOK, HistoryTypeOK, Untouched, Placed, Apart, RetryBudgetExact, Status, Stop, queueVars, historyVars
  <2> QED
    BY <1>0, <2>1, <2>2, <2>3, <2>4, <2>5 DEF BooksInv
<1>11. CASE Crash
  <2>1. Untouched'
    BY <1>0, <1>11 DEF BooksInv, TypeOK, QueueTypeOK, HistoryTypeOK, Untouched, Placed, Apart, RetryBudgetExact, Status, Crash
  <2>2. AcceptedIsBorn'
    BY <1>0, <1>11 DEF BooksInv, TypeOK, QueueTypeOK, HistoryTypeOK, AcceptedIsBorn, Untouched, Jobs, Crash
  <2>3. Placed'
    BY <1>0, <1>11 DEF BooksInv, TypeOK, QueueTypeOK, HistoryTypeOK, Untouched, Placed, Apart, RetryBudgetExact, Status, Crash
  <2>4. Apart'
    BY <1>0, <1>11 DEF BooksInv, TypeOK, QueueTypeOK, HistoryTypeOK, Untouched, Placed, Apart, RetryBudgetExact, Status, Crash
  <2>5. RetryBudgetExact'
    BY <1>0, <1>11 DEF BooksInv, TypeOK, QueueTypeOK, HistoryTypeOK, Untouched, Placed, Apart, RetryBudgetExact, Status, Crash
  <2> QED
    BY <1>0, <2>1, <2>2, <2>3, <2>4, <2>5 DEF BooksInv
<1>12. CASE UNCHANGED vars
  <2>1. Untouched'
    BY <1>0, <1>12 DEF BooksInv, TypeOK, QueueTypeOK, HistoryTypeOK, Untouched, Placed, Apart, RetryBudgetExact, Status, vars, queueVars, workerVars, historyVars
  <2>2. AcceptedIsBorn'
    BY <1>0, <1>12 DEF BooksInv, TypeOK, QueueTypeOK, HistoryTypeOK, AcceptedIsBorn, Untouched, Jobs, vars, queueVars, workerVars, historyVars
  <2>3. Placed'
    BY <1>0, <1>12 DEF BooksInv, TypeOK, QueueTypeOK, HistoryTypeOK, Untouched, Placed, Apart, RetryBudgetExact, Status, vars, queueVars, workerVars, historyVars
  <2>4. Apart'
    BY <1>0, <1>12 DEF BooksInv, TypeOK, QueueTypeOK, HistoryTypeOK, Untouched, Placed, Apart, RetryBudgetExact, Status, vars, queueVars, workerVars, historyVars
  <2>5. RetryBudgetExact'
    BY <1>0, <1>12 DEF BooksInv, TypeOK, QueueTypeOK, HistoryTypeOK, Untouched, Placed, Apart, RetryBudgetExact, Status, vars, queueVars, workerVars, historyVars
  <2> QED
    BY <1>0, <2>1, <2>2, <2>3, <2>4, <2>5 DEF BooksInv
<1> QED
  BY <1>1, <1>2, <1>3, <1>4, <1>5, <1>6, <1>7, <1>8, <1>9, <1>10, <1>11,
     <1>12 DEF Next

(* A job is dead-lettered after exactly MaxAttempts charged failures and a *)
(* record's attempt number is one more than the failures charged to it,    *)
(* whatever stale runs report (queue.ts nack).                             *)
THEOREM BudgetIsExact == Spec => []RetryBudgetExact
<1>1. BooksInv => RetryBudgetExact
  BY DEF BooksInv
<1> QED
  BY InitRunInv, StepRunInv, InitBooks, StepBooks, <1>1, PTL DEF Spec

(* The four places exclude each other and cover every accepted job.        *)
LEMMA BooksGiveOneFate == BooksInv => OneFate
<1> SUFFICES ASSUME BooksInv, NEW j \in accepted PROVE Cardinality(Fate(j)) = 1
  BY DEF OneFate
<1>1. \E f : Fate(j) = {f}
  <2>1. CASE status[j] # "absent"
    <3>1. Fate(j) = {"queued"}
      BY <2>1 DEF Fate, BooksInv, Apart
    <3> QED
      BY <3>1
  <2>2. CASE j \in acked
    <3>1. Fate(j) = {"acked"}
      BY <2>2 DEF Fate, BooksInv, Apart
    <3> QED
      BY <3>1
  <2>3. CASE j \in dead
    <3>1. Fate(j) = {"dead"}
      BY <2>3 DEF Fate, BooksInv, Apart
    <3> QED
      BY <3>1
  <2>4. CASE j \in lost
    <3>1. Fate(j) = {"lost"}
      BY <2>4 DEF Fate, BooksInv, Apart
    <3> QED
      BY <3>1
  <2> QED
    BY <2>1, <2>2, <2>3, <2>4 DEF BooksInv, Placed
<1> QED
  BY <1>1, FS_Singleton

(* No job is forgotten and none is settled twice: an accepted job is       *)
(* queued, acked, dead-lettered or lost with its process, and exactly one  *)
(* of these, under every order of polls, expiries and late results         *)
(* (queue.ts enqueue, dequeue, ack, nack and requeue).                     *)
THEOREM EveryJobHasOneFate == Spec => []OneFate
  BY InitRunInv, StepRunInv, InitBooks, StepBooks, BooksGiveOneFate, PTL DEF Spec

(* What is settled is handed to no handler, and its key keeps naming it.   *)
LEMMA SettledStep ==
  ASSUME TypeOK, Apart, [Next]_vars
  PROVE  /\ \A j \in acked \cup dead : runs'[j] <= runs[j]
         /\ \A k \in Keys : keyJob[k] \in acked \cup dead => keyJob'[k] \in {keyJob[k], NoJob}
<1>1. /\ runs \in [Jobs -> Nat] /\ keyJob \in [Keys -> 0..MaxJobs]
      /\ acked \cup dead \subseteq Jobs /\ NoJob \notin Jobs
  BY WorkQueueAssumption DEF TypeOK, QueueTypeOK, WorkerTypeOK, HistoryTypeOK, NoJob, Jobs
<1>2. CASE UNCHANGED runs /\ UNCHANGED keyJob
  BY <1>1, <1>2
<1>3. ASSUME NEW k \in Keys \cup {NoKey}, Enqueue(k)
      PROVE  /\ UNCHANGED runs
             /\ \A h \in Keys : keyJob[h] # NoJob => keyJob'[h] = keyJob[h]
  BY <1>1, <1>3 DEF Enqueue, Duplicate, workerVars
<1>4. ASSUME NEW j \in Jobs, PollTake(j)
      PROVE  UNCHANGED keyJob /\ \A i \in acked \cup dead : runs'[i] = runs[i]
  <2>1. j \notin acked \cup dead
    BY <1>4 DEF PollTake, Available, Apart
  <2> QED
    BY <1>1, <1>4, <2>1 DEF PollTake
<1>5. ASSUME NEW j \in Jobs, Ack(j) \/ Nack(j)
      PROVE  UNCHANGED keyJob /\ \A i \in Jobs : runs'[i] <= runs[i]
  BY <1>1, <1>5 DEF Ack, Nack, Release
<1>6. CASE Crash
  BY <1>1, <1>6 DEF Crash
<1>7. \/ UNCHANGED runs /\ UNCHANGED keyJob
      \/ \E k \in Keys \cup {NoKey} : Enqueue(k)
      \/ \E j \in Jobs : PollTake(j) \/ Ack(j) \/ Nack(j)
      \/ Crash
  BY DEF Next, Requeue, Elapse, Expire, PollEmpty, Start, Stop, vars, queueVars, workerVars
<1> QED
  BY <1>1, <1>2, <1>3, <1>4, <1>5, <1>6, <1>7

(* Settled work is never done again: no poll hands out a job after its ack *)
(* or dead letter, and its idempotency key names it until the process      *)
(* ends, so a repeated enqueue creates nothing (queue.ts enqueue, dequeue, *)
(* ack, nack).                                                             *)
THEOREM SettledIsFinal == Spec => SettledStaysSettled
<1> DEFINE Final ==
      /\ \A j \in acked \cup dead : runs'[j] <= runs[j]
      /\ \A k \in Keys : keyJob[k] \in acked \cup dead => keyJob'[k] \in {keyJob[k], NoJob}
<1>1. BooksInv /\ [Next]_vars => [Final]_vars
  BY SettledStep DEF BooksInv
<1>2. [][Final]_vars => SettledStaysSettled
  BY DEF SettledStaysSettled
<1> HIDE DEF Final
<1> QED
  BY InitRunInv, StepRunInv, InitBooks, StepBooks, <1>1, <1>2, PTL DEF Spec

-----------------------------------------------------------------------------
(* The intake.  Its invariant has four parts: types, who is inside a       *)
(* transaction, what a transaction that was alone finds when it fails, and *)
(* what the tables keep while no rollback has put back those of others.    *)
FinEvents == {S \in SUBSET EventIds : IsFiniteSet(S)}
RunType == [pc : Doings, of : Uploads \cup {None}, todo : SUBSET EventIds, fresh : FinEvents,
            base : Nat]
TableType == [receipts : SUBSET Uploads, outboxRows : SUBSET Uploads, stored : FinEvents,
              tally : Nat \cup {Absent}]

(* Every variable has its type; a job that still runs has attempts left.   *)
IntakeTyped ==
  /\ upload \in [Uploads -> [pc : Waits, batch : Batches, of : Uploads \cup {None}]]
  /\ Now \in TableType
  /\ copy \in [Transactions -> TableType \cup {NoCopy}]
  /\ crowded \subseteq Transactions
  /\ refusals \in 0..MaxRefusals
  /\ job \in [Uploads -> {"none", "queued", "acked", "dead"}]
  /\ attempts \in [Uploads -> 0..MaxTries]
  /\ run \in [Workers -> RunType]
  /\ mishaps \subseteq {"raced", "restored"}
  /\ \A u \in Uploads : job[u] \in {"none", "queued"} => attempts[u] < MaxTries

(* A transaction is open while its upload or its handler is inside it.     *)
Within == {"session", "create", "events", "insert", "write", "announce"}
OpenWhileInside ==
  /\ \A u \in Uploads : u \in Open <=> At(u, "row")
  /\ \A w \in Workers : w \in Open <=> run[w].pc \in Within
  /\ \A w \in Workers : run[w].pc # "idle" => run[w].of \in Uploads

(* What a transaction that was alone all the time finds when it fails: its *)
(* copy is what the tables were but for its own writes.                    *)
Alone ==
  /\ crowded \subseteq Open
  /\ \A t \in Open \ crowded :
       /\ Open = {t}
       /\ copy[t].outboxRows = outboxRows
       /\ t \in Uploads => /\ copy[t].stored = stored /\ copy[t].tally = tally
                           /\ receipts = copy[t].receipts \cup {t}
       /\ t \in Workers => /\ receipts = copy[t].receipts
                           /\ stored = copy[t].stored \cup run[t].fresh
  /\ \A w \in Workers : run[w].pc \in {"session", "create"} => run[w].fresh = {}

(* The events of the row are stored: its job is settled, or about to be.   *)
Done(u) == job[u] = "acked" \/ \E w \in Workers : run[w].pc = "ack" /\ run[w].of = u

(* Receipts come with rows, and events with acknowledgements.              *)
Sound(u) == At(u, "row") \/ At(u, "refused") \/ u \in outboxRows

ReceiptsKept ==
  /\ \A u \in receipts : Sound(u)
  /\ \A u \in Uploads :
       At(u, "accepted") =>
         /\ upload[u].of \in Uploads
         /\ SameContent(BatchOf(u), BatchOf(upload[u].of))
         /\ Sound(upload[u].of)
  /\ \A u \in Uploads : job[u] # "none" => u \in outboxRows

EventsKept ==
  /\ \A w \in Open \cap Workers :
       /\ BatchOf(run[w].of).events \subseteq stored \cup run[w].todo
       /\ run[w].fresh \subseteq stored
       /\ run[w].pc \in {"write", "announce"} => run[w].todo = {}
  /\ \A u \in Uploads :
       Done(u) => /\ BatchOf(u).events \subseteq stored
                  /\ \A t \in Open \ crowded : BatchOf(u).events \subseteq copy[t].stored

Kept == "restored" \notin mishaps => ReceiptsKept /\ EventsKept

Total(n) == Max({n, 0})

(* The count of the session while a handler is inside its transaction.     *)
Counts(w) ==
  /\ run[w].pc # "announce" => Cardinality(stored) = Total(tally) + Cardinality(run[w].fresh)
  /\ run[w].pc = "announce" => Cardinality(stored) = Total(tally)
  /\ run[w].pc = "create" => tally = Absent
  /\ run[w].pc = "write" => tally = run[w].base
  /\ run[w].pc = "insert" => \A e \in EventIds : NextEvent(w, e) => e \notin stored
  /\ run[w].fresh \subseteq stored

Counted ==
  /\ \A v, w \in Open \cap Workers : v = w
  /\ Open \cap Workers = {} => Cardinality(stored) = Total(tally)
  /\ \A w \in Open \cap Workers : Counts(w)
  /\ \A t \in Open \ crowded : Cardinality(copy[t].stored) = Total(copy[t].tally)

CountKept == mishaps = {} => Counted

IntakeInv == IntakeTyped /\ OpenWhileInside /\ Alone /\ Kept /\ CountKept

(* What an upload was told is accepted is in the outbox, unless the        *)
(* transaction of the receipt is open or failed; once its job is settled   *)
(* every event of it is stored.                                            *)
AcceptedIsKept ==
  "restored" \notin mishaps =>
    \A u \in Uploads :
      At(u, "accepted") =>
        \/ At(upload[u].of, "row") \/ At(upload[u].of, "refused")
        \/ /\ upload[u].of \in outboxRows
           /\ job[upload[u].of] = "acked" => BatchOf(u).events \subseteq stored

(* Between the storage transactions the session's count is the number of   *)
(* stored events.                                                          *)
CountedOnce == mishaps = {} /\ Open \cap Workers = {} => Total(tally) = Cardinality(stored)
-----------------------------------------------------------------------------
LEMMA NotNone == None \notin Uploads /\ Uploads \cap Workers = {}
BY IngestionAssumption, SMT DEF None, Workers

LEMMA TotalIs ==
  ASSUME NEW n \in Nat \cup {Absent}
  PROVE  Total(n) = IF n = Absent THEN 0 ELSE n
<1>1. CASE n = Absent
  <2>1. PICK m : m = Max({n, 0}) /\ m = CHOOSE x \in {n, 0} : \A y \in {n, 0} : x >= y
    BY DEF Max
  <2>2. \E x \in {n, 0} : \A y \in {n, 0} : x >= y
    BY <1>1 DEF Absent
  <2>3. m \in {n, 0} /\ \A y \in {n, 0} : m >= y
    BY <2>1, <2>2
  <2> QED  BY <1>1, <2>1, <2>3 DEF Total, Absent
<1>2. CASE n \in Nat
  <2>1. PICK m : m = Max({n, 0}) /\ m = CHOOSE x \in {n, 0} : \A y \in {n, 0} : x >= y
    BY DEF Max
  <2>2. \E x \in {n, 0} : \A y \in {n, 0} : x >= y
    BY <1>2
  <2>3. m \in {n, 0} /\ \A y \in {n, 0} : m >= y
    BY <2>1, <2>2
  <2> QED  BY <1>2, <2>1, <2>3 DEF Total, Absent
<1> QED  BY <1>1, <1>2

LEMMA Events ==
  ASSUME NEW b \in Batches
  PROVE  b.events \in FinEvents
BY IngestionAssumption DEF FinEvents, EventIds

LEMMA InitTyped == IntakeInit => IntakeTyped
<1> SUFFICES ASSUME IntakeInit PROVE IntakeTyped
  OBVIOUS
<1>1. {} \in FinEvents
  BY FS_EmptySet DEF FinEvents
<1>2. upload \in [Uploads -> [pc : Waits, batch : Batches, of : Uploads \cup {None}]]
  BY DEF IntakeInit, Waits
<1>3. Now \in TableType
  BY <1>1 DEF IntakeInit, Now, TableType
<1>4. run \in [Workers -> RunType]
  BY <1>1 DEF IntakeInit, Idle, RunType, Doings
<1>5. MaxTries > 0 /\ MaxTries \in Nat /\ MaxRefusals \in Nat
  BY IngestionAssumption
<1> QED  BY <1>2, <1>3, <1>4, <1>5 DEF IntakeInit, IntakeTyped

(* What typing says of the parts.                                          *)
LEMMA TypedParts ==
  ASSUME IntakeTyped
  PROVE  /\ receipts \subseteq Uploads /\ outboxRows \subseteq Uploads
         /\ stored \in FinEvents /\ tally \in Nat \cup {Absent}
         /\ \A w \in Workers : /\ run[w] \in RunType /\ run[w].pc \in Doings
                               /\ run[w].of \in Uploads \cup {None}
                               /\ run[w].todo \subseteq EventIds /\ run[w].fresh \in FinEvents
                               /\ run[w].base \in Nat
         /\ \A u \in Uploads : BatchOf(u) \in Batches /\ upload[u].of \in Uploads \cup {None}
         /\ \A t \in Open : copy[t] \in TableType
<1>1. Now \in TableType
  BY DEF IntakeTyped
<1>2. /\ Now.receipts = receipts /\ Now.outboxRows = outboxRows
      /\ Now.stored = stored /\ Now.tally = tally
  BY DEF Now
<1>3. /\ receipts \subseteq Uploads /\ outboxRows \subseteq Uploads
      /\ stored \in FinEvents /\ tally \in Nat \cup {Absent}
  BY <1>1, <1>2 DEF TableType
<1>4. \A w \in Workers : run[w] \in RunType
  BY DEF IntakeTyped
<1>5. \A w \in Workers : /\ run[w].pc \in Doings
                         /\ run[w].of \in Uploads \cup {None}
                         /\ run[w].todo \subseteq EventIds /\ run[w].fresh \in FinEvents
                         /\ run[w].base \in Nat
  BY <1>4 DEF RunType
<1>6. \A u \in Uploads : BatchOf(u) \in Batches /\ upload[u].of \in Uploads \cup {None}
  BY DEF IntakeTyped, BatchOf
<1>7. \A t \in Open : copy[t] \in TableType
  BY DEF IntakeTyped, Open
<1> QED  BY <1>3, <1>4, <1>5, <1>6, <1>7

LEMMA CopyIsNone ==
  ASSUME IntakeTyped PROVE Now \in TableType /\ Now # NoCopy /\ NoCopy \notin TableType
<1>1. Now \in TableType
  BY DEF IntakeTyped
<1>2. NoCopy \notin TableType
  <2>1. NoCopy.tally = Absent - 1
    BY DEF NoCopy
  <2> QED  BY <2>1 DEF TableType, Absent
<1> QED  BY <1>1, <1>2

CopyType == [Transactions -> TableType \cup {NoCopy}]
TxTyped == copy \in CopyType /\ crowded \subseteq Transactions

LEMMA OpenedTyped ==
  ASSUME IntakeTyped, NEW t \in Transactions, Opened(t)
  PROVE  TxTyped'
<1>1. copy \in CopyType /\ crowded \subseteq Transactions /\ Now \in TableType
  BY DEF IntakeTyped, CopyType
<1>2. copy' \in CopyType
  BY <1>1 DEF Opened, CopyType
<1>3. crowded' \subseteq Transactions
  BY <1>1 DEF Opened, Open
<1> QED  BY <1>2, <1>3 DEF TxTyped, CopyType, TableType, FinEvents, EventIds, NoCopy, Transactions

LEMMA ClosedTyped ==
  ASSUME IntakeTyped, NEW t \in Transactions, Closed(t)
  PROVE  TxTyped'
<1>1. copy \in CopyType /\ crowded \subseteq Transactions
  BY DEF IntakeTyped, CopyType
<1>2. copy' \in CopyType
  BY <1>1 DEF Closed, CopyType
<1>3. crowded' \subseteq Transactions
  BY <1>1 DEF Closed
<1> QED  BY <1>2, <1>3 DEF TxTyped, CopyType, TableType, FinEvents, EventIds, NoCopy, Transactions

LEMMA RolledBackTyped ==
  ASSUME IntakeTyped, NEW t \in Open, RolledBack(t)
  PROVE  TxTyped' /\ Now' \in TableType /\ refusals' \in 0..MaxRefusals
         /\ mishaps' \subseteq {"raced", "restored"}
<1>1. t \in Transactions /\ copy[t] \in TableType
  BY TypedParts DEF Open
<1>2. TxTyped'
  BY <1>1, ClosedTyped DEF RolledBack
<1>3. Now' \in TableType
  BY <1>1 DEF RolledBack, Now, TableType
<1>4. refusals' \in 0..MaxRefusals
  BY IngestionAssumption DEF RolledBack, IntakeTyped
<1>5. mishaps' \subseteq {"raced", "restored"}
  BY DEF RolledBack, IntakeTyped
<1> QED  BY <1>2, <1>3, <1>4, <1>5

UploadType == [Uploads -> [pc : Waits, batch : Batches, of : Uploads \cup {None}]]
JobTyped ==
  /\ job \in [Uploads -> {"none", "queued", "acked", "dead"}]
  /\ attempts \in [Uploads -> 0..MaxTries]
  /\ \A u \in Uploads : job[u] \in {"none", "queued"} => attempts[u] < MaxTries

(* The type invariant from its parts, each of which a step leaves alone or *)
(* keeps.                                                                  *)
LEMMA TypedAgain ==
  ASSUME IntakeTyped,
         upload' \in UploadType \/ UNCHANGED upload,
         Now' \in TableType \/ UNCHANGED <<receipts, outboxRows, stored, tally>>,
         TxTyped' \/ UNCHANGED <<copy, crowded>>,
         refusals' \in 0..MaxRefusals \/ UNCHANGED refusals,
         JobTyped' \/ UNCHANGED <<job, attempts>>,
         run' \in [Workers -> RunType] \/ UNCHANGED run,
         mishaps' \subseteq {"raced", "restored"} \/ UNCHANGED mishaps
  PROVE  IntakeTyped'
<1>1. upload' \in UploadType
  BY DEF IntakeTyped, UploadType
<1>2. Now' \in TableType
  BY DEF IntakeTyped, Now
<1>3. TxTyped'
  BY DEF IntakeTyped, TxTyped, CopyType
<1>4. refusals' \in 0..MaxRefusals
  BY DEF IntakeTyped
<1>5. JobTyped'
  BY DEF IntakeTyped, JobTyped
<1>6. run' \in [Workers -> RunType]
  BY DEF IntakeTyped
<1>7. mishaps' \subseteq {"raced", "restored"}
  BY DEF IntakeTyped
<1> QED
  BY <1>1, <1>2, <1>3, <1>4, <1>5, <1>6, <1>7
  DEF IntakeTyped, UploadType, TxTyped, CopyType, JobTyped

LEMMA UploadStepTyped ==
  ASSUME IntakeTyped, OpenWhileInside, NEW u \in Uploads, Request(u) \/ UploadGoesOn(u)
  PROVE  IntakeTyped'
<1> USE DEF uploadVars, sessionVars, txVars, jobVars
<1>u. u \in Transactions /\ upload \in UploadType
  BY DEF Transactions, IntakeTyped, UploadType
<1>n. /\ receipts \subseteq Uploads /\ outboxRows \subseteq Uploads
      /\ stored \in FinEvents /\ tally \in Nat \cup {Absent}
  BY TypedParts
<1>to. ASSUME NEW pc \in Waits, To(u, pc) PROVE upload' \in UploadType
  BY <1>u, <1>to DEF To, UploadType
<1>settle. ASSUME NEW v \in Uploads, Settle(u, v) PROVE upload' \in UploadType
  <2>1. PICK pc \in Waits : upload' = [upload EXCEPT ![u].pc = pc, ![u].of = v]
    BY <1>settle, Zenon DEF Settle, Waits
  <2> QED  BY <1>u, <2>1 DEF UploadType
<1>1. CASE Request(u)
  <2>1. upload' \in UploadType
    BY <1>1, <1>to DEF Request, Waits
  <2> QED  BY <1>1, <2>1, TypedAgain DEF Request
<1>2. CASE FindByBatchId(u)
  <2>1. upload' \in UploadType
    BY <1>2, <1>to, <1>settle, <1>n DEF FindByBatchId, Waits, WithBatchId
  <2> QED  BY <1>2, <2>1, TypedAgain DEF FindByBatchId
<1>3. CASE FindByCursor(u)
  <2>1. upload' \in UploadType
    BY <1>3, <1>to, <1>settle, <1>n DEF FindByCursor, Waits, WithCursor
  <2> QED  BY <1>3, <2>1, TypedAgain DEF FindByCursor
<1>4. CASE CreateReceipt(u)
  <2>1. upload' \in UploadType
    BY <1>4, <1>to DEF CreateReceipt, Waits
  <2>2. Now' \in TableType
    BY <1>4, <1>n DEF CreateReceipt, Now, TableType
  <2>3. TxTyped'
    BY <1>4, <1>u, OpenedTyped DEF CreateReceipt
  <2> QED  BY <1>4, <2>1, <2>2, <2>3, TypedAgain DEF CreateReceipt
<1>5. CASE InsertRow(u)
  <2>1. upload' \in UploadType
    BY <1>5, <1>u DEF InsertRow, UploadType, Waits
  <2>2. Now' \in TableType
    BY <1>5, <1>n DEF InsertRow, Now, TableType
  <2>3. TxTyped'
    BY <1>5, <1>u, ClosedTyped DEF InsertRow
  <2> QED  BY <1>5, <2>1, <2>2, <2>3, TypedAgain DEF InsertRow
<1>6. CASE Refuse(u)
  <2>0. u \in Open
    BY <1>6 DEF Refuse, OpenWhileInside
  <2>1. upload' \in UploadType
    BY <1>6, <1>to DEF Refuse, Waits
  <2>2. TxTyped' /\ Now' \in TableType /\ refusals' \in 0..MaxRefusals
        /\ mishaps' \subseteq {"raced", "restored"}
    BY <1>6, <2>0, RolledBackTyped DEF Refuse
  <2> QED  BY <1>6, <2>1, <2>2, TypedAgain DEF Refuse
<1> QED  BY <1>1, <1>2, <1>3, <1>4, <1>5, <1>6 DEF UploadGoesOn

LEMMA JobStepTyped ==
  ASSUME IntakeTyped, NEW u \in Uploads,
         Deliver(u) \/ \E w \in Workers : Process(w, u)
  PROVE  IntakeTyped'
<1> USE DEF uploadVars, sessionVars, txVars, jobVars
<1>1. CASE Deliver(u)
  <2>1. JobTyped'
    BY <1>1 DEF Deliver, JobTyped, IntakeTyped
  <2> QED  BY <1>1, <2>1, TypedAgain DEF Deliver
<1>2. ASSUME NEW w \in Workers, Process(w, u) PROVE IntakeTyped'
  <2>1. BatchOf(u).events \subseteq EventIds
    BY TypedParts, Events DEF FinEvents
  <2>2. [Idle EXCEPT !.pc = IF tally = Absent THEN "session" ELSE "events",
                     !.of = u, !.todo = BatchOf(u).events] \in RunType
    <3>1. {} \in FinEvents
      BY FS_EmptySet DEF FinEvents
    <3> QED  BY <2>1, <3>1 DEF Idle, RunType, Doings
  <2>3. run' \in [Workers -> RunType]
    BY <1>2, <2>2 DEF Process, IntakeTyped
  <2>4. TxTyped'
    BY <1>2, OpenedTyped DEF Process, Transactions
  <2>5. mishaps' \subseteq {"raced", "restored"}
    BY <1>2 DEF Process, IntakeTyped
  <2> QED  BY <1>2, <2>3, <2>4, <2>5, TypedAgain DEF Process
<1> QED  BY <1>1, <1>2

LEMMA RunStepTyped ==
  ASSUME IntakeTyped, OpenWhileInside, NEW w \in Workers, RunGoesOn(w)
  PROVE  IntakeTyped'
<1> USE DEF uploadVars, sessionVars, txVars, jobVars
<1>r. run \in [Workers -> RunType] /\ w \in Transactions
  BY DEF IntakeTyped, Transactions
<1>n. /\ receipts \subseteq Uploads /\ outboxRows \subseteq Uploads
      /\ stored \in FinEvents /\ tally \in Nat \cup {Absent} /\ Total(tally) \in Nat
      /\ run[w].todo \subseteq EventIds /\ run[w].fresh \in FinEvents /\ run[w].base \in Nat
  <2>1. tally \in Nat \cup {Absent}
    BY TypedParts
  <2>2. Total(tally) \in Nat
    BY <2>1, TotalIs
  <2>3. /\ run[w].todo \subseteq EventIds /\ run[w].fresh \in FinEvents /\ run[w].base \in Nat
    BY TypedParts
  <2>4. receipts \subseteq Uploads /\ outboxRows \subseteq Uploads /\ stored \in FinEvents
    BY TypedParts
  <2> QED  BY <2>1, <2>2, <2>3, <2>4
<1>step. ASSUME NEW pc \in Doings, Step(w, pc) PROVE run' \in [Workers -> RunType]
  BY <1>r, <1>step DEF Step, RunType
<1>add. ASSUME NEW S \in FinEvents, NEW e \in EventIds PROVE S \cup {e} \in FinEvents
  BY FS_AddElement DEF FinEvents
<1>idle. Idle \in RunType
  BY FS_EmptySet DEF Idle, RunType, FinEvents, Doings
<1>1. CASE FindSession(w)
  <2>1. run' \in [Workers -> RunType]
    BY <1>1, <1>step DEF FindSession, Doings
  <2> QED  BY <1>1, <2>1, TypedAgain DEF FindSession
<1>2. CASE CreateSession(w)
  <2>1. run' \in [Workers -> RunType]
    BY <1>2, <1>step DEF CreateSession, Doings
  <2>2. Now' \in TableType
    BY <1>2, <1>n DEF CreateSession, Now, TableType
  <2> QED  BY <1>2, <2>1, <2>2, TypedAgain DEF CreateSession
<1>3. CASE ReadSession(w)
  <2>1. tally' \in Nat
    BY <1>3, <1>n DEF ReadSession, Total
  <2>2. run' \in [Workers -> RunType]
    <3>1. PICK n \in Nat : n = tally'
      BY <2>1
    <3>2. run' = [run EXCEPT ![w].pc = "write", ![w].base = n]
      BY <1>3, <3>1 DEF ReadSession
    <3> QED  BY <3>2, <1>r DEF RunType, Doings
  <2>3. Now' \in TableType
    BY <1>3, <2>1, <1>n DEF ReadSession, Now, TableType
  <2> QED  BY <1>3, <2>2, <2>3, TypedAgain DEF ReadSession
<1>4. CASE WriteCount(w)
  <2>1. Added(w) \in Nat
    BY <1>n, FS_CardinalityType DEF Added, FinEvents
  <2>2. tally' \in Nat \cup {Absent}
    BY <1>4, <2>1, <1>n DEF WriteCount
  <2>3. run' \in [Workers -> RunType]
    BY <1>4, <1>step DEF WriteCount, Doings
  <2>4. Now' \in TableType
    BY <1>4, <2>2, <1>n DEF WriteCount, Now, TableType
  <2> QED  BY <1>4, <2>3, <2>4, TypedAgain DEF WriteCount
<1>5. CASE Announce(w)
  <2>1. run' \in [Workers -> RunType]
    BY <1>5, <1>r, <1>idle DEF Announce, RunType, Doings
  <2>2. TxTyped'
    BY <1>5, <1>r, ClosedTyped DEF Announce
  <2> QED  BY <1>5, <2>1, <2>2, TypedAgain DEF Announce
<1>6. CASE Settled(w)
  <2>1. run' \in [Workers -> RunType]
    BY <1>6, <1>r, <1>idle DEF Settled
  <2>2. JobTyped'
    BY <1>6 DEF Settled, JobTyped, IntakeTyped
  <2> QED  BY <1>6, <2>1, <2>2, TypedAgain DEF Settled
<1>7. CASE StoreFails(w)
  <2>0. w \in Open
    BY <1>7 DEF StoreFails
  <2>1. run' \in [Workers -> RunType]
    BY <1>7, <1>r, <1>idle DEF StoreFails
  <2>2. PICK u \in Uploads : u = run[w].of
    BY <2>0 DEF OpenWhileInside, Within
  <2>3. JobTyped'
    <3>1. CASE job[u] = "queued"
      <4>1. attempts' = [attempts EXCEPT ![u] = @ + 1]
        BY <1>7, <2>2, <3>1 DEF StoreFails
      <4>2. job' = [job EXCEPT ![u] = IF attempts'[u] = MaxTries THEN "dead" ELSE @]
        BY <1>7, <2>2, <3>1 DEF StoreFails
      <4>3. attempts[u] \in Nat /\ attempts[u] < MaxTries /\ MaxTries \in Nat
        BY <3>1, IngestionAssumption DEF IntakeTyped
      <4>4. attempts' \in [Uploads -> 0..MaxTries] /\ attempts'[u] = attempts[u] + 1
        BY <4>1, <4>3 DEF IntakeTyped
      <4>5. job' \in [Uploads -> {"none", "queued", "acked", "dead"}]
        BY <4>2 DEF IntakeTyped
      <4>6. ASSUME NEW v \in Uploads, job'[v] \in {"none", "queued"} PROVE attempts'[v] < MaxTries
        <5>1. CASE v = u
          BY <5>1, <4>6, <4>2, <4>3, <4>4 DEF IntakeTyped
        <5>2. CASE v # u
          BY <5>2, <4>6, <4>1, <4>2 DEF IntakeTyped
        <5> QED  BY <5>1, <5>2
      <4> QED  BY <4>4, <4>5, <4>6 DEF JobTyped
    <3>2. CASE job[u] # "queued"
      BY <1>7, <2>2, <3>2 DEF StoreFails, JobTyped, IntakeTyped
    <3> QED  BY <3>1, <3>2
  <2>4. TxTyped' /\ Now' \in TableType /\ refusals' \in 0..MaxRefusals
        /\ mishaps' \subseteq {"raced", "restored"}
    BY <1>7, <2>0, RolledBackTyped DEF StoreFails
  <2> QED  BY <1>7, <2>1, <2>3, <2>4, TypedAgain DEF StoreFails
<1>8. ASSUME NEW e \in EventIds, FindEvent(w, e) \/ InsertEvent(w, e) PROVE IntakeTyped'
  <2>1. CASE FindEvent(w, e)
    <3>1. run' \in [Workers -> RunType]
      BY <2>1, <1>r, <1>n, <1>step DEF FindEvent, RunType, Doings
    <3> QED  BY <2>1, <3>1, TypedAgain DEF FindEvent
  <2>2. CASE InsertEvent(w, e)
    <3>1. run[w].fresh \cup {e} \in FinEvents /\ stored \cup {e} \in FinEvents
      BY <1>n, <1>add
    <3>2. run' \in [Workers -> RunType]
      <4>1. PICK T, F : T = run[w].todo \ {e} /\ F = run[w].fresh \cup {e}
        OBVIOUS
      <4>2. T \in SUBSET EventIds /\ F \in FinEvents
        BY <4>1, <3>1, <1>n
      <4>3. run' = [run EXCEPT ![w].pc = "events", ![w].todo = T, ![w].fresh = F]
        BY <2>2, <4>1, <1>r DEF InsertEvent
      <4>4. [run[w] EXCEPT !.pc = "events", !.todo = T, !.fresh = F] \in RunType
        BY <4>2, <1>r DEF RunType, Doings
      <4>5. run' = [run EXCEPT ![w] = [run[w] EXCEPT !.pc = "events", !.todo = T, !.fresh = F]]
        BY <4>3, <1>r
      <4> QED  BY <4>4, <4>5, <1>r
    <3>3. Now' \in TableType
      BY <2>2, <3>1, <1>n DEF InsertEvent, Now, TableType
    <3> QED  BY <2>2, <3>2, <3>3, TypedAgain DEF InsertEvent
  <2> QED  BY <1>8, <2>1, <2>2
<1> QED  BY <1>1, <1>2, <1>3, <1>4, <1>5, <1>6, <1>7, <1>8 DEF RunGoesOn
-----------------------------------------------------------------------------
(* Transactions open and close one by one; while one closes nothing else   *)
(* is alone.                                                               *)
LEMMA Opens ==
  ASSUME IntakeTyped, NEW t \in Transactions, Opened(t)
  PROVE  /\ Open' = Open \cup {t} /\ copy'[t] = Now
         /\ \A s \in Transactions \ {t} : copy'[s] = copy[s]
<1>1. copy \in CopyType /\ Now # NoCopy
  BY CopyIsNone DEF IntakeTyped, CopyType
<1>2. copy'[t] = Now /\ \A s \in Transactions \ {t} : copy'[s] = copy[s]
  BY <1>1 DEF Opened, CopyType
<1>3. Open' = Open \cup {t}
  <2>1. Open' = {s \in Transactions : copy'[s] # NoCopy}
    BY DEF Open, Transactions, NoCopy, Workers
  <2> QED  BY <1>1, <1>2, <2>1 DEF Open
<1> QED  BY <1>2, <1>3

LEMMA Closes ==
  ASSUME IntakeTyped, NEW t \in Transactions, Closed(t)
  PROVE  /\ Open' = Open \ {t}
         /\ \A s \in Transactions \ {t} : copy'[s] = copy[s]
<1>1. copy \in CopyType
  BY DEF IntakeTyped, CopyType
<1>2. copy'[t] = NoCopy /\ \A s \in Transactions \ {t} : copy'[s] = copy[s]
  BY <1>1 DEF Closed, CopyType
<1>3. Open' = Open \ {t}
  <2>1. Open' = {s \in Transactions : copy'[s] # NoCopy}
    BY DEF Open, Transactions, NoCopy, Workers
  <2> QED  BY <1>1, <1>2, <2>1 DEF Open
<1> QED  BY <1>2, <1>3

LEMMA AloneOpens ==
  ASSUME IntakeTyped, Alone, NEW t \in Transactions, Opened(t)
  PROVE  /\ crowded' \subseteq Open'
         /\ \A s \in Open' \ crowded' : s = t /\ Open = {} /\ Open' = {t}
<1>1. Open' = Open \cup {t}
  BY Opens
<1>2. crowded' = IF Open = {} THEN crowded ELSE crowded \cup Open \cup {t}
  BY DEF Opened
<1>3. crowded \subseteq Open
  BY DEF Alone
<1> QED  BY <1>1, <1>2, <1>3

LEMMA AloneCloses ==
  ASSUME IntakeTyped, Alone, NEW t \in Open, Closed(t)
  PROVE  crowded' \subseteq Open' /\ Open' \ crowded' = {}
<1>1. Open' = Open \ {t}
  BY Closes DEF Open
<1>2. crowded' = crowded \ {t} /\ crowded \subseteq Open
  BY DEF Closed, Alone
<1>3. \A s \in Open \ crowded : Open = {s}
  BY DEF Alone
<1> QED  BY <1>1, <1>2, <1>3

LEMMA OpenSame ==
  ASSUME UNCHANGED copy
  PROVE  Open' = Open
BY DEF Open, Transactions, NoCopy, Workers

(* What the steps of a handler inside its transaction have in common.      *)
Works(w) ==
  /\ UNCHANGED <<upload, receipts, outboxRows, copy, crowded, refusals, mishaps, job, attempts>>
  /\ w \in Open /\ run[w].pc \in Within
  /\ run' \in [Workers -> RunType]
  /\ \A v \in Workers \ {w} : run'[v] = run[v]
  /\ run'[w].pc \in Within /\ run'[w].of = run[w].of

WorkStep(w) ==
  \/ FindSession(w) \/ CreateSession(w) \/ ReadSession(w) \/ WriteCount(w)
  \/ \E e \in EventIds : FindEvent(w, e) \/ InsertEvent(w, e)

(* What each of them does to the handler's own state and the tables.       *)
LEMMA WorkEffects ==
  ASSUME IntakeTyped, NEW w \in Workers
  PROVE  /\ FindSession(w) =>
              /\ run[w].pc = "session" /\ run'[w].pc = (IF tally = Absent THEN "create" ELSE "events")
              /\ run'[w].todo = run[w].todo /\ run'[w].fresh = run[w].fresh
              /\ UNCHANGED <<stored, tally>>
         /\ CreateSession(w) =>
              /\ run[w].pc = "create" /\ run'[w].pc = "events"
              /\ run'[w].todo = run[w].todo /\ run'[w].fresh = run[w].fresh
              /\ UNCHANGED stored /\ tally' = 0
         /\ ReadSession(w) =>
              /\ run[w].pc = "events" /\ run'[w].pc = "write" /\ run[w].todo = {}
              /\ run'[w].todo = run[w].todo /\ run'[w].fresh = run[w].fresh
              /\ UNCHANGED stored /\ tally' = Total(tally) /\ run'[w].base = tally'
         /\ WriteCount(w) =>
              /\ run[w].pc = "write" /\ run'[w].pc = "announce"
              /\ run'[w].todo = run[w].todo /\ run'[w].fresh = run[w].fresh
              /\ UNCHANGED stored
              /\ tally' = IF tally = Absent THEN Absent ELSE run[w].base + Cardinality(run[w].fresh)
         /\ \A e \in EventIds :
              /\ FindEvent(w, e) =>
                   /\ run[w].pc = "events" /\ e \in run[w].todo /\ run'[w].fresh = run[w].fresh
                   /\ \/ e \in stored /\ run'[w].pc = "events" /\ run'[w].todo = run[w].todo \ {e}
                      \/ e \notin stored /\ run'[w].pc = "insert" /\ run'[w].todo = run[w].todo
                   /\ UNCHANGED <<stored, tally>>
              /\ InsertEvent(w, e) =>
                   /\ run[w].pc = "insert" /\ e \in run[w].todo /\ run'[w].pc = "events"
                   /\ run'[w].todo = run[w].todo \ {e} /\ run'[w].fresh = run[w].fresh \cup {e}
                   /\ stored' = stored \cup {e} /\ UNCHANGED tally
<1>1. run \in [Workers -> RunType] /\ run[w] \in RunType
  BY DEF IntakeTyped
<1>2. ASSUME FindSession(w)
      PROVE  /\ run[w].pc = "session" /\ run'[w].pc = (IF tally = Absent THEN "create" ELSE "events")
             /\ run'[w].todo = run[w].todo /\ run'[w].fresh = run[w].fresh
             /\ UNCHANGED <<stored, tally>>
  BY <1>1, <1>2 DEF FindSession, Doing, Step, RunType, sessionVars
<1>3. ASSUME CreateSession(w)
      PROVE  /\ run[w].pc = "create" /\ run'[w].pc = "events"
             /\ run'[w].todo = run[w].todo /\ run'[w].fresh = run[w].fresh
             /\ UNCHANGED stored /\ tally' = 0
  BY <1>1, <1>3 DEF CreateSession, Doing, Step, RunType
<1>4. ASSUME ReadSession(w)
      PROVE  /\ run[w].pc = "events" /\ run'[w].pc = "write" /\ run[w].todo = {}
             /\ run'[w].todo = run[w].todo /\ run'[w].fresh = run[w].fresh
             /\ UNCHANGED stored /\ tally' = Total(tally) /\ run'[w].base = tally'
  BY <1>1, <1>4 DEF ReadSession, Doing, RunType, Total
<1>5. ASSUME WriteCount(w)
      PROVE  /\ run[w].pc = "write" /\ run'[w].pc = "announce"
             /\ run'[w].todo = run[w].todo /\ run'[w].fresh = run[w].fresh
             /\ UNCHANGED stored
             /\ tally' = IF tally = Absent THEN Absent ELSE run[w].base + Cardinality(run[w].fresh)
  BY <1>1, <1>5 DEF WriteCount, Doing, Step, RunType, Added
<1>6. ASSUME NEW e \in EventIds, FindEvent(w, e)
      PROVE  /\ run[w].pc = "events" /\ e \in run[w].todo /\ run'[w].fresh = run[w].fresh
             /\ \/ e \in stored /\ run'[w].pc = "events" /\ run'[w].todo = run[w].todo \ {e}
                \/ e \notin stored /\ run'[w].pc = "insert" /\ run'[w].todo = run[w].todo
             /\ UNCHANGED <<stored, tally>>
  BY <1>1, <1>6 DEF FindEvent, Doing, Step, NextEvent, RunType, sessionVars
<1>7. ASSUME NEW e \in EventIds, InsertEvent(w, e)
      PROVE  /\ run[w].pc = "insert" /\ e \in run[w].todo /\ run'[w].pc = "events"
             /\ run'[w].todo = run[w].todo \ {e} /\ run'[w].fresh = run[w].fresh \cup {e}
             /\ stored' = stored \cup {e} /\ UNCHANGED tally
  BY <1>1, <1>7 DEF InsertEvent, Doing, NextEvent, RunType
<1> QED  BY <1>2, <1>3, <1>4, <1>5, <1>6, <1>7

LEMMA WorkStepWorks ==
  ASSUME IntakeTyped, OpenWhileInside, NEW w \in Workers, WorkStep(w)
  PROVE  Works(w)
<1>1. IntakeTyped'
  BY RunStepTyped DEF WorkStep, RunGoesOn
<1>2. run \in [Workers -> RunType] /\ run' \in [Workers -> RunType]
  BY <1>1 DEF IntakeTyped
<1>3. run[w].pc \in Within => w \in Open
  BY DEF OpenWhileInside
<1> USE DEF uploadVars, sessionVars, txVars, jobVars
<1>5. /\ WorkStep(w) => UNCHANGED <<upload, receipts, outboxRows, copy, crowded, refusals, mishaps, job, attempts>>
  BY DEF WorkStep, FindSession, CreateSession, ReadSession, WriteCount, FindEvent, InsertEvent
<1>6. run[w].pc \in Within
  BY DEF WorkStep, FindSession, CreateSession, ReadSession, WriteCount, FindEvent, InsertEvent, Doing, Within
<1>7. \A v \in Workers \ {w} : run'[v] = run[v]
  BY <1>2 DEF WorkStep, FindSession, CreateSession, ReadSession, WriteCount, FindEvent, InsertEvent, Step
<1>o. run[w] \in RunType
  BY <1>2
<1>8. run'[w].of = run[w].of
  <2>1. ASSUME FindSession(w) \/ CreateSession(w) PROVE run'[w].of = run[w].of
    BY <2>1, <1>2, <1>o DEF FindSession, CreateSession, Step, RunType
  <2>2. ASSUME ReadSession(w) PROVE run'[w].of = run[w].of
    BY <2>2, <1>2, <1>o DEF ReadSession, RunType
  <2>3. ASSUME WriteCount(w) PROVE run'[w].of = run[w].of
    BY <2>3, <1>2, <1>o DEF WriteCount, Step, RunType
  <2>4. ASSUME NEW e \in EventIds, FindEvent(w, e) PROVE run'[w].of = run[w].of
    BY <2>4, <1>2, <1>o DEF FindEvent, Step, RunType
  <2>5. ASSUME NEW e \in EventIds, InsertEvent(w, e) PROVE run'[w].of = run[w].of
    BY <2>5, <1>2, <1>o DEF InsertEvent, RunType
  <2> QED  BY <2>1, <2>2, <2>3, <2>4, <2>5 DEF WorkStep
<1>9. run'[w].pc \in Within
  BY WorkEffects DEF WorkStep, Within
<1> QED  BY <1>2, <1>3, <1>5, <1>6, <1>7, <1>8, <1>9 DEF Works

(* What the steps of an upload outside its transaction have in common.     *)
Moves(u, from, to) ==
  /\ upload' \in UploadType
  /\ \A v \in Uploads \ {u} : upload'[v] = upload[v]
  /\ upload'[u].batch = upload[u].batch
  /\ upload[u].pc \in from /\ upload'[u].pc \in to

Asks(u) ==
  /\ UNCHANGED <<receipts, outboxRows, sessionVars, txVars, jobVars, run>>
  /\ Moves(u, {"idle", "batch", "cursor"}, {"batch", "cursor", "accept", "accepted", "conflict"})
  /\ upload'[u].pc = "accepted" =>
       /\ upload'[u].of \in receipts
       /\ SameContent(BatchOf(u), BatchOf(upload'[u].of))

LEMMA AskStepAsks ==
  ASSUME IntakeTyped, NEW u \in Uploads, Request(u) \/ FindByBatchId(u) \/ FindByCursor(u)
  PROVE  Asks(u)
<1>1. upload \in UploadType /\ upload[u] \in [pc : Waits, batch : Batches, of : Uploads \cup {None}]
      /\ receipts \subseteq Uploads
  BY TypedParts DEF IntakeTyped, UploadType
<1> DEFINE To3 == {"batch", "cursor", "accept", "accepted", "conflict"}
<1>2. ASSUME NEW from, upload[u].pc \in from, NEW pc \in {"batch", "cursor", "accept"}, To(u, pc)
      PROVE  Moves(u, from, To3) /\ upload'[u].pc # "accepted"
  BY <1>1, <1>2 DEF To, Moves, UploadType, Waits
<1>3. ASSUME NEW from, upload[u].pc \in from, NEW v \in receipts, Settle(u, v)
      PROVE  /\ Moves(u, from, To3)
             /\ upload'[u].pc = "accepted" =>
                  upload'[u].of \in receipts /\ SameContent(BatchOf(u), BatchOf(upload'[u].of))
  <2>1. PICK pc \in {"accepted", "conflict"} :
          /\ upload' = [upload EXCEPT ![u].pc = pc, ![u].of = v]
          /\ pc = "accepted" => SameContent(BatchOf(u), BatchOf(v))
    BY <1>3, Zenon DEF Settle
  <2>2. v \in Uploads
    BY <1>1
  <2>3. upload'[u].pc = pc /\ upload'[u].of = v /\ upload'[u].batch = upload[u].batch
    BY <2>1, <1>1 DEF UploadType
  <2>4. upload' \in UploadType
    BY <2>1, <2>2, <1>1 DEF UploadType, Waits
  <2>5. \A x \in Uploads \ {u} : upload'[x] = upload[x]
    BY <2>1, <1>1 DEF UploadType
  <2>6. Moves(u, from, To3)
    BY <2>3, <2>4, <2>5, <1>3 DEF Moves
  <2> QED  BY <2>1, <2>3, <2>6
<1>4. CASE Request(u)
  BY <1>4, <1>2 DEF Request, At, Asks
<1>5. CASE FindByBatchId(u)
  <2>1. upload[u].pc \in {"idle", "batch", "cursor"}
    BY <1>5 DEF FindByBatchId, At
  <2>2. CASE \E v \in WithBatchId(u) : Settle(u, v)
    BY <1>5, <2>1, <2>2, <1>3 DEF FindByBatchId, Asks, WithBatchId
  <2>3. CASE \E pc \in {"accept", "cursor"} : To(u, pc)
    BY <1>5, <2>1, <2>3, <1>2 DEF FindByBatchId, Asks
  <2> QED  BY <1>5, <2>2, <2>3 DEF FindByBatchId
<1>6. CASE FindByCursor(u)
  <2>1. upload[u].pc \in {"idle", "batch", "cursor"}
    BY <1>6 DEF FindByCursor, At
  <2>2. CASE \E v \in WithCursor(u) : Settle(u, v)
    BY <1>6, <2>1, <2>2, <1>3 DEF FindByCursor, Asks, WithCursor
  <2>3. CASE To(u, "accept")
    BY <1>6, <2>1, <2>3, <1>2 DEF FindByCursor, Asks
  <2> QED  BY <1>6, <2>2, <2>3 DEF FindByCursor
<1> QED  BY <1>4, <1>5, <1>6

LEMMA UploadEffects ==
  ASSUME IntakeTyped, NEW u \in Uploads
  PROVE  /\ CreateReceipt(u) =>
              /\ Moves(u, {"accept"}, {"row"}) /\ Opened(u) /\ receipts' = receipts \cup {u}
              /\ UNCHANGED <<outboxRows, stored, tally, refusals, mishaps, job, attempts, run>>
         /\ InsertRow(u) =>
              /\ Moves(u, {"row"}, {"accepted"}) /\ upload'[u].of = u
              /\ Closed(u) /\ outboxRows' = outboxRows \cup {u}
              /\ UNCHANGED <<receipts, stored, tally, refusals, mishaps, job, attempts, run>>
         /\ Refuse(u) =>
              /\ Moves(u, {"row"}, {"refused"}) /\ RolledBack(u) /\ UNCHANGED <<job, attempts, run>>
<1> USE DEF uploadVars, sessionVars, txVars, jobVars
<1>1. upload \in UploadType /\ upload[u] \in [pc : Waits, batch : Batches, of : Uploads \cup {None}]
  BY DEF IntakeTyped, UploadType
<1>2. ASSUME CreateReceipt(u) PROVE Moves(u, {"accept"}, {"row"})
  BY <1>1, <1>2 DEF CreateReceipt, To, At, Moves, UploadType, Waits
<1>3. ASSUME InsertRow(u) PROVE Moves(u, {"row"}, {"accepted"}) /\ upload'[u].of = u
  BY <1>1, <1>3 DEF InsertRow, At, Moves, UploadType, Waits
<1>4. ASSUME Refuse(u) PROVE Moves(u, {"row"}, {"refused"})
  BY <1>1, <1>4 DEF Refuse, To, At, Moves, UploadType, Waits
<1> QED  BY <1>2, <1>3, <1>4 DEF CreateReceipt, InsertRow, Refuse

(* A handler begins, ends, acknowledges and fails.                         *)
OnlyRun(w) ==
  /\ run' \in [Workers -> RunType]
  /\ \A v \in Workers \ {w} : run'[v] = run[v]

LEMMA RunEffects ==
  ASSUME IntakeTyped, OpenWhileInside, NEW w \in Workers
  PROVE  /\ \A u \in Uploads : Process(w, u) =>
              /\ OnlyRun(w) /\ Opened(w) /\ run[w].pc = "idle"
              /\ run'[w].pc = (IF tally = Absent THEN "session" ELSE "events")
              /\ run'[w].of = u /\ run'[w].todo = BatchOf(u).events /\ run'[w].fresh = {}
              /\ mishaps' = (IF StorageOpen THEN mishaps \cup {"raced"} ELSE mishaps)
              /\ UNCHANGED <<upload, receipts, outboxRows, stored, tally, refusals, job, attempts>>
         /\ Announce(w) =>
              /\ OnlyRun(w) /\ Closed(w) /\ w \in Open
              /\ run[w].pc = "announce" \/ (run[w].pc = "events" /\ run[w].todo = {} /\ run[w].fresh = {})
              /\ run'[w].pc = "ack" /\ run'[w].of = run[w].of
              /\ UNCHANGED <<upload, receipts, outboxRows, stored, tally, refusals, mishaps, job, attempts>>
         /\ Settled(w) =>
              /\ OnlyRun(w) /\ run[w].pc = "ack" /\ run'[w].pc = "idle"
              /\ run'[w].fresh = {}
              /\ \A u \in Uploads : job'[u] = "acked" => job[u] = "acked" \/ run[w].of = u
              /\ \A u \in Uploads : job'[u] # "none" => job[u] # "none"
              /\ UNCHANGED <<upload, receipts, outboxRows, stored, tally, copy, crowded, refusals,
                             mishaps, attempts>>
         /\ StoreFails(w) =>
              /\ OnlyRun(w) /\ w \in Open /\ RolledBack(w) /\ run'[w].pc = "idle"
              /\ run'[w].fresh = {}
              /\ \A u \in Uploads : job'[u] = "acked" => job[u] = "acked"
              /\ \A u \in Uploads : job'[u] # "none" => job[u] # "none"
              /\ UNCHANGED upload
<1> USE DEF uploadVars, sessionVars, txVars, jobVars
<1>1. run \in [Workers -> RunType] /\ run[w] \in RunType /\ w \in Transactions
  BY DEF IntakeTyped, Transactions
<1>i. Idle \in RunType
  BY FS_EmptySet DEF Idle, RunType, FinEvents, Doings
<1>j. job \in [Uploads -> {"none", "queued", "acked", "dead"}]
  BY DEF IntakeTyped
<1>2. ASSUME NEW u \in Uploads, Process(w, u)
      PROVE  /\ OnlyRun(w)
             /\ run'[w].pc = (IF tally = Absent THEN "session" ELSE "events")
             /\ run'[w].of = u /\ run'[w].todo = BatchOf(u).events /\ run'[w].fresh = {}
  <2>1. IntakeTyped'
    BY <1>2, JobStepTyped
  <2>2. run' \in [Workers -> RunType]
    BY <2>1 DEF IntakeTyped
  <2>3. \A v \in Workers \ {w} : run'[v] = run[v]
    BY <1>1, <1>2 DEF Process
  <2>4. run'[w] = [Idle EXCEPT !.pc = IF tally = Absent THEN "session" ELSE "events",
                               !.of = u, !.todo = BatchOf(u).events]
    BY <1>1, <1>2 DEF Process
  <2> QED  BY <2>2, <2>3, <2>4 DEF OnlyRun, Idle
<1>3. ASSUME Announce(w)
      PROVE  /\ OnlyRun(w) /\ w \in Open
             /\ run[w].pc = "announce" \/ (run[w].pc = "events" /\ run[w].todo = {} /\ run[w].fresh = {})
             /\ run'[w].pc = "ack" /\ run'[w].of = run[w].of
  <2>1. run' = [run EXCEPT ![w] = [Idle EXCEPT !.pc = "ack", !.of = run[w].of]]
    BY <1>3 DEF Announce
  <2>2. run[w].pc = "announce" \/ (run[w].pc = "events" /\ run[w].todo = {} /\ run[w].fresh = {})
    <3>1. run[w].pc = "announce" \/ (run[w].pc = "events" /\ run[w].todo \cup run[w].fresh = {})
      BY <1>3 DEF Announce, Doing
    <3>2. run[w].todo \cup run[w].fresh = {} => run[w].todo = {} /\ run[w].fresh = {}
      OBVIOUS
    <3> QED  BY <3>1, <3>2
  <2>3. w \in Open
    BY <2>2 DEF OpenWhileInside, Within
  <2>4. [Idle EXCEPT !.pc = "ack", !.of = run[w].of] \in RunType
    BY <1>i, <1>1 DEF RunType, Doings
  <2> QED  BY <2>1, <2>2, <2>3, <2>4, <1>1 DEF OnlyRun, Idle
<1>4. ASSUME Settled(w)
      PROVE  /\ OnlyRun(w) /\ run[w].pc = "ack" /\ run'[w].pc = "idle" /\ run'[w].fresh = {}
             /\ \A u \in Uploads : job'[u] = "acked" => job[u] = "acked" \/ run[w].of = u
             /\ \A u \in Uploads : job'[u] # "none" => job[u] # "none"
  <2>1. run' = [run EXCEPT ![w] = Idle] /\ run[w].pc = "ack"
    BY <1>4 DEF Settled, Doing
  <2>2. job' = [job EXCEPT ![run[w].of] = IF @ = "queued" THEN "acked" ELSE @]
    BY <1>4 DEF Settled
  <2>3. /\ \A u \in Uploads : job'[u] = "acked" => job[u] = "acked" \/ run[w].of = u
        /\ \A u \in Uploads : job'[u] # "none" => job[u] # "none"
    BY <2>2, <1>j
  <2> QED  BY <2>1, <2>3, <1>1, <1>i DEF OnlyRun, Idle
<1>5. ASSUME StoreFails(w)
      PROVE  /\ OnlyRun(w) /\ run'[w].pc = "idle" /\ run'[w].fresh = {}
             /\ \A u \in Uploads : job'[u] = "acked" => job[u] = "acked"
             /\ \A u \in Uploads : job'[u] # "none" => job[u] # "none"
  <2>1. run' = [run EXCEPT ![w] = Idle]
    BY <1>5 DEF StoreFails
  <2>2. UNCHANGED job \/ (/\ job[run[w].of] = "queued"
                          /\ job' = [job EXCEPT ![run[w].of] = IF attempts'[run[w].of] = MaxTries THEN "dead" ELSE @])
    BY <1>5 DEF StoreFails
  <2>3. /\ \A u \in Uploads : job'[u] = "acked" => job[u] = "acked"
        /\ \A u \in Uploads : job'[u] # "none" => job[u] # "none"
    BY <2>2, <1>j
  <2> QED  BY <2>1, <2>3, <1>1, <1>i DEF OnlyRun, Idle
<1> QED
  BY <1>2, <1>3, <1>4, <1>5, Zenon DEF Process, Announce, Settled, StoreFails, Doing
-----------------------------------------------------------------------------
LEMMA InitShaped == IntakeInit => OpenWhileInside /\ Alone
<1> SUFFICES ASSUME IntakeInit PROVE OpenWhileInside /\ Alone
  OBVIOUS
<1>1. Open = {}
  BY DEF IntakeInit, Open
<1>2. \A w \in Workers : run[w].pc = "idle"
  BY DEF IntakeInit, Idle
<1>3. \A u \in Uploads : ~At(u, "row")
  BY DEF IntakeInit, At
<1>4. crowded = {}
  BY DEF IntakeInit
<1> QED  BY <1>1, <1>2, <1>3, <1>4 DEF OpenWhileInside, Alone, Within

(* A transaction is open exactly while its owner is inside it.             *)
LEMMA UploadStepInside ==
  ASSUME IntakeTyped, OpenWhileInside, NEW u \in Uploads, Request(u) \/ UploadGoesOn(u)
  PROVE  OpenWhileInside'
<1>0. u \in Transactions /\ u \notin Workers
  BY NotNone DEF Transactions
<1>1. CASE Request(u) \/ FindByBatchId(u) \/ FindByCursor(u)
  <2>1. Asks(u)
    BY <1>1, AskStepAsks
  <2>2. Open' = Open /\ run' = run
    BY <2>1, OpenSame DEF Asks, txVars
  <2>3. \A v \in Uploads : At(v, "row")' <=> At(v, "row")
    BY <2>1 DEF Asks, Moves, At
  <2> QED  BY <2>2, <2>3 DEF OpenWhileInside
<1>2. CASE CreateReceipt(u)
  <2>1. Moves(u, {"accept"}, {"row"}) /\ Opened(u) /\ run' = run
    BY <1>2, UploadEffects
  <2>2. Open' = Open \cup {u}
    BY <2>1, <1>0, Opens
  <2>3. \A v \in Uploads : At(v, "row")' <=> (At(v, "row") \/ v = u)
    BY <2>1 DEF Moves, At
  <2> QED  BY <1>0, <2>1, <2>2, <2>3 DEF OpenWhileInside
<1>3. CASE InsertRow(u) \/ Refuse(u)
  <2>1. Moves(u, {"row"}, {"accepted", "refused"}) /\ Closed(u) /\ run' = run
    BY <1>3, UploadEffects DEF RolledBack, Moves
  <2>2. Open' = Open \ {u}
    BY <2>1, <1>0, Closes
  <2>3. \A v \in Uploads : At(v, "row")' <=> (At(v, "row") /\ v # u)
    BY <2>1 DEF Moves, At
  <2> QED  BY <1>0, <2>1, <2>2, <2>3 DEF OpenWhileInside
<1> QED  BY <1>1, <1>2, <1>3 DEF UploadGoesOn

LEMMA RunStepInside ==
  ASSUME IntakeTyped, OpenWhileInside, NEW w \in Workers,
         RunGoesOn(w) \/ \E u \in Uploads : Process(w, u)
  PROVE  OpenWhileInside'
<1>0. w \in Transactions /\ w \notin Uploads
  BY NotNone DEF Transactions
<1>s. ASSUME UNCHANGED upload PROVE \A v \in Uploads : At(v, "row")' <=> At(v, "row")
  BY <1>s DEF At
<1>1. CASE WorkStep(w)
  <2>1. Works(w)
    BY <1>1, WorkStepWorks
  <2>2. Open' = Open
    BY <2>1, OpenSame DEF Works
  <2>3. /\ \A v \in Workers \ {w} : run'[v] = run[v]
        /\ w \in Open /\ run'[w].pc \in Within /\ run'[w].of = run[w].of /\ run[w].pc \in Within
        /\ UNCHANGED upload
    BY <2>1 DEF Works
  <2>4. run[w].of \in Uploads
    BY <2>3 DEF OpenWhileInside, Within
  <2> QED  BY <2>2, <2>3, <2>4, <1>s DEF OpenWhileInside
<1>2. ASSUME NEW u \in Uploads, Process(w, u) PROVE OpenWhileInside'
  <2>1. /\ OnlyRun(w) /\ Opened(w) /\ run'[w].of = u /\ UNCHANGED upload
        /\ run'[w].pc \in Within
    BY <1>2, RunEffects DEF Within
  <2>2. Open' = Open \cup {w}
    BY <2>1, <1>0, Opens
  <2> QED  BY <1>0, <2>1, <2>2, <1>s DEF OpenWhileInside, OnlyRun
<1>3. CASE Announce(w) \/ StoreFails(w)
  <2>1. OnlyRun(w) /\ Closed(w) /\ w \in Open /\ UNCHANGED upload
    BY <1>3, RunEffects DEF RolledBack
  <2>2. run'[w].pc \in {"idle", "ack"} /\ (run'[w].pc = "ack" => run'[w].of = run[w].of)
    BY <1>3, RunEffects
  <2>3. Open' = Open \ {w}
    BY <2>1, <1>0, Closes
  <2>4. run[w].of \in Uploads
    BY <2>1 DEF OpenWhileInside, Within
  <2> QED  BY <1>0, <2>1, <2>2, <2>3, <2>4, <1>s DEF OpenWhileInside, OnlyRun, Within
<1>4. CASE Settled(w)
  <2>1. OnlyRun(w) /\ run'[w].pc = "idle" /\ run[w].pc = "ack" /\ UNCHANGED <<upload, copy>>
    BY <1>4, RunEffects
  <2>2. Open' = Open
    BY <2>1, OpenSame
  <2> QED  BY <2>1, <2>2, <1>s DEF OpenWhileInside, OnlyRun, Within
<1> QED  BY <1>1, <1>2, <1>3, <1>4 DEF RunGoesOn, WorkStep

(* What a transaction that was alone finds.                                *)
Found(t) ==
  /\ Open = {t}
  /\ copy[t].outboxRows = outboxRows
  /\ t \in Uploads => /\ copy[t].stored = stored /\ copy[t].tally = tally
                      /\ receipts = copy[t].receipts \cup {t}
  /\ t \in Workers => /\ receipts = copy[t].receipts
                      /\ stored = copy[t].stored \cup run[t].fresh
NothingFresh == \A w \in Workers : run[w].pc \in {"session", "create"} => run[w].fresh = {}

LEMMA AloneParts == Alone <=> crowded \subseteq Open /\ (\A t \in Open \ crowded : Found(t)) /\ NothingFresh
BY DEF Alone, Found, NothingFresh

LEMMA UploadStepAlone ==
  ASSUME IntakeTyped, OpenWhileInside, Alone, NEW u \in Uploads, Request(u) \/ UploadGoesOn(u)
  PROVE  Alone'
<1>0. u \in Transactions /\ u \notin Workers
  BY NotNone DEF Transactions
<1>1. CASE Request(u) \/ FindByBatchId(u) \/ FindByCursor(u)
  <2>1. UNCHANGED <<receipts, outboxRows, stored, tally, copy, crowded, run>>
    BY <1>1, AskStepAsks DEF Asks, txVars, sessionVars
  <2>2. Open' = Open
    BY <2>1, OpenSame
  <2> QED  BY <2>1, <2>2 DEF Alone
<1>2. CASE CreateReceipt(u)
  <2>1. /\ Opened(u) /\ receipts' = receipts \cup {u}
        /\ UNCHANGED <<outboxRows, stored, tally, run>>
    BY <1>2, UploadEffects
  <2>2. copy'[u] = Now
    BY <2>1, <1>0, Opens
  <2>3. crowded' \subseteq Open' /\ \A s \in Open' \ crowded' : s = u /\ Open' = {u}
    BY <2>1, <1>0, AloneOpens
  <2>4. Open' = {u} => Found(u)'
    BY <1>0, <2>1, <2>2 DEF Found, Now
  <2>5. NothingFresh'
    BY <2>1, AloneParts DEF NothingFresh
  <2> QED  BY <2>3, <2>4, <2>5 DEF Alone, Found, NothingFresh
<1>3. CASE InsertRow(u) \/ Refuse(u)
  <2>1. Closed(u) /\ run' = run /\ At(u, "row")
    BY <1>3, UploadEffects DEF RolledBack, Moves, At
  <2>2. crowded' \subseteq Open' /\ Open' \ crowded' = {}
    BY <2>1, AloneCloses DEF OpenWhileInside
  <2>3. NothingFresh'
    BY <2>1, AloneParts DEF NothingFresh
  <2> QED  BY <2>2, <2>3 DEF Alone, NothingFresh
<1> QED  BY <1>1, <1>2, <1>3 DEF UploadGoesOn

LEMMA RunStepAlone ==
  ASSUME IntakeTyped, OpenWhileInside, Alone, NEW w \in Workers,
         RunGoesOn(w) \/ \E u \in Uploads : Process(w, u)
  PROVE  Alone'
<1>0. w \in Transactions /\ w \notin Uploads
  BY NotNone DEF Transactions
<1>a. crowded \subseteq Open /\ (\A t \in Open \ crowded : Found(t)) /\ NothingFresh
  BY AloneParts
<1>1. CASE WorkStep(w)
  <2>1. Works(w)
    BY <1>1, WorkStepWorks
  <2>2. Open' = Open /\ crowded' = crowded /\ w \in Open /\ UNCHANGED <<receipts, outboxRows, copy>>
    BY <2>1, OpenSame DEF Works
  <2>3. \A t \in Open \ crowded : t = w
    BY <1>a, <2>2 DEF Found
  <2>4. \E S : stored' = stored \cup S /\ run'[w].fresh = run[w].fresh \cup S
    <3>1. CASE \E e \in EventIds : InsertEvent(w, e)
      BY <3>1, WorkEffects
    <3>2. CASE stored' = stored /\ run'[w].fresh = run[w].fresh
      <4>1. stored' = stored \cup {} /\ run'[w].fresh = run[w].fresh \cup {}
        BY <3>2
      <4> QED  BY <4>1
    <3>3. (\E e \in EventIds : InsertEvent(w, e)) \/ (stored' = stored /\ run'[w].fresh = run[w].fresh)
      BY <1>1, WorkEffects DEF WorkStep
    <3> QED  BY <3>1, <3>2, <3>3
  <2>5. w \in Open \ crowded => Found(w)'
    BY <1>0, <1>a, <2>2, <2>4 DEF Found
  <2>6. NothingFresh'
    <3>1. run'[w].pc \in {"session", "create"} => run[w].pc = "session" /\ run'[w].fresh = run[w].fresh
      BY <1>1, WorkEffects DEF WorkStep
    <3> QED  BY <1>a, <2>1, <3>1 DEF NothingFresh, Works
  <2> QED  BY <1>a, <2>2, <2>3, <2>5, <2>6 DEF Alone, Found, NothingFresh
<1>2. ASSUME NEW u \in Uploads, Process(w, u) PROVE Alone'
  <2>1. /\ OnlyRun(w) /\ Opened(w) /\ run'[w].fresh = {}
        /\ UNCHANGED <<receipts, outboxRows, stored, tally>>
    BY <1>2, RunEffects
  <2>2. copy'[w] = Now
    BY <2>1, <1>0, Opens
  <2>3. crowded' \subseteq Open' /\ \A s \in Open' \ crowded' : s = w /\ Open' = {w}
    BY <2>1, <1>0, AloneOpens
  <2>4. Open' = {w} => Found(w)'
    BY <1>0, <2>1, <2>2 DEF Found, Now
  <2>5. NothingFresh'
    BY <1>a, <2>1 DEF NothingFresh, OnlyRun
  <2> QED  BY <2>3, <2>4, <2>5 DEF Alone, Found, NothingFresh
<1>3. CASE Announce(w) \/ StoreFails(w)
  <2>1. OnlyRun(w) /\ Closed(w) /\ w \in Open /\ run'[w].pc \in {"idle", "ack"}
    BY <1>3, RunEffects DEF RolledBack
  <2>2. crowded' \subseteq Open' /\ Open' \ crowded' = {}
    BY <2>1, AloneCloses
  <2>3. NothingFresh'
    BY <1>a, <2>1 DEF NothingFresh, OnlyRun
  <2> QED  BY <2>2, <2>3 DEF Alone, NothingFresh
<1>4. CASE Settled(w)
  <2>1. /\ OnlyRun(w) /\ run'[w].pc = "idle" /\ run[w].pc = "ack"
        /\ UNCHANGED <<receipts, outboxRows, stored, tally, copy, crowded>>
    BY <1>4, RunEffects
  <2>2. Open' = Open /\ w \notin Open
    BY <2>1, OpenSame DEF OpenWhileInside, Within
  <2>3. NothingFresh'
    BY <1>a, <2>1 DEF NothingFresh, OnlyRun
  <2>4. \A t \in Open \ crowded : Found(t)'
    BY <1>a, <2>1, <2>2 DEF Found, OnlyRun
  <2> QED  BY <1>a, <2>1, <2>2, <2>3, <2>4 DEF Alone, Found, NothingFresh
<1> QED  BY <1>1, <1>2, <1>3, <1>4 DEF RunGoesOn, WorkStep
-----------------------------------------------------------------------------
LEMMA InitKept == IntakeInit => Kept
<1> SUFFICES ASSUME IntakeInit PROVE Kept
  OBVIOUS
<1>1. Open = {}
  BY DEF IntakeInit, Open
<1>2. \A w \in Workers : run[w].pc = "idle"
  BY DEF IntakeInit, Idle
<1>3. \A u \in Uploads : ~At(u, "accepted") /\ job[u] = "none"
  BY DEF IntakeInit, At
<1>4. receipts = {}
  BY DEF IntakeInit
<1> QED  BY <1>1, <1>2, <1>3, <1>4 DEF Kept, ReceiptsKept, EventsKept, Done

(* A rollback nobody else suffered from takes back the transaction's own   *)
(* writes only.                                                            *)
LEMMA LonelyRollback ==
  ASSUME IntakeTyped, OpenWhileInside, Alone, NEW t \in Open, RolledBack(t), "restored" \notin mishaps'
  PROVE  /\ "restored" \notin mishaps /\ mishaps' = mishaps /\ t \in Open \ crowded /\ Found(t)
         /\ Open' = {} /\ outboxRows' = outboxRows /\ receipts' \subseteq receipts
         /\ stored' = copy[t].stored /\ tally' = copy[t].tally
         /\ t \in Uploads => stored' = stored /\ tally' = tally
<1>1. t \notin crowded /\ mishaps' = mishaps
  BY DEF RolledBack
<1>2. Found(t)
  BY <1>1, AloneParts
<1>3. Open' = Open \ {t} /\ t \in Transactions
  BY Closes DEF RolledBack, Open
<1>4. t \in Uploads \/ t \in Workers
  BY <1>3 DEF Transactions
<1> QED  BY <1>1, <1>2, <1>3, <1>4 DEF Found, RolledBack

(* Receipts stay sound if nothing sound is lost and what is new is sound.  *)
LEMMA ReceiptsStay ==
  ASSUME IntakeTyped, ReceiptsKept,
         \A v \in Uploads : BatchOf(v)' = BatchOf(v),
         \A v \in Uploads : Sound(v) => Sound(v)',
         \A v \in receipts' : v \in receipts \/ Sound(v)',
         \A v \in Uploads : job'[v] # "none" => v \in outboxRows',
         \A v \in Uploads : At(v, "accepted")' =>
            \/ At(v, "accepted") /\ upload'[v].of = upload[v].of
            \/ upload'[v].of \in receipts /\ SameContent(BatchOf(v), BatchOf(upload'[v].of))
            \/ upload'[v].of = v /\ v \in outboxRows'
  PROVE  ReceiptsKept'
<1>1. receipts \subseteq Uploads
  BY TypedParts
<1>2. \A v \in receipts' : Sound(v)'
  BY <1>1 DEF ReceiptsKept
<1>3. ASSUME NEW v \in Uploads, At(v, "accepted")'
      PROVE  /\ upload'[v].of \in Uploads
             /\ SameContent(BatchOf(v), BatchOf(upload'[v].of))
             /\ Sound(upload'[v].of) \/ upload'[v].of \in outboxRows'
  <2>1. CASE At(v, "accepted") /\ upload'[v].of = upload[v].of
    BY <2>1 DEF ReceiptsKept
  <2>2. CASE upload'[v].of \in receipts /\ SameContent(BatchOf(v), BatchOf(upload'[v].of))
    BY <2>2, <1>1 DEF ReceiptsKept
  <2>3. CASE upload'[v].of = v /\ v \in outboxRows'
    BY <2>3 DEF SameContent
  <2> QED  BY <1>3, <2>1, <2>2, <2>3
<1>4. ASSUME NEW v \in Uploads, At(v, "accepted")'
      PROVE  /\ upload'[v].of \in Uploads
             /\ SameContent(BatchOf(v), BatchOf(upload[v].of))'
             /\ Sound(upload[v].of)'
  <2>1. PICK x \in Uploads : x = upload'[v].of
    BY <1>3, <1>4
  <2>2. BatchOf(v)' = BatchOf(v) /\ BatchOf(x)' = BatchOf(x)
    BY <2>1
  <2>3. BatchOf(upload[v].of)' = BatchOf(x)'
    BY <2>1 DEF BatchOf
  <2>4. SameContent(BatchOf(v), BatchOf(upload[v].of))'
    BY <1>3, <1>4, <2>1, <2>2, <2>3 DEF SameContent
  <2>5. Sound(x)'
    BY <1>3, <1>4, <2>1 DEF Sound
  <2> QED  BY <2>1, <2>4, <2>5 DEF Sound, At
<1> QED  BY <1>2, <1>4 DEF ReceiptsKept

LEMMA UploadStepReceipts ==
  ASSUME IntakeTyped, OpenWhileInside, Alone, ReceiptsKept, NEW u \in Uploads,
         Request(u) \/ UploadGoesOn(u), "restored" \notin mishaps'
  PROVE  ReceiptsKept'
<1>b. ASSUME NEW from, NEW to, Moves(u, from, to)
      PROVE  /\ \A v \in Uploads : BatchOf(v)' = BatchOf(v)
             /\ \A v \in Uploads \ {u} : upload'[v] = upload[v]
             /\ upload[u].pc \in from /\ upload'[u].pc \in to
  BY <1>b DEF Moves, BatchOf
<1>j. \A v \in Uploads : job[v] # "none" => v \in outboxRows
  BY DEF ReceiptsKept
<1>1. CASE Request(u) \/ FindByBatchId(u) \/ FindByCursor(u)
  <2>1. Asks(u)
    BY <1>1, AskStepAsks
  <2>2. UNCHANGED <<receipts, outboxRows, job>>
    BY <2>1 DEF Asks, jobVars
  <2>3. /\ \A v \in Uploads : BatchOf(v)' = BatchOf(v)
        /\ \A v \in Uploads \ {u} : upload'[v] = upload[v]
        /\ upload[u].pc \notin {"row", "refused"}
    BY <2>1, <1>b DEF Asks
  <2>4. \A v \in Uploads : Sound(v) => Sound(v)'
    BY <2>2, <2>3 DEF Sound, At
  <2>5. \A v \in Uploads : At(v, "accepted")' =>
            \/ At(v, "accepted") /\ upload'[v].of = upload[v].of
            \/ upload'[v].of \in receipts /\ SameContent(BatchOf(v), BatchOf(upload'[v].of))
    BY <2>1, <2>3 DEF Asks, At
  <2> QED  BY <2>2, <2>3, <2>4, <2>5, <1>j, ReceiptsStay
<1>2. CASE CreateReceipt(u)
  <2>1. /\ Moves(u, {"accept"}, {"row"}) /\ receipts' = receipts \cup {u}
        /\ UNCHANGED <<outboxRows, job>>
    BY <1>2, UploadEffects
  <2>2. /\ \A v \in Uploads : BatchOf(v)' = BatchOf(v)
        /\ \A v \in Uploads \ {u} : upload'[v] = upload[v]
        /\ upload[u].pc = "accept" /\ upload'[u].pc = "row"
    BY <2>1, <1>b
  <2>3. \A v \in Uploads : (Sound(v) \/ v = u) => Sound(v)'
    BY <2>1, <2>2 DEF Sound, At
  <2>4. \A v \in Uploads : At(v, "accepted")' => At(v, "accepted") /\ upload'[v].of = upload[v].of
    BY <2>2 DEF At
  <2> QED  BY <2>1, <2>2, <2>3, <2>4, <1>j, ReceiptsStay
<1>3. CASE InsertRow(u)
  <2>1. /\ Moves(u, {"row"}, {"accepted"}) /\ upload'[u].of = u /\ outboxRows' = outboxRows \cup {u}
        /\ UNCHANGED <<receipts, job>>
    BY <1>3, UploadEffects
  <2>2. /\ \A v \in Uploads : BatchOf(v)' = BatchOf(v)
        /\ \A v \in Uploads \ {u} : upload'[v] = upload[v]
        /\ upload[u].pc = "row" /\ upload'[u].pc = "accepted"
    BY <2>1, <1>b
  <2>3. \A v \in Uploads : Sound(v) => Sound(v)'
    BY <2>1, <2>2 DEF Sound, At
  <2>4. \A v \in Uploads : At(v, "accepted")' =>
            \/ At(v, "accepted") /\ upload'[v].of = upload[v].of
            \/ upload'[v].of = v /\ v \in outboxRows'
    BY <2>1, <2>2 DEF At
  <2> QED  BY <2>1, <2>2, <2>3, <2>4, <1>j, ReceiptsStay
<1>4. CASE Refuse(u)
  <2>1. Moves(u, {"row"}, {"refused"}) /\ RolledBack(u) /\ UNCHANGED job
    BY <1>4, UploadEffects
  <2>2. /\ \A v \in Uploads : BatchOf(v)' = BatchOf(v)
        /\ \A v \in Uploads \ {u} : upload'[v] = upload[v]
        /\ upload[u].pc = "row" /\ upload'[u].pc = "refused"
    BY <2>1, <1>b
  <2>3. u \in Open
    BY <2>2 DEF OpenWhileInside, At
  <2>4. outboxRows' = outboxRows /\ receipts' \subseteq receipts
    BY <2>1, <2>3, LonelyRollback
  <2>5. \A v \in Uploads : Sound(v) => Sound(v)'
    BY <2>2, <2>4 DEF Sound, At
  <2>6. \A v \in Uploads : At(v, "accepted")' => At(v, "accepted") /\ upload'[v].of = upload[v].of
    BY <2>2 DEF At
  <2> QED  BY <2>1, <2>2, <2>4, <2>5, <2>6, <1>j, ReceiptsStay
<1> QED  BY <1>1, <1>2, <1>3, <1>4 DEF UploadGoesOn

LEMMA RunStepReceipts ==
  ASSUME IntakeTyped, OpenWhileInside, Alone, ReceiptsKept, NEW w \in Workers,
         RunGoesOn(w) \/ \E u \in Uploads : Process(w, u), "restored" \notin mishaps'
  PROVE  ReceiptsKept'
<1>1. /\ UNCHANGED upload
      /\ \A u \in Uploads : job'[u] # "none" => job[u] # "none"
      /\ outboxRows' = outboxRows /\ receipts' \subseteq receipts
  <2>1. CASE WorkStep(w)
    BY <2>1, WorkStepWorks DEF Works
  <2>2. CASE \E u \in Uploads : Process(w, u)
    BY <2>2, RunEffects
  <2>3. CASE Announce(w)
    BY <2>3, RunEffects
  <2>4. CASE Settled(w)
    BY <2>4, RunEffects
  <2>5. CASE StoreFails(w)
    <3>1. w \in Open /\ RolledBack(w)
      BY <2>5, RunEffects
    <3> QED  BY <2>5, <3>1, RunEffects, LonelyRollback
  <2> QED  BY <2>1, <2>2, <2>3, <2>4, <2>5 DEF RunGoesOn, WorkStep
<1>2. /\ \A v \in Uploads : BatchOf(v)' = BatchOf(v)
      /\ \A v \in Uploads : Sound(v) => Sound(v)'
      /\ \A v \in Uploads : At(v, "accepted")' => At(v, "accepted") /\ upload'[v].of = upload[v].of
  BY <1>1 DEF BatchOf, Sound, At
<1>3. \A v \in Uploads : job'[v] # "none" => v \in outboxRows'
  BY <1>1 DEF ReceiptsKept
<1> QED  BY <1>1, <1>2, <1>3, ReceiptsStay

(* What a handler inside its transaction has and has still to do, and what *)
(* is stored of a batch whose handler is done.                             *)
Handled(w) ==
  /\ BatchOf(run[w].of).events \subseteq stored \cup run[w].todo
  /\ run[w].fresh \subseteq stored
  /\ run[w].pc \in {"write", "announce"} => run[w].todo = {}
Safe(u) ==
  /\ BatchOf(u).events \subseteq stored
  /\ \A t \in Open \ crowded : BatchOf(u).events \subseteq copy[t].stored

LEMMA EventsParts ==
  EventsKept <=> /\ \A w \in Open \cap Workers : Handled(w)
                 /\ \A u \in Uploads : Done(u) => Safe(u)
BY DEF EventsKept, Handled, Safe

LEMMA UploadStepEvents ==
  ASSUME IntakeTyped, OpenWhileInside, Alone, EventsKept, NEW u \in Uploads,
         Request(u) \/ UploadGoesOn(u), "restored" \notin mishaps'
  PROVE  EventsKept'
<1>0. u \in Transactions /\ u \notin Workers
  BY NotNone DEF Transactions
<1>1. /\ UNCHANGED <<run, job, stored>> /\ \A v \in Uploads : BatchOf(v)' = BatchOf(v)
      /\ (Open \cap Workers)' = Open \cap Workers
      /\ \A t \in Open' \ crowded' : copy'[t].stored = stored \/ (t \in Open \ crowded /\ copy'[t] = copy[t])
  <2>b. ASSUME NEW from, NEW to, Moves(u, from, to)
        PROVE  (\A v \in Uploads : BatchOf(v)' = BatchOf(v)) /\ upload[u].pc \in from
    BY <2>b DEF Moves, BatchOf
  <2>1. CASE Request(u) \/ FindByBatchId(u) \/ FindByCursor(u)
    <3>1. Asks(u)
      BY <2>1, AskStepAsks
    <3> QED  BY <3>1, <2>b, OpenSame DEF Asks, txVars, sessionVars, jobVars, Workers
  <2>2. CASE CreateReceipt(u)
    <3>1. Moves(u, {"accept"}, {"row"}) /\ Opened(u) /\ UNCHANGED <<run, job, stored>>
      BY <2>2, UploadEffects
    <3>2. Open' = Open \cup {u} /\ copy'[u] = Now
      BY <3>1, <1>0, Opens
    <3>3. \A s \in Open' \ crowded' : s = u
      BY <3>1, <1>0, AloneOpens
    <3> QED  BY <1>0, <2>b, <3>1, <3>2, <3>3 DEF Now, Workers
  <2>3. CASE InsertRow(u) \/ Refuse(u)
    <3>1. Moves(u, {"row"}, {"accepted", "refused"}) /\ Closed(u) /\ UNCHANGED <<run, job>>
      BY <2>3, UploadEffects DEF RolledBack, Moves
    <3>2. u \in Open
      BY <3>1 DEF Moves, OpenWhileInside, At
    <3>3. stored' = stored
      BY <2>3, <3>2, UploadEffects, LonelyRollback
    <3>4. Open' = Open \ {u} /\ Open' \ crowded' = {}
      BY <3>1, <3>2, <1>0, Closes, AloneCloses
    <3> QED  BY <1>0, <2>b, <3>1, <3>3, <3>4 DEF Workers
  <2> QED  BY <2>1, <2>2, <2>3 DEF UploadGoesOn
<1>2. ASSUME NEW w \in (Open \cap Workers)' PROVE Handled(w)'
  <2>1. w \in Open \cap Workers
    BY <1>1, <1>2
  <2>2. PICK v \in Uploads : v = run[w].of
    BY <2>1 DEF OpenWhileInside, Within
  <2>3. BatchOf(run[w].of)' = BatchOf(run[w].of)
    BY <1>1, <2>2 DEF BatchOf
  <2> QED  BY <1>1, <2>1, <2>3, EventsParts DEF Handled
<1>3. ASSUME NEW v \in Uploads, Done(v)' PROVE Safe(v)'
  <2>1. Safe(v)
    BY <1>1, <1>3, EventsParts DEF Done, Workers
  <2> QED  BY <1>1, <2>1 DEF Safe
<1> QED  BY <1>2, <1>3 DEF EventsKept, Handled, Safe

LEMMA RunStepEvents ==
  ASSUME IntakeTyped, OpenWhileInside, Alone, EventsKept, NEW w \in Workers,
         RunGoesOn(w) \/ \E u \in Uploads : Process(w, u), "restored" \notin mishaps'
  PROVE  EventsKept'
<1>0. w \in Transactions
  BY DEF Transactions
<1>e. (\A v \in Open \cap Workers : Handled(v)) /\ \A u \in Uploads : Done(u) => Safe(u)
  BY EventsParts
<1>b. ASSUME UNCHANGED upload PROVE \A v \in Uploads : BatchOf(v)' = BatchOf(v)
  BY <1>b DEF BatchOf
<1>f. \A v \in Open \cap Workers : run[v].of \in Uploads
  BY DEF OpenWhileInside, Within
<1>o. ASSUME UNCHANGED upload, OnlyRun(w), stored \subseteq stored', NEW v \in (Open \cap Workers) \ {w}
      PROVE  Handled(v)'
  <2>1. run'[v] = run[v] /\ run[v].of \in Uploads /\ BatchOf(run[v].of)' = BatchOf(run[v].of)
    BY <1>o, <1>f DEF OnlyRun, BatchOf
  <2>2. Handled(v)
    BY <1>e
  <2> QED  BY <1>o, <2>1, <2>2 DEF Handled
<1>1. CASE WorkStep(w)
  <2>1. Works(w)
    BY <1>1, WorkStepWorks
  <2>2. /\ UNCHANGED <<upload, copy, crowded, job>> /\ OnlyRun(w) /\ w \in Open
        /\ run'[w].of = run[w].of /\ run[w].pc # "ack" /\ run'[w].pc # "ack"
    BY <2>1 DEF Works, OnlyRun, Within
  <2>3. Open' = Open
    BY <2>2, OpenSame
  <2>4. stored \subseteq stored'
    BY <1>1, WorkEffects DEF WorkStep
  <2>5. Handled(w)'
    <3>1. Handled(w)
      BY <1>e, <2>2
    <3>2. BatchOf(run[w].of)' = BatchOf(run[w].of)
      BY <2>2, <1>f DEF BatchOf
    <3>3. /\ stored \cup run[w].todo \subseteq stored' \cup run'[w].todo
          /\ run[w].fresh \subseteq stored => run'[w].fresh \subseteq stored'
      BY <1>1, WorkEffects DEF WorkStep
    <3>4. run'[w].pc \in {"write", "announce"} =>
            run'[w].todo = run[w].todo /\ (run[w].todo = {} \/ run[w].pc = "write")
      BY <1>1, WorkEffects DEF WorkStep
    <3>5. BatchOf(run[w].of).events \subseteq stored' \cup run'[w].todo
      BY <3>1, <3>3 DEF Handled
    <3>6. run'[w].fresh \subseteq stored'
      BY <3>1, <3>3 DEF Handled
    <3>7. run'[w].pc \in {"write", "announce"} => run'[w].todo = {}
      BY <3>1, <3>4 DEF Handled
    <3> QED  BY <2>2, <3>2, <3>5, <3>6, <3>7 DEF Handled
  <2>6. ASSUME NEW v \in Uploads, Done(v)' PROVE Safe(v)'
    <3>1. Done(v)
      BY <2>2, <2>6 DEF Done, OnlyRun, Workers
    <3>2. BatchOf(v)' = BatchOf(v)
      BY <2>2, <1>b
    <3> QED  BY <1>e, <2>2, <2>3, <2>4, <3>1, <3>2 DEF Safe
  <2> QED  BY <1>o, <2>2, <2>3, <2>4, <2>5, <2>6 DEF EventsKept, Handled, Safe, Workers
<1>2. ASSUME NEW u \in Uploads, Process(w, u) PROVE EventsKept'
  <2>1. /\ OnlyRun(w) /\ Opened(w) /\ run[w].pc = "idle" /\ run'[w].pc \in {"session", "events"}
        /\ run'[w].of = u /\ run'[w].todo = BatchOf(u).events /\ run'[w].fresh = {}
        /\ UNCHANGED <<upload, stored, job>>
    BY <1>2, RunEffects
  <2>2. Open' = Open \cup {w} /\ copy'[w] = Now
    BY <2>1, <1>0, Opens
  <2>3. \A s \in Open' \ crowded' : s = w
    BY <2>1, <1>0, AloneOpens
  <2>4. Handled(w)'
    BY <2>1 DEF Handled, BatchOf
  <2>5. ASSUME NEW v \in Uploads, Done(v)' PROVE Safe(v)'
    <3>1. Done(v)
      BY <2>1, <2>5 DEF Done, OnlyRun, Workers
    <3>2. BatchOf(v)' = BatchOf(v)
      BY <2>1, <1>b
    <3> QED  BY <1>e, <2>1, <2>2, <2>3, <3>1, <3>2 DEF Safe, Now
  <2> QED  BY <1>o, <2>1, <2>2, <2>4, <2>5 DEF EventsKept, Handled, Safe, Workers
<1>3. CASE Announce(w)
  <2>1. /\ OnlyRun(w) /\ Closed(w) /\ w \in Open /\ UNCHANGED <<upload, stored, job>>
        /\ run[w].pc = "announce" \/ run[w].todo = {}
        /\ run'[w].pc = "ack" /\ run'[w].of = run[w].of
    BY <1>3, RunEffects
  <2>2. Open' = Open \ {w} /\ Open' \ crowded' = {}
    BY <2>1, <1>0, Closes, AloneCloses
  <2>3. Handled(w)
    BY <1>e, <2>1
  <2>4. BatchOf(run[w].of).events \subseteq stored
    BY <2>1, <2>3 DEF Handled
  <2>5. ASSUME NEW v \in Uploads, Done(v)' PROVE Safe(v)'
    <3>1. Done(v) \/ v = run[w].of
      BY <2>1, <2>5 DEF Done, OnlyRun, Workers
    <3>2. BatchOf(v)' = BatchOf(v)
      BY <2>1, <1>b
    <3>3. BatchOf(v).events \subseteq stored
      BY <1>e, <2>4, <3>1 DEF Safe
    <3> QED  BY <2>1, <2>2, <3>2, <3>3 DEF Safe
  <2> QED  BY <1>o, <2>1, <2>2, <2>5 DEF EventsKept, Handled, Safe, Workers
<1>4. CASE Settled(w)
  <2>1. /\ OnlyRun(w) /\ run[w].pc = "ack" /\ run'[w].pc = "idle"
        /\ \A u \in Uploads : job'[u] = "acked" => job[u] = "acked" \/ run[w].of = u
        /\ UNCHANGED <<upload, stored, copy, crowded>>
    BY <1>4, RunEffects
  <2>2. Open' = Open /\ w \notin Open
    BY <2>1, OpenSame DEF OpenWhileInside, Within
  <2>3. ASSUME NEW v \in Uploads, Done(v)' PROVE Safe(v)'
    <3>1. Done(v)
      BY <2>1, <2>3 DEF Done, OnlyRun, Workers
    <3>2. BatchOf(v)' = BatchOf(v)
      BY <2>1, <1>b
    <3> QED  BY <1>e, <2>1, <2>2, <3>1, <3>2 DEF Safe
  <2> QED  BY <1>o, <2>1, <2>2, <2>3 DEF EventsKept, Handled, Safe, Workers
<1>5. CASE StoreFails(w)
  <2>1. /\ OnlyRun(w) /\ w \in Open /\ RolledBack(w) /\ run'[w].pc = "idle" /\ UNCHANGED upload
        /\ \A u \in Uploads : job'[u] = "acked" => job[u] = "acked"
    BY <1>5, RunEffects
  <2>2. w \in Open \ crowded /\ Open' = {} /\ stored' = copy[w].stored
    BY <2>1, LonelyRollback
  <2>3. ASSUME NEW v \in Uploads, Done(v)' PROVE Safe(v)'
    <3>1. Done(v)
      BY <2>1, <2>3 DEF Done, OnlyRun, Workers
    <3>2. BatchOf(v)' = BatchOf(v)
      BY <2>1, <1>b
    <3> QED  BY <1>e, <2>2, <3>1, <3>2 DEF Safe
  <2> QED  BY <2>2, <2>3 DEF EventsKept, Handled, Safe
<1> QED  BY <1>1, <1>2, <1>3, <1>4, <1>5 DEF RunGoesOn, WorkStep
-----------------------------------------------------------------------------
LEMMA InitCounted == IntakeInit => CountKept
<1> SUFFICES ASSUME IntakeInit PROVE Counted
  BY DEF CountKept
<1>1. Open = {}
  BY DEF IntakeInit, Open
<1>2. Cardinality(stored) = 0
  BY FS_EmptySet DEF IntakeInit
<1>3. Total(tally) = 0
  BY TotalIs DEF IntakeInit, Absent
<1> QED  BY <1>1, <1>2, <1>3 DEF Counted

LEMMA UploadStepCounts ==
  ASSUME IntakeTyped, OpenWhileInside, Alone, Counted, NEW u \in Uploads,
         Request(u) \/ UploadGoesOn(u), mishaps' = {}
  PROVE  Counted'
<1>0. u \in Transactions /\ u \notin Workers
  BY NotNone DEF Transactions
<1>1. /\ UNCHANGED <<run, stored, tally>> /\ (Open \cap Workers)' = Open \cap Workers
      /\ \A t \in Open' \ crowded' : (Open = {} /\ copy'[t] = Now) \/ (t \in Open \ crowded /\ copy'[t] = copy[t])
  <2>1. CASE Request(u) \/ FindByBatchId(u) \/ FindByCursor(u)
    <3>1. Asks(u)
      BY <2>1, AskStepAsks
    <3> QED  BY <3>1, OpenSame DEF Asks, txVars, sessionVars, Workers
  <2>2. CASE CreateReceipt(u)
    <3>1. Opened(u) /\ UNCHANGED <<run, stored, tally>>
      BY <2>2, UploadEffects
    <3>2. Open' = Open \cup {u} /\ copy'[u] = Now
      BY <3>1, <1>0, Opens
    <3>3. \A s \in Open' \ crowded' : s = u /\ Open = {}
      BY <3>1, <1>0, AloneOpens
    <3> QED  BY <1>0, <3>1, <3>2, <3>3 DEF Workers
  <2>3. CASE InsertRow(u) \/ Refuse(u)
    <3>1. Moves(u, {"row"}, {"accepted", "refused"}) /\ Closed(u) /\ UNCHANGED run
      BY <2>3, UploadEffects DEF RolledBack, Moves
    <3>2. u \in Open
      BY <3>1 DEF Moves, OpenWhileInside, At
    <3>3. stored' = stored /\ tally' = tally
      BY <2>3, <3>2, UploadEffects, LonelyRollback
    <3>4. Open' = Open \ {u} /\ Open' \ crowded' = {}
      BY <3>1, <3>2, <1>0, Closes, AloneCloses
    <3> QED  BY <1>0, <3>1, <3>3, <3>4 DEF Workers
  <2> QED  BY <2>1, <2>2, <2>3 DEF UploadGoesOn
<1>2. \A w \in Open \cap Workers : Counts(w)'
  BY <1>1 DEF Counted, Counts, NextEvent, Total
<1>3. ASSUME NEW t \in Open' \ crowded' PROVE Cardinality(copy'[t].stored) = Total(copy'[t].tally)
  <2>1. CASE Open = {} /\ copy'[t] = Now
    BY <2>1 DEF Counted, Now
  <2>2. CASE t \in Open \ crowded /\ copy'[t] = copy[t]
    BY <2>2 DEF Counted
  <2> QED  BY <1>1, <1>3, <2>1, <2>2
<1> QED  BY <1>1, <1>2, <1>3 DEF Counted, Counts, Total, Workers

LEMMA WorkStepCounts ==
  ASSUME IntakeTyped, OpenWhileInside, Counted, NEW w \in Workers, w \in Open, WorkStep(w)
  PROVE  Counts(w)'
<1>c. Counts(w)
  BY DEF Counted
<1>t. /\ tally \in Nat \cup {Absent} /\ run[w].fresh \in FinEvents /\ stored \in FinEvents
      /\ run[w].base \in Nat /\ run[w].todo \subseteq EventIds
  BY TypedParts
<1>n. /\ Cardinality(run[w].fresh) \in Nat /\ Cardinality(stored) \in Nat
      /\ IsFiniteSet(run[w].fresh) /\ IsFiniteSet(stored)
  BY <1>t, FS_CardinalityType DEF FinEvents
<1>z. Total(tally) = IF tally = Absent THEN 0 ELSE tally
  BY <1>t, TotalIs
<1>0. Total(0) = 0 /\ \A n \in Nat : Total(n) = n
  BY TotalIs DEF Absent
<1>T. Total(tally)' = Total(tally')
  BY DEF Total
<1>1. CASE FindSession(w)
  BY <1>1, <1>c, <1>T, WorkEffects DEF Counts
<1>2. CASE CreateSession(w)
  <2>1. Total(tally) = 0 /\ Total(tally') = 0
    BY <1>2, <1>c, <1>z, <1>0, WorkEffects DEF Counts
  <2> QED  BY <1>2, <1>c, <1>T, <2>1, WorkEffects DEF Counts
<1>3. CASE ReadSession(w)
  <2>1. Total(tally) \in Nat
    BY <1>t, <1>z
  <2>2. Total(tally') = Total(tally)
    BY <1>3, <2>1, <1>0, WorkEffects
  <2> QED  BY <1>3, <1>c, <1>T, <2>2, WorkEffects DEF Counts
<1>4. CASE WriteCount(w)
  <2>1. run[w].pc = "write" /\ tally = run[w].base
    BY <1>4, <1>c, WorkEffects DEF Counts
  <2>2. tally \in Nat /\ tally # Absent
    BY <2>1, <1>t DEF Absent
  <2>3. tally' = tally + Cardinality(run[w].fresh)
    BY <1>4, <2>1, <2>2, WorkEffects
  <2>4. Cardinality(stored) = tally + Cardinality(run[w].fresh)
    BY <1>c, <2>1, <2>2, <1>z DEF Counts
  <2>5. Total(tally') = tally'
    BY <2>2, <2>3, <1>n, <1>0
  <2> QED  BY <1>4, <1>c, <1>T, <2>3, <2>4, <2>5, WorkEffects DEF Counts
<1>5. ASSUME NEW e \in EventIds, FindEvent(w, e) PROVE Counts(w)'
  <2>1. /\ run[w].pc = "events" /\ run'[w].fresh = run[w].fresh /\ UNCHANGED <<stored, tally>>
        /\ run'[w].pc \in {"events", "insert"}
        /\ run'[w].pc = "insert" => e \notin stored /\ run'[w].todo = run[w].todo
    BY <1>5, WorkEffects
  <2>2. EventIds \subseteq Nat
    BY IngestionAssumption DEF EventIds
  <2>3. ASSUME NEW f \in EventIds, NextEvent(w, f)', run'[w].pc = "insert" PROVE f \notin stored'
    <3>1. e \in run[w].todo /\ \A x \in run[w].todo : e <= x
      BY <1>5 DEF FindEvent, NextEvent
    <3>2. f \in run[w].todo /\ \A x \in run[w].todo : f <= x
      BY <2>1, <2>3 DEF NextEvent
    <3>3. e <= f /\ f <= e
      BY <3>1, <3>2
    <3>4. e = f
      BY <3>3, <2>2
    <3> QED  BY <3>4, <2>1, <2>3
  <2> QED  BY <1>c, <1>T, <2>1, <2>3 DEF Counts
<1>6. ASSUME NEW e \in EventIds, InsertEvent(w, e) PROVE Counts(w)'
  <2>1. /\ run[w].pc = "insert" /\ run'[w].pc = "events" /\ run'[w].fresh = run[w].fresh \cup {e}
        /\ stored' = stored \cup {e} /\ UNCHANGED tally
    BY <1>6, WorkEffects
  <2>2. NextEvent(w, e)
    BY <1>6 DEF InsertEvent
  <2>3. e \notin stored /\ e \notin run[w].fresh
    BY <1>c, <2>1, <2>2 DEF Counts
  <2>4. Cardinality(stored \cup {e}) = Cardinality(stored) + 1
    BY <2>3, <1>n, FS_AddElement
  <2>5. Cardinality(run[w].fresh \cup {e}) = Cardinality(run[w].fresh) + 1
    BY <2>3, <1>n, FS_AddElement
  <2>6. Total(tally) \in Nat
    BY <1>t, <1>z
  <2>7. Cardinality(stored) = Total(tally) + Cardinality(run[w].fresh) /\ run[w].fresh \subseteq stored
    BY <1>c, <2>1 DEF Counts
  <2>8. Cardinality(stored') = Total(tally') + Cardinality(run'[w].fresh)
    <3>1. Cardinality(stored) + 1 = Total(tally) + (Cardinality(run[w].fresh) + 1)
      BY <2>6, <2>7, <1>n
    <3> QED  BY <3>1, <2>1, <2>4, <2>5
  <2> QED  BY <1>T, <2>1, <2>7, <2>8 DEF Counts
<1> QED  BY <1>1, <1>2, <1>3, <1>4, <1>5, <1>6 DEF WorkStep

LEMMA RunStepCounts ==
  ASSUME IntakeTyped, OpenWhileInside, Alone, Counted, NEW w \in Workers,
         RunGoesOn(w) \/ \E u \in Uploads : Process(w, u), mishaps' = {}
  PROVE  Counted'
<1>0. w \in Transactions
  BY DEF Transactions
<1>1. CASE WorkStep(w)
  <2>1. Works(w)
    BY <1>1, WorkStepWorks
  <2>2. UNCHANGED <<copy, crowded>> /\ w \in Open /\ Open' = Open
    BY <2>1, OpenSame DEF Works
  <2>3. \A v \in Open \cap Workers : v = w
    BY <2>2 DEF Counted
  <2>4. Counts(w)'
    BY <1>1, <2>2, WorkStepCounts
  <2>5. \A t \in Open \ crowded : Cardinality(copy[t].stored) = Total(copy[t].tally)
    BY DEF Counted
  <2> QED  BY <2>2, <2>3, <2>4, <2>5 DEF Counted, Counts, Workers, Total
<1>2. ASSUME NEW u \in Uploads, Process(w, u) PROVE Counted'
  <2>1. /\ Opened(w) /\ run'[w].pc \in {"session", "events"} /\ run'[w].fresh = {}
        /\ UNCHANGED <<stored, tally>>
        /\ mishaps' = (IF StorageOpen THEN mishaps \cup {"raced"} ELSE mishaps)
    BY <1>2, RunEffects
  <2>2. Open \cap Workers = {}
    BY <2>1 DEF StorageOpen
  <2>3. Open' = Open \cup {w} /\ copy'[w] = Now
    BY <2>1, <1>0, Opens
  <2>4. \A s \in Open' \ crowded' : s = w
    BY <2>1, <1>0, AloneOpens
  <2>5. Cardinality(stored) = Total(tally) /\ Cardinality(stored) \in Nat
    BY <2>2, TypedParts, FS_CardinalityType DEF Counted, FinEvents
  <2>6. Cardinality(stored) = Total(tally) + Cardinality({})
    BY <2>5, FS_EmptySet
  <2>7. Counts(w)'
    BY <2>1, <2>6 DEF Counts, Total
  <2>8. (Open \cap Workers)' = {w}
    BY <2>2, <2>3 DEF Workers
  <2> QED  BY <2>3, <2>4, <2>5, <2>7, <2>8 DEF Counted, Counts, Now, Total
<1>3. CASE Announce(w)
  <2>1. /\ Closed(w) /\ w \in Open /\ UNCHANGED <<stored, tally>>
        /\ run[w].pc = "announce" \/ (run[w].pc = "events" /\ run[w].fresh = {})
    BY <1>3, RunEffects
  <2>2. Open' = Open \ {w} /\ Open' \ crowded' = {}
    BY <2>1, <1>0, Closes, AloneCloses
  <2>3. (Open \cap Workers)' = {}
    BY <2>1, <2>2 DEF Counted, Workers
  <2>4. Cardinality({}) = 0 /\ Total(tally) \in Nat
    <3>1. tally \in Nat \cup {Absent}
      BY TypedParts
    <3>2. Total(tally) \in Nat
      BY <3>1, TotalIs
    <3> QED  BY <3>2, FS_EmptySet
  <2>5. Counts(w)
    BY <2>1 DEF Counted
  <2>6. Cardinality(stored) = Total(tally)
    BY <2>1, <2>4, <2>5 DEF Counts
  <2> QED  BY <2>1, <2>2, <2>3, <2>6 DEF Counted, Counts, Total
<1>4. CASE Settled(w)
  <2>1. /\ OnlyRun(w) /\ run[w].pc = "ack" /\ UNCHANGED <<stored, tally, copy, crowded>>
    BY <1>4, RunEffects
  <2>2. Open' = Open /\ w \notin Open
    BY <2>1, OpenSame DEF OpenWhileInside, Within
  <2>3. \A v \in Open \cap Workers : Counts(v)'
    BY <2>1, <2>2 DEF OnlyRun, Counted, Counts, NextEvent, Total
  <2> QED  BY <2>1, <2>2, <2>3 DEF Counted, Counts, Total, Workers
<1>5. CASE StoreFails(w)
  <2>1. w \in Open /\ RolledBack(w)
    BY <1>5, RunEffects
  <2>2. w \in Open \ crowded /\ Open' = {} /\ stored' = copy[w].stored /\ tally' = copy[w].tally
    BY <2>1, LonelyRollback
  <2> QED  BY <2>2 DEF Counted, Counts, Total
<1> QED  BY <1>1, <1>2, <1>3, <1>4, <1>5 DEF RunGoesOn, WorkStep
-----------------------------------------------------------------------------
LEMMA InitIntakeInv == IntakeInit => IntakeInv
BY InitTyped, InitShaped, InitKept, InitCounted DEF IntakeInv

LEMMA DeliverKeeps ==
  ASSUME IntakeInv, NEW u \in Uploads, Deliver(u)
  PROVE  IntakeInv'
<1> USE DEF uploadVars, sessionVars, txVars
<1>1. IntakeTyped'
  BY JobStepTyped DEF IntakeInv
<1>2. /\ UNCHANGED <<upload, receipts, outboxRows, stored, tally, copy, crowded, mishaps, run>>
      /\ u \in outboxRows /\ job' = [job EXCEPT ![u] = "queued"] /\ job \in [Uploads -> {"none", "queued", "acked", "dead"}]
  BY DEF Deliver, IntakeInv, IntakeTyped
<1>3. Open' = Open
  BY <1>2, OpenSame
<1>4. OpenWhileInside'
  BY <1>2, <1>3 DEF IntakeInv, OpenWhileInside, At
<1>5. Alone'
  BY <1>2, <1>3 DEF IntakeInv, Alone
<1>6. ASSUME "restored" \notin mishaps PROVE (ReceiptsKept /\ EventsKept)'
  <2>1. ReceiptsKept /\ EventsKept
    BY <1>6 DEF IntakeInv, Kept
  <2>2. \A v \in Uploads : /\ job'[v] # "none" => job[v] # "none" \/ v = u
                           /\ job'[v] = "acked" => job[v] = "acked"
    BY <1>2
  <2>3. \A v \in Uploads : BatchOf(v)' = BatchOf(v) /\ (Sound(v)' <=> Sound(v)) /\ (At(v, "accepted")' <=> At(v, "accepted"))
    BY <1>2 DEF BatchOf, Sound, At
  <2>4. ReceiptsKept'
    BY <1>2, <2>1, <2>2, <2>3, ReceiptsStay DEF IntakeInv, ReceiptsKept
  <2>5. \A w \in Open \cap Workers : Handled(w)'
    BY <1>2, <2>1, EventsParts DEF Handled, BatchOf
  <2>6. ASSUME NEW v \in Uploads, Done(v)' PROVE Safe(v)'
    <3>1. Done(v)
      BY <1>2, <2>2, <2>6 DEF Done, Workers
    <3> QED  BY <1>2, <1>3, <2>1, <2>3, <3>1, EventsParts DEF Safe
  <2> QED  BY <1>3, <2>4, <2>5, <2>6 DEF EventsKept, Handled, Safe, Workers
<1>7. Kept'
  BY <1>2, <1>6 DEF Kept
<1>8. CountKept'
  BY <1>2, <1>3 DEF IntakeInv, CountKept, Counted, Counts, NextEvent, Total, Workers
<1> QED  BY <1>1, <1>4, <1>5, <1>7, <1>8 DEF IntakeInv

LEMMA MishapsStay ==
  ASSUME IntakeTyped, OpenWhileInside,
         \/ \E u \in Uploads : Request(u) \/ UploadGoesOn(u)
         \/ \E w \in Workers : RunGoesOn(w) \/ \E u \in Uploads : Process(w, u)
  PROVE  mishaps \subseteq mishaps'
<1>1. ASSUME NEW u \in Uploads, Request(u) \/ UploadGoesOn(u) PROVE mishaps \subseteq mishaps'
  <2>1. CASE Request(u) \/ FindByBatchId(u) \/ FindByCursor(u)
    BY <2>1, AskStepAsks DEF Asks, txVars
  <2>2. CASE CreateReceipt(u) \/ InsertRow(u) \/ Refuse(u)
    BY <2>2, UploadEffects DEF RolledBack
  <2> QED  BY <1>1, <2>1, <2>2 DEF UploadGoesOn
<1>2. ASSUME NEW w \in Workers, RunGoesOn(w) \/ \E u \in Uploads : Process(w, u)
      PROVE  mishaps \subseteq mishaps'
  <2>1. CASE WorkStep(w)
    BY <2>1, WorkStepWorks DEF Works
  <2>2. CASE \E u \in Uploads : Process(w, u)
    BY <2>2, RunEffects
  <2>3. CASE Announce(w) \/ Settled(w) \/ StoreFails(w)
    BY <2>3, RunEffects DEF RolledBack
  <2> QED  BY <1>2, <2>1, <2>2, <2>3 DEF RunGoesOn, WorkStep
<1> QED  BY <1>1, <1>2

LEMMA IntakeStep == IntakeInv /\ [IntakeNext]_intakeVars => IntakeInv'
<1> SUFFICES ASSUME IntakeInv, [IntakeNext]_intakeVars PROVE IntakeInv'
  OBVIOUS
<1>0. IntakeTyped /\ OpenWhileInside /\ Alone /\ Kept /\ CountKept
  BY DEF IntakeInv
<1>1. ASSUME NEW u \in Uploads, Request(u) \/ UploadGoesOn(u) PROVE IntakeInv'
  <2>1. mishaps \subseteq mishaps'
    BY <1>0, <1>1, MishapsStay
  <2>2. IntakeTyped' /\ OpenWhileInside' /\ Alone'
    BY <1>0, <1>1, UploadStepTyped, UploadStepInside, UploadStepAlone
  <2>3. Kept'
    BY <1>0, <1>1, <2>1, UploadStepReceipts, UploadStepEvents DEF Kept
  <2>4. CountKept'
    BY <1>0, <1>1, <2>1, UploadStepCounts DEF CountKept
  <2> QED  BY <2>2, <2>3, <2>4 DEF IntakeInv
<1>2. ASSUME NEW w \in Workers, RunGoesOn(w) \/ \E u \in Uploads : Process(w, u) PROVE IntakeInv'
  <2>1. mishaps \subseteq mishaps'
    BY <1>0, <1>2, MishapsStay
  <2>2. IntakeTyped'
    BY <1>0, <1>2, RunStepTyped, JobStepTyped
  <2>3. OpenWhileInside' /\ Alone'
    BY <1>0, <1>2, RunStepInside, RunStepAlone
  <2>4. Kept'
    BY <1>0, <1>2, <2>1, RunStepReceipts, RunStepEvents DEF Kept
  <2>5. CountKept'
    BY <1>0, <1>2, <2>1, RunStepCounts DEF CountKept
  <2> QED  BY <2>2, <2>3, <2>4, <2>5 DEF IntakeInv
<1>3. CASE UNCHANGED intakeVars
  <2>1. UNCHANGED <<upload, receipts, outboxRows, stored, tally, copy, crowded, refusals, mishaps, job, attempts, run>>
    BY <1>3 DEF intakeVars, uploadVars, sessionVars, txVars, jobVars
  <2>2. Open' = Open
    BY <2>1, OpenSame
  <2>3. IntakeTyped'
    BY <1>0, <2>1, TypedAgain
  <2>4. OpenWhileInside' /\ Alone'
    BY <1>0, <2>1, <2>2 DEF OpenWhileInside, Alone, At
  <2>5. Kept'
    BY <1>0, <2>1, <2>2 DEF Kept, ReceiptsKept, EventsKept, Sound, Done, At, BatchOf, Workers
  <2>6. CountKept'
    BY <1>0, <2>1, <2>2 DEF CountKept, Counted, Counts, NextEvent, Total, Workers
  <2> QED  BY <2>3, <2>4, <2>5, <2>6 DEF IntakeInv
<1> QED  BY <1>1, <1>2, <1>3, DeliverKeeps DEF IntakeNext, IntakeGoesOn

(* Tables, open transactions, uploads and handlers of the intake of        *)
(* observations fit together for every set of uploads and handlers.        *)
THEOREM IntakeIsSound == IntakeSpec => []IntakeInv
<1>1. IntakeInit => IntakeInv
  BY InitIntakeInv
<1>2. IntakeInv /\ [IntakeNext]_intakeVars => IntakeInv'
  BY IntakeStep
<1> HIDE DEF IntakeInv, IntakeInit, IntakeNext, intakeVars
<1> QED  BY <1>1, <1>2, PTL DEF IntakeSpec

(* Every variable of the intake has its type.                              *)
THEOREM IntakeTypes == IntakeSpec => []IntakeTypeOK
<1>1. IntakeInv => IntakeTypeOK
  <2> SUFFICES ASSUME IntakeInv PROVE IntakeTypeOK
    OBVIOUS
  <2>1. IntakeTyped
    BY DEF IntakeInv
  <2>2. TableType \subseteq Tables
    BY DEF TableType, Tables, FinEvents
  <2>3. /\ Now \in Tables /\ copy \in [Transactions -> Tables \cup {NoCopy}]
    BY <2>1, <2>2 DEF IntakeTyped
  <2>4. \A w \in Workers : run[w].pc \in Doings /\ run[w].todo \cup run[w].fresh \subseteq EventIds
    BY <2>1, TypedParts DEF FinEvents
  <2> QED  BY <2>1, <2>3, <2>4 DEF IntakeTyped, IntakeTypeOK
<1>2. IntakeSpec => []IntakeInv
  BY IntakeIsSound
<1> HIDE DEF IntakeInv, IntakeTypeOK, IntakeSpec
<1> QED  BY <1>1, <1>2, PTL

(* A client that was told its batch is accepted (service.ts) can rely on   *)
(* it, until a rollback has put back the tables of others: the receipt     *)
(* that answered it has its outbox row, unless the transaction of that     *)
(* receipt is still open or failed, and once the row's job is acknowledged *)
(* every event of the batch is stored.                                     *)
THEOREM AcceptedIsSafe == IntakeSpec => []AcceptedIsKept
<1>1. IntakeInv => AcceptedIsKept
  <2> SUFFICES ASSUME IntakeInv, "restored" \notin mishaps, NEW u \in Uploads, At(u, "accepted")
               PROVE  \/ At(upload[u].of, "row") \/ At(upload[u].of, "refused")
                      \/ /\ upload[u].of \in outboxRows
                         /\ job[upload[u].of] = "acked" => BatchOf(u).events \subseteq stored
    BY DEF AcceptedIsKept
  <2>1. ReceiptsKept /\ EventsKept
    BY DEF IntakeInv, Kept
  <2>2. /\ upload[u].of \in Uploads /\ Sound(upload[u].of)
        /\ BatchOf(u).events = BatchOf(upload[u].of).events
    BY <2>1 DEF ReceiptsKept, SameContent
  <2>3. job[upload[u].of] = "acked" => BatchOf(upload[u].of).events \subseteq stored
    BY <2>1, <2>2 DEF EventsKept, Done
  <2> QED  BY <2>2, <2>3 DEF Sound
<1>2. IntakeSpec => []IntakeInv
  BY IntakeIsSound
<1> HIDE DEF IntakeInv, AcceptedIsKept, IntakeSpec
<1> QED  BY <1>1, <1>2, PTL

(* The session's event count is the number of stored events whenever no    *)
(* storage transaction is open, as long as no two of them were and no      *)
(* rollback put back the tables of others, however batches overlap,        *)
(* uploads repeat and jobs fail and run again (storage/consumer.ts).       *)
THEOREM EveryEventCountedOnce == IntakeSpec => []CountedOnce
<1>1. IntakeInv => CountedOnce
  BY DEF IntakeInv, CountKept, Counted, CountedOnce
<1>2. IntakeSpec => []IntakeInv
  BY IntakeIsSound
<1> HIDE DEF IntakeInv, CountedOnce, IntakeSpec
<1> QED  BY <1>1, <1>2, PTL

(* The safety half of IntakeSettles: whenever every transaction is over    *)
(* and every row's job is settled, what clients were told is accepted is   *)
(* stored, with the exceptions AcceptedIsStored names, and the count is    *)
(* true, with those CountIsTrue names.  That such a state is reached is    *)
(* left to the fairness of the run.                                        *)
Rest == Open = {} /\ \A u \in outboxRows : job[u] \in {"acked", "dead"}

THEOREM IntakeAtRestIsTrue == IntakeSpec => [](Rest => AcceptedIsStored /\ CountIsTrue)
<1>1. IntakeInv /\ AcceptedIsKept /\ CountedOnce => (Rest => AcceptedIsStored /\ CountIsTrue)
  <2> SUFFICES ASSUME IntakeInv, AcceptedIsKept, CountedOnce, Rest
               PROVE  AcceptedIsStored /\ CountIsTrue
    OBVIOUS
  <2>1. ASSUME NEW u \in Uploads, At(u, "accepted"), ~Excused(upload[u].of)
        PROVE  BatchOf(u).events \subseteq stored
    <3>1. "restored" \notin mishaps /\ ~At(upload[u].of, "refused") /\ job[upload[u].of] # "dead"
      BY <2>1 DEF Excused
    <3>2. upload[u].of \in Uploads
      BY <2>1, <3>1 DEF IntakeInv, Kept, ReceiptsKept
    <3>3. ~At(upload[u].of, "row")
      BY <3>2 DEF IntakeInv, OpenWhileInside, Rest
    <3>4. /\ upload[u].of \in outboxRows
          /\ job[upload[u].of] = "acked" => BatchOf(u).events \subseteq stored
      BY <2>1, <3>1, <3>3 DEF AcceptedIsKept
    <3> QED  BY <3>1, <3>4 DEF Rest
  <2>2. CountIsTrue
    BY DEF CountedOnce, CountIsTrue, Rest, Total
  <2> QED  BY <2>1, <2>2 DEF AcceptedIsStored
<1>2. IntakeSpec => []IntakeInv /\ []AcceptedIsKept /\ []CountedOnce
  BY IntakeIsSound, AcceptedIsSafe, EveryEventCountedOnce
<1> HIDE DEF IntakeInv, AcceptedIsKept, CountedOnce, IntakeSpec, Rest, AcceptedIsStored, CountIsTrue
<1> QED  BY <1>1, <1>2, PTL

(* Beside each other.  *)
(* A behaviour of the instance that MCIntake gives TLC is one of the queue *)
(* and one of the intake: the other component stands still.                *)
THEOREM IntakeComposes == MCSpec => Spec /\ IntakeSpec
<1>1. MCInit => Init /\ IntakeInit
  BY DEF MCInit
<1>2. [MCNext]_MCVars => [Next]_vars /\ [IntakeNext]_intakeVars
  BY DEF MCNext, MCVars, InQueue, InIntake
<1> HIDE DEF MCInit, Init, IntakeInit, MCNext, Next, IntakeNext, MCVars, vars, intakeVars, InQueue, InIntake
<1> QED  BY <1>1, <1>2, PTL DEF MCSpec, Spec, IntakeSpec

(* Every variable of both keeps its type in that instance.                 *)
THEOREM BothTyped == MCSpec => []TypesOK
<1>1. TypeOK /\ IntakeTypeOK => TypesOK
  BY DEF TypesOK
<1> HIDE DEF MCSpec, Spec, IntakeSpec, TypeOK, IntakeTypeOK, TypesOK
<1> QED  BY <1>1, IntakeComposes, TypeCorrect, IntakeTypes, PTL
=============================================================================
