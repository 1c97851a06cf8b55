----------------------------- MODULE WorkQueue -----------------------------
(***************************************************************************)
(* The cloud tier's job queue and the worker that drains it:               *)
(*   apps/cloud/src/queue/queue.ts   MemoryDurableQueue (and the Postgres  *)
(*                                   class, which delegates every call to  *)
(*                                   a MemoryDurableQueue of its own)      *)
(*   apps/cloud/src/queue/worker.ts  WorkerRuntime, one per process.       *)
(*                                                                         *)
(* Job ids are fresh UUIDs in the code; here they are the numbers 1, 2,    *)
(* ... in the order the envelopes are created, which is also the order of  *)
(* the queue's Map.  Time is abstracted to flags that an Elapse or Expire  *)
(* step raises: a backoff that ended, a lease that ran out, an expiresAt   *)
(* that passed.                                                            *)
(***************************************************************************)
EXTENDS Naturals, FiniteSets, Functions

CONSTANTS
  MaxJobs,      \* bound: envelopes created in one behaviour
  Keys,         \* idempotency keys
  NoKey,        \* an envelope without idempotency key
  MaxAttempts,  \* envelope.maxAttempts
  Concurrency,  \* WorkerRuntime's concurrency option
  MaxRuns,      \* bound: handler executions of one job in flight at once
  MaxRestarts   \* bound: stops and crashes of the process

ASSUME WorkQueueAssumption ==
  /\ MaxJobs \in Nat
  /\ NoKey \notin Keys
  /\ MaxAttempts \in Nat \ {0}
  /\ Concurrency \in Nat \ {0}
  /\ MaxRuns \in Nat \ {0}
  /\ MaxRestarts \in Nat

Jobs == 1..MaxJobs
NoJob == 0

VARIABLES
  born,      \* envelopes created so far
  status,    \* jobs map: status of the record, "absent" without one
  ready,     \* jobs with visibleAt <= now (pending) or processingUntil <= now (processing)
  expired,   \* jobs with envelope.expiresAt < now
  attempt,   \* envelope.attempt
  keyJob,    \* idempotencyKeys
  dead,      \* jobs with a record in deadLetters
  runs,      \* handler executions in flight per job
  active,    \* WorkerRuntime.activeJobs
  mode,      \* WorkerRuntime.isRunning
  restarts,  \* stops and crashes so far
  accepted,  \* history: jobs that entered the jobs map
  acked,     \* history: jobs removed by ack
  failures,  \* history: rejected executions that nack counted against the job
  lost       \* history: jobs a crash removed

queueVars == <<status, ready, expired, attempt, keyJob, dead>>
workerVars == <<runs, active, mode, restarts>>
historyVars == <<accepted, acked, failures, lost>>
vars == <<born, queueVars, workerVars, historyVars>>

Status == {"absent", "pending", "processing", "completed"}

QueueTypeOK ==
  /\ born \in 0..MaxJobs
  /\ status \in [Jobs -> Status]
  /\ ready \in SUBSET Jobs
  /\ expired \in SUBSET Jobs
  /\ attempt \in [Jobs -> 1..MaxAttempts]
  /\ keyJob \in [Keys -> 0..MaxJobs]
  /\ dead \in SUBSET Jobs

WorkerTypeOK ==
  /\ runs \in [Jobs -> 0..MaxRuns]
  /\ active \in SUBSET Jobs
  /\ mode \in {"stopped", "running"}
  /\ restarts \in 0..MaxRestarts

HistoryTypeOK ==
  /\ accepted \in SUBSET Jobs
  /\ acked \in SUBSET Jobs
  /\ failures \in [Jobs -> Nat]
  /\ lost \in SUBSET Jobs

TypeOK == QueueTypeOK /\ WorkerTypeOK /\ HistoryTypeOK

Init ==
  /\ born = 0
  /\ status = [j \in Jobs |-> "absent"]
  /\ ready = {}
  /\ expired = {}
  /\ attempt = [j \in Jobs |-> 1]
  /\ keyJob = [k \in Keys |-> NoJob]
  /\ dead = {}
  /\ runs = [j \in Jobs |-> 0]
  /\ active = {}
  /\ mode = "stopped"
  /\ restarts = 0
  /\ accepted = {}
  /\ acked = {}
  /\ failures = [j \in Jobs |-> 0]
  /\ lost = {}
----------------------------------------------------------------------------
(* enqueue: a known idempotency key returns the existing id and drops the  *)
(* envelope; otherwise the job is put in the map as pending, visible at    *)
(* once or after envelope.availableAt.                                     *)
Duplicate(k) == k \in Keys /\ keyJob[k] # NoJob

Insert(j, visible) ==
  /\ status' = [status EXCEPT ![j] = "pending"]
  /\ ready' = IF visible THEN ready \cup {j} ELSE ready
  /\ accepted' = accepted \cup {j}

Enqueue(k) ==
  /\ born < MaxJobs
  /\ born' = born + 1
  /\ \/ /\ Duplicate(k)
        /\ UNCHANGED <<status, ready, keyJob, accepted>>
     \/ /\ ~Duplicate(k)
        /\ \E visible \in BOOLEAN : Insert(born + 1, visible)
        /\ keyJob' = [h \in Keys |-> IF h = k THEN born + 1 ELSE keyJob[h]]
  /\ UNCHANGED <<expired, attempt, dead, workerVars,
                 acked, failures, lost>>

(* requeue: a fresh envelope, without key, for the payload of a dead       *)
(* letter; the dead letter stays, so it can be requeued again.             *)
Requeue(d) ==
  /\ d \in dead
  /\ born < MaxJobs
  /\ born' = born + 1
  /\ Insert(born + 1, TRUE)
  /\ UNCHANGED <<expired, attempt, keyJob, dead, workerVars,
                 acked, failures, lost>>

(* The clock passes visibleAt or processingUntil.  The worker's abort      *)
(* timer has the length of the lease; the registered handlers take no      *)
(* signal, so a run outlives its lease.                                    *)
Elapse(j) ==
  /\ status[j] \in {"pending", "processing"}
  /\ j \notin ready
  /\ runs[j] < MaxRuns
  /\ ready' = ready \cup {j}
  /\ UNCHANGED <<born, status, expired, attempt, keyJob, dead,
                 workerVars, historyVars>>

(* The clock passes expiresAt. *)
Expire(j) ==
  /\ status[j] # "absent"
  /\ j \notin expired
  /\ expired' = expired \cup {j}
  /\ UNCHANGED <<born, status, ready, attempt, keyJob, dead,
                 workerVars, historyVars>>

(* dequeue walks the map in insertion order: it marks expired records      *)
(* completed as it passes them and leases the first available one.         *)
MutAvailable(j) ==
  /\ \/ status[j] = "pending" /\ j \notin ready
     \/ status[j] = "processing" /\ j \in ready
  /\ j \notin expired
Available(j) ==
  status[j] \in {"pending", "processing"} /\ j \in ready \ expired

Sweep(S) ==
  [j \in Jobs |-> IF j \in S \cap expired /\ status[j] # "absent"
                  THEN "completed" ELSE status[j]]

(* poll goes on while fewer than Concurrency ids are in activeJobs. *)
Polling == mode = "running" /\ Cardinality(active) < Concurrency

(* The first available job is leased and its handler started. *)
PollTake(j) ==
  /\ Polling
  /\ Available(j)
  /\ \A i \in 1..(j - 1) : ~Available(i)
  /\ runs[j] < MaxRuns
  /\ status' = [Sweep(1..(j - 1)) EXCEPT ![j] = "processing"]
  /\ ready' = ready \ {j}
  /\ runs' = [runs EXCEPT ![j] = @ + 1]
  /\ active' = active \cup {j}
  /\ UNCHANGED <<born, expired, attempt, keyJob, dead, mode, restarts,
                 historyVars>>

(* poll finds nothing: every expired record has been swept. *)
PollEmpty ==
  /\ Polling
  /\ \A j \in Jobs : ~Available(j)
  /\ status' = Sweep(Jobs)
  /\ UNCHANGED <<born, ready, expired, attempt, keyJob, dead,
                 workerVars, historyVars>>

(* processJob's finally: the id leaves activeJobs even when another run of *)
(* the same job is still in flight.                                        *)
MutRelease(j) ==
  /\ runs' = [runs EXCEPT ![j] = @ - 1]
  /\ UNCHANGED active
Release(j) ==
  /\ runs' = [runs EXCEPT ![j] = @ - 1]
  /\ active' = active \ {j}

(* ack and nack look the record up by job id only: they do not ask who     *)
(* holds the lease now.                                                    *)
MutHasRecord(j) == TRUE
HasRecord(j) == status[j] # "absent"

MutDelete(j) == UNCHANGED status
Delete(j) == status' = [status EXCEPT ![j] = "absent"]

(* The handler resolves; ack deletes the record, if there still is one. *)
Ack(j) ==
  /\ runs[j] > 0
  /\ Release(j)
  /\ \/ HasRecord(j) /\ Delete(j) /\ acked' = acked \cup {j}
     \/ ~HasRecord(j) /\ UNCHANGED <<status, acked>>
  /\ UNCHANGED <<born, ready, expired, attempt, keyJob, dead, mode,
                 restarts, accepted, failures, lost>>

MutBudgetUsed(j) == attempt[j] > MaxAttempts
MutBudgetUsedEarly(j) == attempt[j] + 1 >= MaxAttempts
BudgetUsed(j) == attempt[j] + 1 > MaxAttempts

DeadLetter(j) ==
  /\ dead' = dead \cup {j}
  /\ Delete(j)
  /\ UNCHANGED <<ready, attempt>>

(* Pending again behind a backoff. *)
Retry(j) ==
  /\ attempt' = [attempt EXCEPT ![j] = @ + 1]
  /\ status' = [status EXCEPT ![j] = "pending"]
  /\ ready' = ready \ {j}
  /\ UNCHANGED dead

(* The handler rejects, or none is registered. *)
Nack(j) ==
  /\ runs[j] > 0
  /\ Release(j)
  /\ \/ /\ HasRecord(j)
        /\ failures' = [failures EXCEPT ![j] = @ + 1]
        /\ \/ BudgetUsed(j) /\ DeadLetter(j)
           \/ ~BudgetUsed(j) /\ Retry(j)
     \/ ~HasRecord(j) /\ UNCHANGED <<status, ready, attempt, dead, failures>>
  /\ UNCHANGED <<born, expired, keyJob, mode, restarts,
                 accepted, acked, lost>>

(* start, and stop's effect on new work (runs in flight drain or go on). *)
Start ==
  /\ mode = "stopped"
  /\ mode' = "running"
  /\ UNCHANGED <<born, queueVars, runs, active, restarts, historyVars>>

Stop ==
  /\ mode = "running"
  /\ restarts < MaxRestarts
  /\ mode' = "stopped"
  /\ restarts' = restarts + 1
  /\ UNCHANGED <<born, queueVars, runs, active, historyVars>>

(* The process ends.  PostgresDurableQueue keeps everything in the memory  *)
(* of its memoryFallback, so the next process starts with an empty queue.  *)
Crash ==
  /\ restarts < MaxRestarts
  /\ restarts' = restarts + 1
  /\ lost' = lost \cup {j \in Jobs : status[j] # "absent"} \cup dead
  /\ status' = [j \in Jobs |-> "absent"]
  /\ keyJob' = [k \in Keys |-> NoJob]
  /\ dead' = {}
  /\ runs' = [j \in Jobs |-> 0]
  /\ active' = {}
  /\ mode' = "stopped"
  /\ UNCHANGED <<born, ready, expired, attempt,
                 accepted, acked, failures>>

Next ==
  \/ \E k \in Keys \cup {NoKey} : Enqueue(k)
  \/ \E j \in Jobs : \/ Requeue(j) \/ Elapse(j) \/ Expire(j)
                     \/ PollTake(j) \/ Ack(j) \/ Nack(j)
  \/ PollEmpty \/ Start \/ Stop \/ Crash

(* Timers fire, the poll loop reschedules itself until stop, the process   *)
(* is started again, and every handler promise settles one way or another. *)
Fairness ==
  /\ WF_vars(Start)
  /\ WF_vars(PollEmpty)
  /\ \A j \in Jobs : /\ WF_vars(Elapse(j))
                     /\ WF_vars(PollTake(j))
                     /\ WF_vars(Ack(j) \/ Nack(j))

Spec == Init /\ [][Next]_vars
FairSpec == Spec /\ Fairness
----------------------------------------------------------------------------
(* Every accepted job is in exactly one place: in the jobs map, acked, in  *)
(* the dead letters or lost with a process, although acks and nacks of     *)
(* runs whose lease was given to another run arrive at any time            *)
(* (queue.ts ack and nack, which check only that the record exists).       *)
Fate(j) ==
  {f \in {"queued", "acked", "dead", "lost"} :
     \/ f = "queued" /\ status[j] # "absent"
     \/ f = "acked" /\ j \in acked
     \/ f = "dead" /\ j \in dead
     \/ f = "lost" /\ j \in lost}

OneFate == \A j \in accepted : Cardinality(Fate(j)) = 1

(* A job is dead-lettered after exactly MaxAttempts counted failures, and  *)
(* a live one has used one attempt per counted failure: a failure of a     *)
(* stale run is charged once and never twice (nack's nextAttempt test).    *)
RetryBudgetExact ==
  /\ \A j \in dead : failures[j] = MaxAttempts
  /\ \A j \in Jobs : status[j] # "absent" => attempt[j] = failures[j] + 1

(* A leased job has a run in flight that will ack or nack it: no sequence  *)
(* of lease expiries, redeliveries and late results leaves a job in        *)
(* "processing" with nobody working on it (dequeue, ack, nack).            *)
LeaseHasRun ==
  \A j \in Jobs : status[j] = "processing" => runs[j] > 0

(* The ids the worker counts against its concurrency are ids of runs in    *)
(* flight (processJob's add and delete of activeJobs).                     *)
ActiveHasRun == \A j \in active : runs[j] > 0

(* The queue's leases, the worker's active ids and the handlers in flight  *)
(* tell the same story under every interleaving of late results.           *)
RunsMatch == LeaseHasRun /\ ActiveHasRun

(* Settled work is never done again: after ack or dead-letter no poll      *)
(* hands the id out (ack and nack delete the record), and its idempotency  *)
(* key goes on naming it until the process ends, so an enqueue that is     *)
(* repeated creates nothing (enqueue's key lookup).                        *)
SettledStaysSettled ==
  [][/\ \A j \in acked \cup dead : runs'[j] <= runs[j]
     /\ \A k \in Keys : keyJob[k] \in acked \cup dead => keyJob'[k] \in {keyJob[k], NoJob}]_vars

(* Every queued job is eventually acked, dead-lettered, expired or lost    *)
(* with its process: backoffs and leases always end and the budget is      *)
(* finite.                                                                 *)
Live(j) == status[j] \in {"pending", "processing"}
EveryJobSettles == \A j \in Jobs : Live(j) ~> ~Live(j)

(* worker.ts:20 says the worker processes jobs "with concurrency           *)
(* management": at most Concurrency handlers at once.                      *)
ConcurrencyRespected == SumFunction(runs) <= Concurrency
=============================================================================
