------------------------------- MODULE Outbox -------------------------------
(***************************************************************************)
(* The cloud's transactional outbox (apps/cloud/src/db/outbox.ts) on the   *)
(* in-memory pool every deployment uses (db/client.ts), bridged to the job *)
(* queue by the "*" subscriber of apps/cloud/src/index.ts.                 *)
(*                                                                         *)
(* An event is written by a transaction of its own.  dispatchBatch runs on *)
(* a timer, from the batch API and from the rollout controller, so several *)
(* batches may be in progress; each handles its records one after another  *)
(* and can be overtaken at every await.                                    *)
(***************************************************************************)
EXTENDS Naturals, FiniteSets

CONSTANTS
  MaxEvents,    \* bound: events written
  Dispatchers,  \* batches in progress at once
  Limit,        \* dispatchBatch: records of one batch
  HandlersFail  \* whether another subscriber of an event may throw

ASSUME OutboxAssumption ==
  MaxEvents \in Nat /\ Limit \in Nat \ {0} /\ HandlersFail \in BOOLEAN

Events == 1..MaxEvents   \* in the order of created_at
RowStatus == {"none", "pending", "published", "failed"}
TxStatus == {"new", "open", "inserted", "committed", "aborted"}

VARIABLES
  rows,         \* table outbox: status of the row of each event
  tx,           \* the transaction that writes the event
  snapshot,     \* MemoryDatabasePool.transaction: the tables when it began (while it runs)
  publishedIds, \* OutboxPublisher.publishedIds
  batch,        \* records a batch has still to handle
  step,         \* where a batch waits: between records or for a handler
  jobs,         \* queue: jobs enqueued for each event
  keys,         \* queue: idempotency keys outbox:<id> in use
  undone        \* history: committed events a rollback took back

vars == <<rows, tx, snapshot, publishedIds, batch, step, jobs, keys, undone>>
dbVars == <<rows, tx, snapshot, undone>>
publisherVars == <<publishedIds, batch, step>>
queueVars == <<jobs, keys>>

DbTypeOK ==
  /\ rows \in [Events -> RowStatus]
  /\ tx \in [Events -> TxStatus]
  /\ snapshot \in [Events -> [Events -> RowStatus]]
  /\ undone \subseteq Events
PublisherTypeOK ==
  /\ publishedIds \subseteq Events
  /\ batch \in [Dispatchers -> SUBSET Events]
  /\ step \in [Dispatchers -> {"idle", "next", "handling"}]
  /\ \A d \in Dispatchers : step[d] = "handling" => batch[d] # {}
QueueTypeOK == jobs \in [Events -> Nat] /\ keys = {e \in Events : jobs[e] > 0}
TypeOK == DbTypeOK /\ PublisherTypeOK /\ QueueTypeOK

NoRows == [e \in Events |-> "none"]

Init ==
  /\ rows = NoRows
  /\ tx = [e \in Events |-> "new"]
  /\ snapshot = [e \in Events |-> NoRows]
  /\ undone = {}
  /\ publishedIds = {}
  /\ batch = [d \in Dispatchers |-> {}]
  /\ step = [d \in Dispatchers |-> "idle"]
  /\ jobs = [e \in Events |-> 0]
  /\ keys = {}
-----------------------------------------------------------------------------
(* MemoryDatabasePool.transaction around an aggregate write and the insert *)
(* of its event: it copies the tables, works on the live ones and puts the *)
(* copy back when its body throws.                                         *)
Begin(e) ==
  /\ tx[e] = "new"
  /\ tx' = [tx EXCEPT ![e] = "open"]
  /\ snapshot' = [snapshot EXCEPT ![e] = rows]
  /\ UNCHANGED <<rows, undone, publisherVars, queueVars>>

Insert(e) ==
  /\ tx[e] = "open"
  /\ \A f \in Events : f < e => tx[f] \notin {"new", "open"}  \* numbered by created_at
  /\ tx' = [tx EXCEPT ![e] = "inserted"]
  /\ rows' = [rows EXCEPT ![e] = "pending"]
  /\ UNCHANGED <<snapshot, undone, publisherVars, queueVars>>

Commit(e) ==
  /\ tx[e] = "inserted"
  /\ tx' = [tx EXCEPT ![e] = "committed"]
  /\ snapshot' = [snapshot EXCEPT ![e] = NoRows]
  /\ UNCHANGED <<rows, undone, publisherVars, queueVars>>

TakenBack(e) == {f \in Events : tx[f] = "committed" /\ snapshot[e][f] = "none"}

Abort(e) ==
  /\ tx[e] \in {"open", "inserted"}
  /\ tx' = [tx EXCEPT ![e] = "aborted"]
  /\ rows' = snapshot[e]
  /\ snapshot' = [snapshot EXCEPT ![e] = NoRows]
  /\ undone' = undone \cup TakenBack(e)
  /\ UNCHANGED <<publisherVars, queueVars>>
-----------------------------------------------------------------------------
(* fetchPending: the oldest pending rows, those of open transactions too.  *)
Pending == {e \in Events : rows[e] = "pending"}
Oldest == {e \in Pending : Cardinality({f \in Pending : f < e}) < Limit}

Fetch(d) ==
  /\ step[d] = "idle"
  /\ Pending # {}
  /\ step' = [step EXCEPT ![d] = "next"]
  /\ batch' = [batch EXCEPT ![d] = Oldest]
  /\ UNCHANGED <<publishedIds, dbVars, queueVars>>

BatchEnd(d) ==
  /\ step[d] = "next" /\ batch[d] = {}
  /\ step' = [step EXCEPT ![d] = "idle"]
  /\ UNCHANGED <<publishedIds, batch, dbVars, queueVars>>

(* A batch goes from the oldest record to the newest. *)
Turn(d, e) == e \in batch[d] /\ \A f \in batch[d] : e <= f

(* UPDATE outbox SET status WHERE id: nothing when the row is gone. *)
Marked(e, status) ==
  rows' = [rows EXCEPT ![e] = IF rows[e] = "none" THEN "none" ELSE status]

Drop(d, e) == batch' = [batch EXCEPT ![d] = @ \ {e}]

MutHandled(e) == TRUE
Handled(e) == e \in publishedIds

(* The record was published before: only its row is updated. *)
MutRemark(e) == UNCHANGED rows
Remark(e) == Marked(e, "published")

Skip(d, e) ==
  /\ step[d] = "next" /\ Turn(d, e)
  /\ Handled(e)
  /\ Remark(e)
  /\ Drop(d, e)
  /\ UNCHANGED <<tx, snapshot, undone, publishedIds, step, queueVars>>

(* The bridge enqueues with the record's id as idempotency key; the queue  *)
(* returns the job it has for a key it knows.                              *)
Enqueue(e) ==
  /\ jobs' = IF e \in keys THEN jobs ELSE [jobs EXCEPT ![e] = @ + 1]
  /\ keys' = keys \cup {e}

Handle(d, e) ==
  /\ step[d] = "next" /\ Turn(d, e)
  /\ ~Handled(e)
  /\ Enqueue(e)
  /\ step' = [step EXCEPT ![d] = "handling"]
  /\ UNCHANGED <<publishedIds, batch, dbVars>>

(* All handlers returned: the id is remembered and the row updated. *)
Publish(e) ==
  /\ Marked(e, "published")
  /\ publishedIds' = publishedIds \cup {e}

Finish(d, e) ==
  /\ step[d] = "handling" /\ Turn(d, e)
  /\ Publish(e)
  /\ Drop(d, e)
  /\ step' = [step EXCEPT ![d] = "next"]
  /\ UNCHANGED <<tx, snapshot, undone, queueVars>>

(* A handler threw, before or after the bridge enqueued: the row is failed *)
(* and fetchPending never returns it again.                                *)
HandlerFails(d, e) ==
  /\ HandlersFail /\ Turn(d, e)
  /\ \/ step[d] = "handling"
     \/ step[d] = "next" /\ ~Handled(e)
  /\ Marked(e, "failed")
  /\ Drop(d, e)
  /\ step' = [step EXCEPT ![d] = "next"]
  /\ UNCHANGED <<tx, snapshot, undone, publishedIds, queueVars>>

Dispatch(d) ==
  \/ Fetch(d) \/ BatchEnd(d)
  \/ \E e \in Events : Skip(d, e) \/ Handle(d, e) \/ Finish(d, e) \/ HandlerFails(d, e)
Transact(e) == Begin(e) \/ Insert(e) \/ Commit(e) \/ Abort(e)

Next == (\E e \in Events : Transact(e)) \/ (\E d \in Dispatchers : Dispatch(d))

Spec == Init /\ [][Next]_vars

(* Transactions end and every batch goes on; the timer starts the next.    *)
FairSpec ==
  /\ Spec
  /\ \A e \in Events : WF_vars(Insert(e) \/ Commit(e) \/ Abort(e))
  /\ \A d \in Dispatchers : WF_vars(Dispatch(d))
-----------------------------------------------------------------------------
PublishedHasJob == \A e \in Events : rows[e] = "published" => jobs[e] > 0
OneJobPerEvent == \A e \in Events : jobs[e] <= 1

(* A published row stands for exactly one job: no batch marks an event     *)
(* another one has only begun to deliver, no rollback publishes one, and   *)
(* overlapping batches, retries after a rollback that put the row back to  *)
(* pending and handlers that fail after the bridge never enqueue a second  *)
(* one (index.ts 452-455, "retries cannot fork downstream work").          *)
DeliveredOnce == PublishedHasJob /\ OneJobPerEvent

(* Every committed event whose row no rollback deletes is published or     *)
(* failed in the end: one whose row a rollback put back to pending is      *)
(* settled again by a later batch (dispatchBatch 195-198).                 *)
CommittedSettles ==
  \A e \in Events :
    (tx[e] = "committed" /\ rows[e] = "pending") ~> rows[e] \in {"published", "failed"} \/ e \in undone

(* client.ts:39 promises "transactional rollback": a rollback undoes the   *)
(* writes of its own transaction only.                                     *)
CommittedIsKept == undone = {}
=============================================================================
