----------------------------- MODULE Ingestion -----------------------------
(***************************************************************************)
(* The way of observations into the cloud's tables:                        *)
(*   apps/cloud/src/ingestion/service.ts, deduplicator.ts                  *)
(*                        an upload is checked against the receipts and    *)
(*                        accepted by a transaction that writes a receipt  *)
(*                        and an outbox row;                               *)
(*   apps/cloud/src/storage/consumer.ts and its repositories               *)
(*                        the row's job stores the events and adds them to *)
(*                        the session's count, in a transaction.           *)
(*                                                                         *)
(* One session.  Uploads overtake each other at their awaits, and so do    *)
(* the handlers of jobs: the worker starts several, and a job again when   *)
(* its lease has run out.  Both write through MemoryDatabasePool, whose    *)
(* rollback puts back a copy of all tables (db/client.ts 83).  Batches     *)
(* have events: the job of one without does nothing (consumer.ts 70).      *)
(***************************************************************************)
EXTENDS Integers, FiniteSets, FiniteSetsExt

CONSTANTS
  Uploads,      \* bound: requests of one behaviour
  Batches,      \* what a client may send: [id, cursor, events]
  NoCursor,     \* a batch without a cursor
  Handlers,     \* bound: handlers in flight at once
  MaxTries,  \* envelope.maxAttempts of a job
  MaxRefusals   \* bound: statements the database refuses

ASSUME IngestionAssumption ==
  /\ \A b \in Batches : b.events \in (SUBSET Nat) \ {{}} /\ IsFiniteSet(b.events)
  /\ MaxTries \in Nat \ {0}
  /\ MaxRefusals \in Nat
  /\ Handlers \in Nat /\ Uploads \cap (0..Handlers) = {}

Workers == 1..Handlers
EventIds == UNION {b.events : b \in Batches}
Transactions == Uploads \cup Workers
Absent == -1
None == 0

VARIABLES
  upload,   \* ingestBatch: its batch, where it waits, and whose receipt it answers
  receipts, \* table ingestion_receipts: the uploads that wrote one
  outboxRows, \* table outbox: the uploads that wrote a store-observation-batch row
  stored,   \* table normalized_events
  tally,    \* table sessions: event_count, Absent without a row
  copy,     \* MemoryDatabasePool.transaction: the tables when it began, while it is open
  crowded,  \* open transactions that were not alone
  refusals, \* statements refused so far
  job,      \* the queue's job of an upload's row
  attempts, \* executions of it that were rejected
  run,      \* processJob: what a handler is doing
  mishaps   \* history: "raced" storage transactions, "restored" tables of others

uploadVars == <<upload, receipts, outboxRows>>
sessionVars == <<stored, tally>>
txVars == <<copy, crowded, refusals, mishaps>>
jobVars == <<job, attempts>>
intakeVars == <<uploadVars, sessionVars, txVars, jobVars, run>>

Waits == {"idle", "batch", "cursor", "accept", "row", "accepted", "conflict", "refused"}
Doings == {"idle", "session", "create", "events", "insert", "write", "announce", "ack"}
Idle == [pc |-> "idle", of |-> None, todo |-> {}, fresh |-> {}, base |-> 0]
Tables == [receipts : SUBSET Uploads, outboxRows : SUBSET Uploads, stored : SUBSET EventIds,
           tally : Nat \cup {Absent}]
Now == [receipts |-> receipts, outboxRows |-> outboxRows, stored |-> stored, tally |-> tally]
NoCopy == [receipts |-> {}, outboxRows |-> {}, stored |-> {}, tally |-> Absent - 1]

IntakeTypeOK ==
  /\ upload \in [Uploads -> [pc : Waits, batch : Batches, of : Uploads \cup {None}]]
  /\ Now \in Tables
  /\ copy \in [Transactions -> Tables \cup {NoCopy}]
  /\ crowded \subseteq Transactions
  /\ refusals \in 0..MaxRefusals
  /\ job \in [Uploads -> {"none", "queued", "acked", "dead"}]
  /\ attempts \in [Uploads -> 0..MaxTries]
  /\ \A w \in Workers :
       /\ run[w].pc \in Doings
       /\ run[w].todo \cup run[w].fresh \subseteq EventIds
  /\ mishaps \subseteq {"raced", "restored"}

IntakeInit ==
  /\ upload \in [Uploads -> [pc : {"idle"}, batch : Batches, of : {None}]]
  /\ receipts = {} /\ outboxRows = {} /\ stored = {} /\ tally = Absent
  /\ copy = [t \in Transactions |-> NoCopy]
  /\ crowded = {}
  /\ refusals = 0
  /\ job = [u \in Uploads |-> "none"]
  /\ attempts = [u \in Uploads |-> 0]
  /\ run = [w \in Workers |-> Idle]
  /\ mishaps = {}
-----------------------------------------------------------------------------
(* MemoryDatabasePool.transaction: a copy of the tables as it begins, which *)
(* a failure puts back over whatever others have written since.            *)
Open == {t \in Transactions : copy[t] # NoCopy}

Opened(t) ==
  /\ copy' = [copy EXCEPT ![t] = Now]
  /\ crowded' = IF Open = {} THEN crowded ELSE crowded \cup Open \cup {t}

Closed(t) ==
  /\ copy' = [copy EXCEPT ![t] = NoCopy]
  /\ crowded' = crowded \ {t}

RolledBack(t) ==
  /\ refusals < MaxRefusals
  /\ refusals' = refusals + 1
  /\ receipts' = copy[t].receipts /\ outboxRows' = copy[t].outboxRows
  /\ stored' = copy[t].stored /\ tally' = copy[t].tally
  /\ Closed(t)
  /\ mishaps' = IF t \in crowded THEN mishaps \cup {"restored"} ELSE mishaps
-----------------------------------------------------------------------------
(* ingestBatch, after its quotas, validation and consent, which keep       *)
(* nothing of a batch they refuse.                                         *)
At(u, pc) == upload[u].pc = pc
To(u, pc) == upload' = [upload EXCEPT ![u].pc = pc]
BatchOf(u) == upload[u].batch

Request(u) ==
  /\ At(u, "idle")
  /\ To(u, "batch")
  /\ UNCHANGED <<receipts, outboxRows, sessionVars, txVars, jobVars, run>>

(* The content hash is of the events and the cursor. *)
MutSameContent(a, b) == TRUE
SameContent(a, b) == a.events = b.events /\ a.cursor = b.cursor

(* A receipt was found: a repeated upload gets the answer the first got,   *)
(* another content is a conflict.                                          *)
Settle(u, v) ==
  LET answer == IF SameContent(BatchOf(u), BatchOf(v)) THEN "accepted" ELSE "conflict"
  IN  upload' = [upload EXCEPT ![u].pc = answer, ![u].of = v]

WithBatchId(u) == {v \in receipts : BatchOf(v).id = BatchOf(u).id}
WithCursor(u) == {v \in receipts : BatchOf(v).cursor = BatchOf(u).cursor}

FindByBatchId(u) ==
  /\ At(u, "batch")
  /\ \/ \E v \in WithBatchId(u) : Settle(u, v)
     \/ WithBatchId(u) = {} /\ To(u, IF BatchOf(u).cursor = NoCursor THEN "accept" ELSE "cursor")
  /\ UNCHANGED <<receipts, outboxRows, sessionVars, txVars, jobVars, run>>

FindByCursor(u) ==
  /\ At(u, "cursor")
  /\ \/ \E v \in WithCursor(u) : BatchOf(v).id # BatchOf(u).id /\ Settle(u, v)
     \/ /\ WithCursor(u) = {} \/ \E v \in WithCursor(u) : BatchOf(v).id = BatchOf(u).id
        /\ To(u, "accept")
  /\ UNCHANGED <<receipts, outboxRows, sessionVars, txVars, jobVars, run>>

(* Nothing keeps a receipt of the same batch out that was written since:   *)
(* receipt_id is random and no column of the table is unique.              *)
CreateReceipt(u) ==
  /\ At(u, "accept")
  /\ Opened(u)
  /\ receipts' = receipts \cup {u}
  /\ To(u, "row")
  /\ UNCHANGED <<outboxRows, sessionVars, refusals, mishaps, jobVars, run>>

InsertRow(u) ==
  /\ At(u, "row")
  /\ outboxRows' = outboxRows \cup {u}
  /\ Closed(u)
  /\ upload' = [upload EXCEPT ![u].pc = "accepted", ![u].of = u]
  /\ UNCHANGED <<receipts, sessionVars, refusals, mishaps, jobVars, run>>

Refuse(u) ==
  /\ At(u, "row")
  /\ RolledBack(u)
  /\ To(u, "refused")
  /\ UNCHANGED <<jobVars, run>>
-----------------------------------------------------------------------------
(* The publisher and the queue: one job a row, given to a handler, and to  *)
(* another one when its lease ends before it does; see Outbox, WorkQueue.  *)
Deliver(u) ==
  /\ u \in outboxRows /\ job[u] = "none"
  /\ job' = [job EXCEPT ![u] = "queued"]
  /\ UNCHANGED <<uploadVars, sessionVars, txVars, attempts, run>>

(* processJob: the transaction over the events of the payload. *)
Step(w, pc) == run' = [run EXCEPT ![w].pc = pc]
Doing(w, pc) == run[w].pc = pc
StorageOpen == Open \cap Workers # {}

(* The first free slot; it begins with getOrCreateSession's first look.    *)
Process(w, u) ==
  /\ Doing(w, "idle") /\ job[u] = "queued"
  /\ \A v \in Workers : v < w => ~Doing(v, "idle")
  /\ Opened(w)
  /\ mishaps' = IF StorageOpen THEN mishaps \cup {"raced"} ELSE mishaps
  /\ run' = [run EXCEPT ![w] = [Idle EXCEPT !.pc = IF tally = Absent THEN "session" ELSE "events",
                                            !.of = u, !.todo = BatchOf(u).events]]
  /\ UNCHANGED <<uploadVars, sessionVars, refusals, jobVars>>

(* createSession looks again; its INSERT replaces the row of a transaction *)
(* that looked as well.                                                    *)
FindSession(w) ==
  /\ Doing(w, "session")
  /\ Step(w, IF tally = Absent THEN "create" ELSE "events")
  /\ UNCHANGED <<uploadVars, sessionVars, txVars, jobVars>>

CreateSession(w) ==
  /\ Doing(w, "create")
  /\ tally' = 0
  /\ Step(w, "events")
  /\ UNCHANGED <<uploadVars, stored, txVars, jobVars>>

(* insertEventsBatchWithStatus, in causal order. *)
NextEvent(w, e) == e \in run[w].todo /\ \A f \in run[w].todo : e <= f

FindEvent(w, e) ==
  /\ Doing(w, "events") /\ NextEvent(w, e)
  /\ \/ e \in stored /\ run' = [run EXCEPT ![w].todo = @ \ {e}]
     \/ e \notin stored /\ Step(w, "insert")
  /\ UNCHANGED <<uploadVars, sessionVars, txVars, jobVars>>

InsertEvent(w, e) ==
  /\ Doing(w, "insert") /\ NextEvent(w, e)
  /\ stored' = stored \cup {e}
  /\ run' = [run EXCEPT ![w].pc = "events", ![w].todo = @ \ {e}, ![w].fresh = @ \cup {e}]
  /\ UNCHANGED <<uploadVars, tally, txVars, jobVars>>

(* recordSessionEventsMaterialized: reads the session, or creates it, and  *)
(* writes the count it read and what it adds.                              *)
ReadSession(w) ==
  /\ Doing(w, "events") /\ run[w].todo = {} /\ run[w].fresh # {}
  /\ tally' = Max({tally, 0})
  /\ run' = [run EXCEPT ![w].pc = "write", ![w].base = tally']
  /\ UNCHANGED <<uploadVars, stored, txVars, jobVars>>

MutAdded(w) == Cardinality(BatchOf(run[w].of).events)
Added(w) == Cardinality(run[w].fresh)

WriteCount(w) ==
  /\ Doing(w, "write")
  /\ tally' = IF tally = Absent THEN Absent ELSE run[w].base + Added(w)
  /\ Step(w, "announce")
  /\ UNCHANGED <<uploadVars, stored, txVars, jobVars>>

(* The "observation-available" row, whose handler does nothing.            *)
Announce(w) ==
  /\ \/ Doing(w, "announce")
     \/ Doing(w, "events") /\ run[w].todo \cup run[w].fresh = {}
  /\ Closed(w)
  /\ run' = [run EXCEPT ![w] = [Idle EXCEPT !.pc = "ack", !.of = run[w].of]]
  /\ UNCHANGED <<uploadVars, sessionVars, refusals, mishaps, jobVars>>

Settled(w) ==
  /\ Doing(w, "ack")
  /\ job' = [job EXCEPT ![run[w].of] = IF @ = "queued" THEN "acked" ELSE @]
  /\ run' = [run EXCEPT ![w] = Idle]
  /\ UNCHANGED <<uploadVars, sessionVars, txVars, attempts>>

(* A statement was refused: the tables are put back and nack charges the   *)
(* attempt if the job is still there.                                      *)
StoreFails(w) ==
  LET u == run[w].of IN
  /\ w \in Open
  /\ RolledBack(w)
  /\ run' = [run EXCEPT ![w] = Idle]
  /\ IF job[u] = "queued"
     THEN /\ attempts' = [attempts EXCEPT ![u] = @ + 1]
          /\ job' = [job EXCEPT ![u] = IF attempts'[u] = MaxTries THEN "dead" ELSE @]
     ELSE UNCHANGED jobVars
  /\ UNCHANGED upload

UploadGoesOn(u) ==
  FindByBatchId(u) \/ FindByCursor(u) \/ CreateReceipt(u) \/ InsertRow(u) \/ Refuse(u)

RunGoesOn(w) ==
  \/ FindSession(w) \/ CreateSession(w) \/ ReadSession(w) \/ WriteCount(w) \/ Announce(w) \/ Settled(w) \/ StoreFails(w)
  \/ \E e \in EventIds : FindEvent(w, e) \/ InsertEvent(w, e)

IntakeGoesOn ==
  \/ \E u \in Uploads : UploadGoesOn(u) \/ Deliver(u) \/ \E w \in Workers : Process(w, u)
  \/ \E w \in Workers : RunGoesOn(w)

IntakeNext == (\E u \in Uploads : Request(u)) \/ IntakeGoesOn

IntakeSpec == IntakeInit /\ [][IntakeNext]_intakeVars
-----------------------------------------------------------------------------
(* A batch is gone with a dead letter, with the upload whose receipt was   *)
(* answered for before its transaction failed, or with a restored copy.    *)
Excused(u) == job[u] = "dead" \/ At(u, "refused") \/ "restored" \in mishaps

AcceptedIsStored ==
  \A u \in Uploads :
    At(u, "accepted") /\ ~Excused(upload[u].of) => BatchOf(u).events \subseteq stored

CountIsTrue == mishaps = {} => Max({tally, 0}) = Cardinality(stored)

(* In the end the events of every batch a client was told is accepted are  *)
(* stored, whichever upload the answer came from, and the session counts   *)
(* each of them once, however batches share events, uploads repeat and     *)
(* jobs fail and run again; a count is lost only where two storage         *)
(* transactions were open together or a rollback put back others' tables.  *)
IntakeSettles == <>[](AcceptedIsStored /\ CountIsTrue)
=============================================================================
