-------------------------- MODULE Settling_proofs ---------------------------
(***************************************************************************)
(* Proofs about work that settles: the outbox of the cloud for every number *)
(* of events, batches in progress and records of a batch, and the workflows *)
(* of the runtime for every set of definitions.                            *)
(***************************************************************************)
EXTENDS MCSettling, SequenceTheorems, TLAPS

(* The outbox. *)
(* A published row has its job in the live tables and in the copy of every *)
(* open transaction, a remembered id has one, and so has a record whose    *)
(* handlers are running.                                                   *)
CopiesHaveJob == \A e, f \in Events : snapshot[f][e] = "published" => e \in keys
RememberedHasJob == publishedIds \subseteq keys
HandledHasJob ==
  \A d \in Dispatchers, e \in Events :
    step[d] = "handling" /\ Turn(d, e) => e \in keys
RowsHaveJob == \A e \in Events : rows[e] = "published" => e \in keys
DeliveryInv ==
  /\ TypeOK /\ OneJobPerEvent
  /\ CopiesHaveJob /\ RememberedHasJob /\ HandledHasJob /\ RowsHaveJob

LEMMA TurnIsOne ==
  ASSUME NEW d, NEW e \in Events, NEW f \in Events, Turn(d, e), Turn(d, f)
  PROVE  e = f
  BY OutboxAssumption DEF Turn, Events

LEMMA InitDelivery == Init => DeliveryInv
<1> SUFFICES ASSUME Init PROVE DeliveryInv
  OBVIOUS
<1>1. TypeOK /\ OneJobPerEvent
  BY DEF Init, TypeOK, DbTypeOK, PublisherTypeOK, QueueTypeOK, NoRows, RowStatus,
     TxStatus, OneJobPerEvent
<1>2. CopiesHaveJob /\ RememberedHasJob /\ HandledHasJob /\ RowsHaveJob
  BY DEF Init, NoRows, CopiesHaveJob, RememberedHasJob, HandledHasJob, RowsHaveJob
<1> QED
  BY <1>1, <1>2 DEF DeliveryInv

LEMMA StepDelivery == DeliveryInv /\ [Next]_vars => DeliveryInv'
<1> SUFFICES ASSUME DeliveryInv, [Next]_vars PROVE DeliveryInv'
  OBVIOUS
<1> USE DEF DeliveryInv, TypeOK
<1>1. ASSUME NEW e \in Events, Begin(e) PROVE DeliveryInv'
  <2>1. DbTypeOK'
    BY <1>1 DEF Begin, DbTypeOK, RowStatus, TxStatus, NoRows, dbVars,
       publisherVars, queueVars
  <2>2. PublisherTypeOK'
    BY <1>1 DEF Begin, PublisherTypeOK, dbVars, publisherVars, queueVars
  <2>3. (QueueTypeOK /\ OneJobPerEvent)'
    BY <1>1 DEF Begin, QueueTypeOK, OneJobPerEvent, dbVars, publisherVars,
       queueVars
  <2>4. CopiesHaveJob'
    BY <1>1 DEF Begin, CopiesHaveJob, NoRows, DbTypeOK, RowsHaveJob, dbVars,
       publisherVars, queueVars
  <2>5. (RememberedHasJob /\ HandledHasJob)'
    BY <1>1 DEF Begin, RememberedHasJob, HandledHasJob, Turn,
       PublisherTypeOK, dbVars, publisherVars, queueVars
  <2>6. RowsHaveJob'
    BY <1>1 DEF Begin, RowsHaveJob, DbTypeOK, dbVars, publisherVars,
       queueVars
  <2> QED
    BY <2>1, <2>2, <2>3, <2>4, <2>5, <2>6
<1>2. ASSUME NEW e \in Events, Insert(e) PROVE DeliveryInv'
  <2>1. DbTypeOK'
    BY <1>2 DEF Insert, DbTypeOK, RowStatus, TxStatus, NoRows, dbVars,
       publisherVars, queueVars
  <2>2. PublisherTypeOK'
    BY <1>2 DEF Insert, PublisherTypeOK, dbVars, publisherVars, queueVars
  <2>3. (QueueTypeOK /\ OneJobPerEvent)'
    BY <1>2 DEF Insert, QueueTypeOK, OneJobPerEvent, dbVars, publisherVars,
       queueVars
  <2>4. CopiesHaveJob'
    BY <1>2 DEF Insert, CopiesHaveJob, NoRows, DbTypeOK, dbVars,
       publisherVars, queueVars
  <2>5. (RememberedHasJob /\ HandledHasJob)'
    BY <1>2 DEF Insert, RememberedHasJob, HandledHasJob, Turn,
       PublisherTypeOK, dbVars, publisherVars, queueVars
  <2>6. RowsHaveJob'
    BY <1>2 DEF Insert, RowsHaveJob, DbTypeOK, dbVars, publisherVars,
       queueVars
  <2> QED
    BY <2>1, <2>2, <2>3, <2>4, <2>5, <2>6
<1>3. ASSUME NEW e \in Events, Commit(e) PROVE DeliveryInv'
  <2>1. DbTypeOK'
    BY <1>3 DEF Commit, DbTypeOK, RowStatus, TxStatus, NoRows, dbVars,
       publisherVars, queueVars
  <2>2. PublisherTypeOK'
    BY <1>3 DEF Commit, PublisherTypeOK, dbVars, publisherVars, queueVars
  <2>3. (QueueTypeOK /\ OneJobPerEvent)'
    BY <1>3 DEF Commit, QueueTypeOK, OneJobPerEvent, dbVars, publisherVars,
       queueVars
  <2>4. CopiesHaveJob'
    BY <1>3 DEF Commit, CopiesHaveJob, NoRows, DbTypeOK, dbVars,
       publisherVars, queueVars
  <2>5. (RememberedHasJob /\ HandledHasJob)'
    BY <1>3 DEF Commit, RememberedHasJob, HandledHasJob, Turn,
       PublisherTypeOK, dbVars, publisherVars, queueVars
  <2>6. RowsHaveJob'
    BY <1>3 DEF Commit, RowsHaveJob, DbTypeOK, dbVars, publisherVars,
       queueVars
  <2> QED
    BY <2>1, <2>2, <2>3, <2>4, <2>5, <2>6
<1>4. ASSUME NEW e \in Events, Abort(e) PROVE DeliveryInv'
  <2>1. DbTypeOK'
    BY <1>4 DEF Abort, TakenBack, DbTypeOK, RowStatus, TxStatus, NoRows,
       dbVars, publisherVars, queueVars
  <2>2. PublisherTypeOK'
    BY <1>4 DEF Abort, TakenBack, PublisherTypeOK, dbVars, publisherVars,
       queueVars
  <2>3. (QueueTypeOK /\ OneJobPerEvent)'
    BY <1>4 DEF Abort, TakenBack, QueueTypeOK, OneJobPerEvent, dbVars,
       publisherVars, queueVars
  <2>4. CopiesHaveJob'
    BY <1>4 DEF Abort, TakenBack, CopiesHaveJob, NoRows, DbTypeOK, dbVars,
       publisherVars, queueVars
  <2>5. (RememberedHasJob /\ HandledHasJob)'
    BY <1>4 DEF Abort, TakenBack, RememberedHasJob, HandledHasJob, Turn,
       PublisherTypeOK, dbVars, publisherVars, queueVars
  <2>6. RowsHaveJob'
    BY <1>4 DEF Abort, TakenBack, RowsHaveJob, DbTypeOK, CopiesHaveJob,
       dbVars, publisherVars, queueVars
  <2> QED
    BY <2>1, <2>2, <2>3, <2>4, <2>5, <2>6
<1>5. ASSUME NEW d \in Dispatchers, Fetch(d) PROVE DeliveryInv'
  <2>1. DbTypeOK'
    BY <1>5 DEF Fetch, Oldest, Pending, DbTypeOK, RowStatus, TxStatus,
       NoRows, dbVars, publisherVars, queueVars
  <2>2. PublisherTypeOK'
    BY <1>5 DEF Fetch, Oldest, Pending, PublisherTypeOK, dbVars,
       publisherVars, queueVars
  <2>3. (QueueTypeOK /\ OneJobPerEvent)'
    BY <1>5 DEF Fetch, Oldest, Pending, QueueTypeOK, OneJobPerEvent, dbVars,
       publisherVars, queueVars
  <2>4. CopiesHaveJob'
    BY <1>5 DEF Fetch, Oldest, Pending, CopiesHaveJob, NoRows, DbTypeOK,
       dbVars, publisherVars, queueVars
  <2>5. (RememberedHasJob /\ HandledHasJob)'
    BY <1>5 DEF Fetch, Oldest, Pending, RememberedHasJob, HandledHasJob,
       Turn, PublisherTypeOK, dbVars, publisherVars, queueVars
  <2>6. RowsHaveJob'
    BY <1>5 DEF Fetch, Oldest, Pending, RowsHaveJob, DbTypeOK, dbVars,
       publisherVars, queueVars
  <2> QED
    BY <2>1, <2>2, <2>3, <2>4, <2>5, <2>6
<1>6. ASSUME NEW d \in Dispatchers, BatchEnd(d) PROVE DeliveryInv'
  <2>1. DbTypeOK'
    BY <1>6 DEF BatchEnd, DbTypeOK, RowStatus, TxStatus, NoRows, dbVars,
       publisherVars, queueVars
  <2>2. PublisherTypeOK'
    BY <1>6 DEF BatchEnd, PublisherTypeOK, dbVars, publisherVars, queueVars
  <2>3. (QueueTypeOK /\ OneJobPerEvent)'
    BY <1>6 DEF BatchEnd, QueueTypeOK, OneJobPerEvent, dbVars,
       publisherVars, queueVars
  <2>4. CopiesHaveJob'
    BY <1>6 DEF BatchEnd, CopiesHaveJob, NoRows, DbTypeOK, dbVars,
       publisherVars, queueVars
  <2>5. (RememberedHasJob /\ HandledHasJob)'
    BY <1>6 DEF BatchEnd, RememberedHasJob, HandledHasJob, Turn,
       PublisherTypeOK, dbVars, publisherVars, queueVars
  <2>6. RowsHaveJob'
    BY <1>6 DEF BatchEnd, RowsHaveJob, DbTypeOK, dbVars, publisherVars,
       queueVars
  <2> QED
    BY <2>1, <2>2, <2>3, <2>4, <2>5, <2>6
<1>7. ASSUME NEW d \in Dispatchers, NEW e \in Events, Skip(d, e) PROVE DeliveryInv'
  <2>1. DbTypeOK'
    BY <1>7 DEF Skip, Handled, Remark, Marked, Drop, DbTypeOK, RowStatus,
       TxStatus, NoRows, dbVars, publisherVars, queueVars
  <2>2. PublisherTypeOK'
    BY <1>7 DEF Skip, Handled, Remark, Marked, Drop, PublisherTypeOK,
       dbVars, publisherVars, queueVars
  <2>3. (QueueTypeOK /\ OneJobPerEvent)'
    BY <1>7 DEF Skip, Handled, Remark, Marked, Drop, QueueTypeOK,
       OneJobPerEvent, dbVars, publisherVars, queueVars
  <2>4. CopiesHaveJob'
    BY <1>7 DEF Skip, Handled, Remark, Marked, Drop, CopiesHaveJob, NoRows,
       DbTypeOK, dbVars, publisherVars, queueVars
  <2>5. (RememberedHasJob /\ HandledHasJob)'
    BY <1>7 DEF Skip, Handled, Remark, Marked, Drop, RememberedHasJob,
       HandledHasJob, Turn, PublisherTypeOK, dbVars, publisherVars,
       queueVars
  <2>6. RowsHaveJob'
    BY <1>7 DEF Skip, Handled, Remark, Marked, Drop, RowsHaveJob, DbTypeOK,
       RememberedHasJob, dbVars, publisherVars, queueVars
  <2> QED
    BY <2>1, <2>2, <2>3, <2>4, <2>5, <2>6
<1>8. ASSUME NEW d \in Dispatchers, NEW e \in Events, Handle(d, e) PROVE DeliveryInv'
  <2>1. DbTypeOK'
    BY <1>8 DEF Handle, Enqueue, DbTypeOK, RowStatus, TxStatus, NoRows,
       dbVars, publisherVars, queueVars
  <2>2. PublisherTypeOK'
    BY <1>8 DEF Handle, Turn, PublisherTypeOK, dbVars
  <2>3. (QueueTypeOK /\ OneJobPerEvent)'
    BY <1>8 DEF Handle, Enqueue, QueueTypeOK, OneJobPerEvent, dbVars,
       publisherVars, queueVars
  <2>4. CopiesHaveJob'
    BY <1>8 DEF Handle, Enqueue, CopiesHaveJob, NoRows, DbTypeOK, dbVars,
       publisherVars, queueVars
  <2>5. (RememberedHasJob /\ HandledHasJob)'
    <3>1. RememberedHasJob'
      BY <1>8 DEF Handle, Enqueue, RememberedHasJob
    <3>2. ASSUME NEW c \in Dispatchers, NEW f \in Events,
                 step'[c] = "handling", Turn(c, f)'
          PROVE  f \in keys'
      <4>1. Turn(c, f) /\ keys' = keys \cup {e}
        BY <1>8, <3>2 DEF Handle, Enqueue, Turn
      <4>2. CASE c = d
        BY <1>8, <4>1, <4>2, TurnIsOne DEF Handle
      <4>3. CASE c # d
        BY <1>8, <3>2, <4>1, <4>3 DEF Handle, HandledHasJob, PublisherTypeOK
      <4> QED
        BY <4>2, <4>3
    <3> QED
      BY <3>1, <3>2 DEF HandledHasJob
  <2>6. RowsHaveJob'
    BY <1>8 DEF Handle, Enqueue, RowsHaveJob, DbTypeOK, dbVars,
       publisherVars, queueVars
  <2> QED
    BY <2>1, <2>2, <2>3, <2>4, <2>5, <2>6
<1>9. ASSUME NEW d \in Dispatchers, NEW e \in Events, Finish(d, e) PROVE DeliveryInv'
  <2>1. DbTypeOK'
    BY <1>9 DEF Finish, Publish, Marked, Drop, DbTypeOK, RowStatus,
       TxStatus, NoRows, dbVars, publisherVars, queueVars
  <2>2. PublisherTypeOK'
    BY <1>9 DEF Finish, Publish, Marked, Drop, PublisherTypeOK, dbVars,
       publisherVars, queueVars
  <2>3. (QueueTypeOK /\ OneJobPerEvent)'
    BY <1>9 DEF Finish, Publish, Marked, Drop, QueueTypeOK, OneJobPerEvent,
       dbVars, publisherVars, queueVars
  <2>4. CopiesHaveJob'
    BY <1>9 DEF Finish, Publish, Marked, Drop, CopiesHaveJob, NoRows,
       DbTypeOK, dbVars, publisherVars, queueVars
  <2>5. (RememberedHasJob /\ HandledHasJob)'
    BY <1>9 DEF Finish, Publish, Marked, Drop, RememberedHasJob,
       HandledHasJob, Turn, PublisherTypeOK, dbVars, publisherVars,
       queueVars
  <2>6. RowsHaveJob'
    BY <1>9 DEF Finish, Publish, Marked, Drop, RowsHaveJob, DbTypeOK,
       HandledHasJob, dbVars, publisherVars, queueVars
  <2> QED
    BY <2>1, <2>2, <2>3, <2>4, <2>5, <2>6
<1>10. ASSUME NEW d \in Dispatchers, NEW e \in Events, HandlerFails(d, e) PROVE DeliveryInv'
  <2>1. DbTypeOK'
    BY <1>10 DEF HandlerFails, Marked, Drop, DbTypeOK, RowStatus, TxStatus,
       NoRows, dbVars, publisherVars, queueVars
  <2>2. PublisherTypeOK'
    BY <1>10 DEF HandlerFails, Marked, Drop, PublisherTypeOK, dbVars,
       publisherVars, queueVars
  <2>3. (QueueTypeOK /\ OneJobPerEvent)'
    BY <1>10 DEF HandlerFails, Marked, Drop, QueueTypeOK, OneJobPerEvent,
       dbVars, publisherVars, queueVars
  <2>4. CopiesHaveJob'
    BY <1>10 DEF HandlerFails, Marked, Drop, CopiesHaveJob, NoRows,
       DbTypeOK, dbVars, publisherVars, queueVars
  <2>5. (RememberedHasJob /\ HandledHasJob)'
    BY <1>10 DEF HandlerFails, Marked, Drop, RememberedHasJob,
       HandledHasJob, Turn, PublisherTypeOK, dbVars, publisherVars,
       queueVars
  <2>6. RowsHaveJob'
    BY <1>10 DEF HandlerFails, Marked, Drop, RowsHaveJob, DbTypeOK, dbVars,
       publisherVars, queueVars
  <2> QED
    BY <2>1, <2>2, <2>3, <2>4, <2>5, <2>6
<1>11. CASE UNCHANGED vars
  BY <1>11 DEF vars, DbTypeOK, PublisherTypeOK, QueueTypeOK, OneJobPerEvent,
     CopiesHaveJob, RememberedHasJob, HandledHasJob, RowsHaveJob, Turn
<1> QED
  BY <1>1, <1>2, <1>3, <1>4, <1>5, <1>6, <1>7, <1>8, <1>9, <1>10, <1>11 DEF Next, Transact, Dispatch

LEMMA DeliveryInvariant == Spec => []DeliveryInv
  BY InitDelivery, StepDelivery, PTL DEF Spec

(* The tables, the publisher and the queue keep their types, and a job is  *)
(* counted exactly for the keys in use.                                    *)
THEOREM TypeCorrect == Spec => []TypeOK
<1>1. DeliveryInv => TypeOK
  BY DEF DeliveryInv
<1> QED
  BY <1>1, DeliveryInvariant, PTL

(* Overlapping batches and reopened rows never enqueue a second job for an *)
(* event, and no batch and no rollback leaves a published row without its  *)
(* job (index.ts 452-455).                                                 *)
THEOREM DeliveryIsOnce == Spec => []DeliveredOnce
<1>1. DeliveryInv => PublishedHasJob
  BY DEF DeliveryInv, TypeOK, QueueTypeOK, RowsHaveJob, PublishedHasJob
<1>2. DeliveryInv => DeliveredOnce
  BY <1>1 DEF DeliveryInv, DeliveredOnce
<1> QED
  BY <1>2, DeliveryInvariant, PTL

-----------------------------------------------------------------------------
(* Workflows. *)
Complete == {"completed", "compensated"}
Done == {s \in Steps : stepAt[s] \in {"completed", "skipped", "compensated"}}

(* Step s may be undone before step t.                                     *)
Free(s, t) == s # t /\ s \notin Needs(t)

Typed ==
  /\ plan \in Definitions
  /\ stepAt \in [Steps -> InFlight \cup {"waiting", "completed", "skipped", "failed",
                                         "cancelled", "compensated"}]
  /\ undoStack \in Seq(Steps) /\ unwound \in Seq([step : Steps, ok : BOOLEAN])
  /\ stopped \subseteq {"failed", "cancelled"} /\ wfPhase \in {"run", "undo", "done"}

(* A step that was begun rests on steps that are done.                     *)
RestsOnDone == \A s \in Steps : stepAt[s] # "waiting" => plan.deps[s] \subseteq Done

(* The stack from its top, after what was undone already, is an order in   *)
(* which all of it may be undone.                                          *)
StackOrdered == \A i, j \in DOMAIN undoStack : i < j => Free(undoStack[j], undoStack[i])
UnwoundOrdered == \A i, j \in DOMAIN unwound : i < j => Free(unwound[i].step, unwound[j].step)
UnwoundFirst == \A i \in DOMAIN unwound, k \in DOMAIN undoStack : Free(unwound[i].step, undoStack[k])

(* What can be undone is on the stack or was undone.                       *)
Stacked == {undoStack[k] : k \in DOMAIN undoStack}
Unwound == {unwound[i].step : i \in DOMAIN unwound}
Books == {s \in plan.undoable : stepAt[s] \in Complete} = Stacked \cup Unwound

Unwinds == stopped # {} /\ plan.rollback
Phases ==
  /\ wfPhase = "run" => unwound = <<>>
  /\ wfPhase # "run" => Running = {}
  /\ wfPhase = "undo" => Unwinds
  /\ wfPhase = "done" => IF Unwinds THEN undoStack = <<>> ELSE unwound = <<>>
  /\ wfPhase = "done" /\ stopped = {} => Finished \cup Failed = Steps

Excused == stopped = {} => Failed \subseteq plan.optional
Ordered == StackOrdered /\ UnwoundOrdered /\ UnwoundFirst

WfInv == Typed /\ RestsOnDone /\ Ordered /\ Books /\ Phases /\ Excused

(* All that a begun step rests on is done.                                 *)
LEMMA NeedsAreDone ==
  ASSUME Typed, RestsOnDone, NEW s \in Steps, stepAt[s] # "waiting"
  PROVE  Needs(s) \subseteq Done
<1>1. plan.deps[s] \subseteq Done
  BY DEF RestsOnDone
<1>2. \A c \in Done : plan.deps[c] \subseteq Done
  BY DEF RestsOnDone, Done
<1>3. Done \in SUBSET Steps
  BY DEF Done
<1> QED
  BY <1>1, <1>2, <1>3 DEF Needs

LEMMA FrontProperties ==
  ASSUME NEW S, NEW q \in Seq(S), q # <<>>
  PROVE  /\ Front(q) \in Seq(S) /\ DOMAIN Front(q) = 1..(Len(q) - 1)
         /\ \A i \in 1..(Len(q) - 1) : Front(q)[i] = q[i]
         /\ Len(q) \in DOMAIN q /\ Last(q) = q[Len(q)] /\ Last(q) \in S
  BY DEF Front, Last

LEMMA InitWf == WfInit => WfInv
<1> SUFFICES ASSUME WfInit PROVE WfInv
  OBVIOUS
<1> USE DEF WfInit
<1>1. Typed
  BY DEF Typed
<1>2. RestsOnDone /\ Excused
  BY DEF RestsOnDone, Excused, Failed
<1>3. Ordered
  BY DEF Ordered, StackOrdered, UnwoundOrdered, UnwoundFirst
<1>4. Books
  <2>1. Stacked = {} /\ Unwound = {}
    BY DEF Stacked, Unwound
  <2>2. plan.undoable \subseteq Steps
    BY WorkflowAssumption
  <2> QED
    BY <2>1, <2>2 DEF Books, Complete
<1>5. Phases
  BY DEF Phases
<1> QED
  BY <1>1, <1>2, <1>3, <1>4, <1>5 DEF WfInv

(* What a step leaves alone when neither the stack nor a completed step    *)
(* changes.                                                                *)
LEMMA NothingUndone ==
  ASSUME WfInv, Typed', UNCHANGED <<plan, undoStack, unwound>>,
         \A s \in Steps : stepAt'[s] \in Complete <=> stepAt[s] \in Complete
  PROVE  Ordered' /\ Books'
<1>1. \A s : Needs(s)' = Needs(s)
  BY DEF Needs
<1>2. Ordered'
  BY <1>1 DEF WfInv, Ordered, StackOrdered, UnwoundOrdered, UnwoundFirst, Free
<1>3. plan.undoable \subseteq Steps
  BY WorkflowAssumption DEF WfInv, Typed
<1>4. Books'
  BY <1>3 DEF WfInv, Books, Stacked, Unwound
<1> QED
  BY <1>2, <1>4

(* Steps that are done stay done and those that begin are ready.           *)
LEMMA RestStays ==
  ASSUME WfInv, Typed', plan' = plan,
         \A s \in Steps : s \in Done => s \in Done',
         \A s \in Steps : stepAt[s] = "waiting" /\ stepAt'[s] # "waiting" => plan.deps[s] \subseteq Done
  PROVE  RestsOnDone'
<1> SUFFICES ASSUME NEW s \in Steps, stepAt'[s] # "waiting" PROVE plan.deps[s] \subseteq Done'
  BY DEF RestsOnDone
<1>1. plan.deps[s] \subseteq Done
  BY DEF WfInv, RestsOnDone
<1>2. Done \subseteq Done'
  BY DEF Done
<1> QED
  BY <1>1, <1>2

LEMMA StepWf == WfInv /\ [WfNext]_wfVars => WfInv'
<1> SUFFICES ASSUME WfInv, [WfNext]_wfVars PROVE WfInv'
  OBVIOUS
<1> USE DEF WfInv
<1>1. ASSUME WfBatch PROVE WfInv'
  <2>1. Typed'
    BY <1>1 DEF WfBatch, Typed, InFlight
  <2>2. \A s \in Steps : stepAt'[s] \in Complete <=> stepAt[s] \in Complete
    BY <1>1 DEF WfBatch, Typed, FirstOf, Ready, Complete
  <2>3. Ordered' /\ Books'
    BY <1>1, <2>1, <2>2, NothingUndone DEF WfBatch
  <2>4. RestsOnDone'
    <3>1. Finished \subseteq Done
      BY DEF Finished, Done
    <3>2. \A s \in Steps : s \in Done => s \in Done'
      BY <1>1 DEF WfBatch, Typed, FirstOf, Ready, Done
    <3>3. \A s \in Steps : stepAt[s] = "waiting" /\ stepAt'[s] # "waiting" => plan.deps[s] \subseteq Done
      BY <1>1, <3>1 DEF WfBatch, Typed, FirstOf, Ready
    <3> QED
      BY <1>1, <2>1, <3>2, <3>3, RestStays DEF WfBatch
  <2>5. Phases'
    BY <1>1 DEF WfBatch, Looping, Phases
  <2>6. Excused'
    BY <1>1 DEF WfBatch, Typed, FirstOf, Ready, Excused, Failed
  <2> QED
    BY <2>1, <2>3, <2>4, <2>5, <2>6
<1>2. ASSUME WfBreak PROVE WfInv'
  <2>1. Typed'
    BY <1>2 DEF WfBreak, Typed
  <2>2. \A s \in Steps : stepAt'[s] \in Complete <=> stepAt[s] \in Complete
    BY <1>2 DEF WfBreak
  <2>3. Ordered' /\ Books'
    BY <1>2, <2>1, <2>2, NothingUndone DEF WfBreak
  <2>4. RestsOnDone'
    BY <1>2 DEF WfBreak, RestsOnDone, Done
  <2>5. Phases'
    BY <1>2 DEF WfBreak, Looping, Phases
  <2>6. Excused'
    BY <1>2 DEF WfBreak, Excused
  <2> QED
    BY <2>1, <2>3, <2>4, <2>5, <2>6
<1>3. ASSUME NEW s \in Steps, WfStart(s) \/ WfError(s) \/ WfRetry(s) \/ WfFail(s) PROVE WfInv'
  <2>0. /\ s \in Running /\ s \in Running' \cup {t \in Steps : stepAt'[t] \in {"skipped", "failed", "cancelled"}}
        /\ stepAt' = [stepAt EXCEPT ![s] = stepAt'[s]]
        /\ UNCHANGED <<plan, undoStack, unwound, wfPhase>>
    BY <1>3 DEF WfStart, WfError, WfRetry, WfFail, Attempt, Running, InFlight, Typed
  <2>1. Typed'
    <3>1. stopped' \subseteq {"failed", "cancelled"}
      BY <1>3 DEF WfStart, WfError, WfRetry, WfFail, Stops, Typed
    <3> QED
      BY <2>0, <3>1 DEF Typed, Running
  <2>2. \A t \in Steps : stepAt'[t] \in Complete <=> stepAt[t] \in Complete
    BY <2>0 DEF Typed, Running, InFlight, Complete
  <2>3. Ordered' /\ Books'
    BY <2>0, <2>1, <2>2, NothingUndone
  <2>4. RestsOnDone'
    <3>1. \A t \in Steps : t \in Done => t \in Done'
      BY <2>0 DEF Typed, Running, InFlight, Done
    <3>2. \A t \in Steps : stepAt[t] = "waiting" => stepAt'[t] = "waiting"
      BY <2>0 DEF Typed, Running, InFlight
    <3> QED
      BY <2>0, <2>1, <3>1, <3>2, RestStays
  <2>5. wfPhase = "run"
    BY <2>0 DEF Phases, Typed
  <2>6. Phases'
    BY <2>0, <2>5 DEF Phases
  <2>7. Excused'
    <3>1. CASE stepAt'[s] \notin {"failed", "cancelled"}
      <4>1. stopped' = stopped
        BY <1>3, <3>1 DEF WfStart, WfError, WfRetry, WfFail, Typed
      <4> QED
        BY <2>0, <3>1, <4>1 DEF Excused, Failed, Typed
    <3>2. CASE stepAt'[s] \in {"failed", "cancelled"}
      <4>1. PICK why \in {"failed", "cancelled"} : Stops(s, why)
        BY <1>3, <3>2 DEF WfStart, WfError, WfRetry, WfFail, Attempt, Typed
      <4>2. stopped' = {} => s \in plan.optional /\ stopped = {}
        BY <4>1 DEF Stops
      <4> QED
        BY <2>0, <4>2 DEF Excused, Failed, Typed
    <3> QED
      BY <3>1, <3>2
  <2> QED
    BY <2>1, <2>3, <2>4, <2>6, <2>7
<1>4. ASSUME NEW s \in Steps, WfSucceed(s) PROVE WfInv'
  <2>0. /\ s \in Running /\ stepAt' = [stepAt EXCEPT ![s] = "completed"]
        /\ UNCHANGED <<plan, unwound, stopped, wfPhase>>
    BY <1>4 DEF WfSucceed, Running, InFlight
  <2>1. Typed'
    <3>1. undoStack' \in Seq(Steps)
      BY <1>4 DEF WfSucceed, Typed
    <3> QED
      BY <2>0, <3>1 DEF Typed
  <2>2. wfPhase = "run" /\ unwound = <<>>
    BY <2>0 DEF Phases, Typed
  <2>3. RestsOnDone'
    <3>1. \A t \in Steps : t \in Done => t \in Done'
      BY <2>0 DEF Typed, Done
    <3>2. \A t \in Steps : stepAt[t] = "waiting" => stepAt'[t] = "waiting"
      BY <2>0 DEF Typed, Running, InFlight
    <3> QED
      BY <2>0, <2>1, <3>1, <3>2, RestStays
  <2>4. \A t : Needs(t)' = Needs(t)
    BY <2>0 DEF Needs
  <2>5. \A k \in DOMAIN undoStack : undoStack[k] \in Done /\ Free(s, undoStack[k])
    <3> SUFFICES ASSUME NEW k \in DOMAIN undoStack
                 PROVE undoStack[k] \in Done /\ Free(s, undoStack[k])
      OBVIOUS
    <3>1. undoStack[k] \in Steps /\ stepAt[undoStack[k]] \in Complete
      BY DEF Books, Stacked, Typed
    <3>2. Needs(undoStack[k]) \subseteq Done
      BY <3>1, NeedsAreDone DEF Complete
    <3>3. s \notin Done
      BY <2>0 DEF Running, InFlight, Done
    <3> QED
      BY <3>1, <3>2, <3>3 DEF Free, Done, Complete
  <2>6. ASSUME s \in plan.undoable PROVE Ordered' /\ Books'
    <3>1. undoStack' = Append(undoStack, s)
      BY <1>4, <2>6 DEF WfSucceed
    <3>2. /\ DOMAIN undoStack' = 1..(Len(undoStack) + 1) /\ DOMAIN undoStack = 1..Len(undoStack)
          /\ Len(undoStack) \in Nat /\ undoStack'[Len(undoStack) + 1] = s
          /\ \A k \in 1..Len(undoStack) : undoStack'[k] = undoStack[k]
      BY <3>1 DEF Typed
    <3>3. StackOrdered'
      BY <2>4, <2>5, <3>2 DEF Ordered, StackOrdered, Free
    <3>4. UnwoundOrdered' /\ UnwoundFirst'
      BY <2>0, <2>2 DEF UnwoundOrdered, UnwoundFirst
    <3>5. Stacked' = Stacked \cup {s}
      BY <3>2 DEF Stacked
    <3>6. {t \in plan.undoable : stepAt'[t] \in Complete} = {t \in plan.undoable : stepAt[t] \in Complete} \cup {s}
      BY <2>0, <2>6, WorkflowAssumption DEF Typed, Complete
    <3>7. Books'
      BY <2>0, <3>5, <3>6 DEF Books, Unwound
    <3> QED
      BY <3>3, <3>4, <3>7 DEF Ordered
  <2>7. ASSUME s \notin plan.undoable PROVE Ordered' /\ Books'
    <3>1. undoStack' = undoStack
      BY <1>4, <2>7 DEF WfSucceed
    <3>2. Ordered'
      BY <2>0, <2>4, <3>1 DEF Ordered, StackOrdered, UnwoundOrdered, UnwoundFirst, Free
    <3>3. {t \in plan.undoable : stepAt'[t] \in Complete} = {t \in plan.undoable : stepAt[t] \in Complete}
      BY <2>0, <2>7, WorkflowAssumption DEF Typed
    <3>4. Books'
      BY <2>0, <3>1, <3>3 DEF Books, Unwound, Stacked
    <3> QED
      BY <3>2, <3>4
  <2>8. Phases'
    BY <2>0, <2>2 DEF Phases
  <2>9. Excused'
    BY <2>0 DEF Excused, Failed, Typed
  <2> QED
    BY <2>1, <2>3, <2>6, <2>7, <2>8, <2>9 DEF Ordered
<1>5. ASSUME WfSettle PROVE WfInv'
  <2>1. Typed'
    BY <1>5 DEF WfSettle, Typed
  <2>2. Ordered' /\ Books'
    BY <1>5, <2>1, NothingUndone DEF WfSettle
  <2>3. RestsOnDone' /\ Excused'
    BY <1>5 DEF WfSettle, RestsOnDone, Done, Excused, Failed
  <2>4. Phases'
    BY <1>5 DEF WfSettle, Phases, Unwinds, Running, Finished, Failed
  <2> QED
    BY <2>1, <2>2, <2>3, <2>4
<1>6. ASSUME NEW ok \in BOOLEAN, WfUndo(ok) PROVE WfInv'
  <2>0. /\ wfPhase = "undo" /\ undoStack # <<>> /\ undoStack' = Front(undoStack)
        /\ unwound' = Append(unwound, [step |-> Last(undoStack), ok |-> ok])
        /\ UNCHANGED <<plan, stepAt, stopped, wfPhase>>
    BY <1>6 DEF WfUndo
  <2> DEFINE n == Len(undoStack)
             m == Len(unwound)
  <2>1. /\ undoStack' \in Seq(Steps) /\ DOMAIN undoStack' = 1..(n - 1)
        /\ \A i \in 1..(n - 1) : undoStack'[i] = undoStack[i]
        /\ n \in DOMAIN undoStack /\ Last(undoStack) = undoStack[n] /\ Last(undoStack) \in Steps
        /\ DOMAIN undoStack = 1..n /\ n \in Nat
    <3>1. undoStack \in Seq(Steps) /\ undoStack # <<>>
      BY <2>0 DEF Typed
    <3>2. DOMAIN undoStack = 1..n /\ n \in Nat
      BY <3>1
    <3> QED
      BY <2>0, <3>1, <3>2, FrontProperties
  <2>2. /\ unwound' \in Seq([step : Steps, ok : BOOLEAN])
        /\ DOMAIN unwound' = 1..(m + 1) /\ DOMAIN unwound = 1..m /\ m \in Nat
        /\ unwound'[m + 1] = [step |-> undoStack[n], ok |-> ok]
        /\ \A i \in 1..m : unwound'[i] = unwound[i]
    BY <2>0, <2>1 DEF Typed
  <2> HIDE DEF n, m
  <2>3. Typed'
    BY <2>0, <2>1, <2>2 DEF Typed
  <2>4. RestsOnDone' /\ Excused'
    BY <2>0 DEF RestsOnDone, Done, Excused, Failed
  <2>5. \A t : Needs(t)' = Needs(t)
    BY <2>0 DEF Needs
  <2>6. unwound'[m + 1].step = undoStack[n]
    BY <2>2
  <2>7. StackOrdered'
    BY <2>1, <2>5 DEF Ordered, StackOrdered, Free
  <2>8. UnwoundOrdered'
    BY <2>1, <2>2, <2>5, <2>6 DEF Ordered, UnwoundOrdered, UnwoundFirst, Free
  <2>9. UnwoundFirst'
    BY <2>1, <2>2, <2>5, <2>6 DEF Ordered, StackOrdered, UnwoundFirst, Free
  <2>10. Stacked \cup Unwound = Stacked' \cup Unwound'
    <3>1. Stacked = Stacked' \cup {undoStack[n]}
      BY <2>1 DEF Stacked
    <3>2. Unwound' = Unwound \cup {undoStack[n]}
      BY <2>2, <2>6 DEF Unwound
    <3> QED
      BY <3>1, <3>2
  <2>11. Books'
    BY <2>0, <2>10 DEF Books
  <2>12. Phases'
    BY <2>0 DEF Phases, Unwinds, Running
  <2> QED
    BY <2>3, <2>4, <2>7, <2>8, <2>9, <2>11, <2>12 DEF Ordered
<1>7. ASSUME WfReport PROVE WfInv'
  <2>1. \A s \in Steps : [step |-> s, ok |-> TRUE] \in ToSet(unwound) => stepAt[s] \in Complete
    <3> SUFFICES ASSUME NEW s \in Steps, [step |-> s, ok |-> TRUE] \in ToSet(unwound)
                 PROVE stepAt[s] \in Complete
      OBVIOUS
    <3>1. PICK i \in DOMAIN unwound : unwound[i] = [step |-> s, ok |-> TRUE]
      BY DEF ToSet
    <3>2. s \in Unwound
      BY <3>1 DEF Unwound
    <3> QED
      BY <3>2 DEF Books
  <2>2. \A s \in Steps : \/ stepAt'[s] = stepAt[s]
                         \/ stepAt'[s] = "compensated" /\ stepAt[s] \in Complete
    BY <1>7, <2>1 DEF WfReport
  <2>3. Typed'
    BY <1>7 DEF WfReport, Typed
  <2>4. Ordered' /\ Books'
    <3>1. \A s \in Steps : stepAt'[s] \in Complete <=> stepAt[s] \in Complete
      BY <2>2 DEF Complete
    <3> QED
      BY <1>7, <2>3, <3>1, NothingUndone DEF WfReport
  <2>5. RestsOnDone'
    <3>1. \A s \in Steps : s \in Done => s \in Done'
      BY <2>2 DEF Done
    <3>2. \A s \in Steps : stepAt[s] = "waiting" => stepAt'[s] = "waiting"
      BY <2>2 DEF Complete
    <3> QED
      BY <1>7, <2>3, <3>1, <3>2, RestStays DEF WfReport
  <2>6. Phases'
    <3>1. Running' = {}
      BY <1>7, <2>2 DEF WfReport, Phases, Running, InFlight
    <3>2. Unwinds /\ Unwinds'
      BY <1>7 DEF WfReport, Phases, Unwinds
    <3> QED
      BY <1>7, <3>1, <3>2 DEF WfReport, Phases, Unwinds
  <2>7. Excused'
    BY <1>7 DEF WfReport, Excused, Phases, Unwinds
  <2> QED
    BY <2>3, <2>4, <2>5, <2>6, <2>7
<1>8. CASE WfAbort \/ UNCHANGED wfVars
  <2>1. UNCHANGED <<plan, stepAt, undoStack, unwound, stopped, wfPhase>>
    BY <1>8 DEF WfAbort, wfVars
  <2>2. Typed' /\ RestsOnDone' /\ Excused'
    BY <2>1 DEF Typed, RestsOnDone, Done, Excused, Failed
  <2>3. Ordered' /\ Books'
    BY <2>1, <2>2, NothingUndone
  <2>4. Phases'
    BY <2>1 DEF Phases, Unwinds, Running, Finished, Failed
  <2> QED
    BY <2>2, <2>3, <2>4
<1> QED
  BY <1>1, <1>2, <1>3, <1>4, <1>5, <1>6, <1>7, <1>8 DEF WfNext, WfGoesOn, WfStep

LEMMA WfInvariant == WfSpec => []WfInv
  BY InitWf, StepWf, PTL DEF WfSpec

(* Only an abort cancels.                                                  *)
AbortKnown == "cancelled" \in stopped => aborted

LEMMA AbortInvariant == WfSpec => []AbortKnown
<1>1. WfInit => AbortKnown
  BY DEF WfInit, AbortKnown
<1>2. AbortKnown /\ [WfNext]_wfVars => AbortKnown'
  <2> SUFFICES ASSUME AbortKnown, [WfNext]_wfVars PROVE AbortKnown'
    OBVIOUS
  <2>1. CASE WfBatch \/ WfSettle \/ WfReport \/ UNCHANGED wfVars
    BY <2>1, Zenon DEF WfBatch, WfSettle, WfReport, wfVars, AbortKnown
  <2>2. CASE WfBreak
    <3>1. CASE aborted /\ stopped' = {"cancelled"}
      BY <2>2, <3>1, Zenon DEF WfBreak, AbortKnown
    <3>2. CASE stopped' = {"failed"}
      <4>1. "cancelled" \notin stopped'
        BY <3>2
      <4> QED
        BY <4>1 DEF AbortKnown
    <3> QED
      BY <2>2, <3>1, <3>2 DEF WfBreak
  <2>3. ASSUME NEW s \in Steps, WfStart(s) PROVE AbortKnown'
    <3>1. "cancelled" \in stopped' => "cancelled" \in stopped
      BY <2>3 DEF WfStart, Stops, Attempt
    <3> QED
      BY <2>3, <3>1, Zenon DEF WfStart, AbortKnown
  <2>4. ASSUME NEW s \in Steps, WfSucceed(s) \/ WfError(s) \/ WfRetry(s) PROVE AbortKnown'
    BY <2>4, Zenon DEF WfSucceed, WfError, WfRetry, AbortKnown
  <2>5. ASSUME NEW s \in Steps, WfFail(s) PROVE AbortKnown'
    <3>1. CASE aborted
      BY <2>5, <3>1, Zenon DEF WfFail, AbortKnown
    <3>2. CASE ~aborted
      <4>1. Stops(s, "failed")
        BY <2>5, <3>2, Zenon DEF WfFail
      <4>2. "cancelled" \in stopped' => "cancelled" \in stopped
        BY <4>1 DEF Stops
      <4> QED
        BY <2>5, <4>2, Zenon DEF WfFail, AbortKnown
    <3> QED
      BY <3>1, <3>2
  <2>6. ASSUME NEW ok \in BOOLEAN, WfUndo(ok) PROVE AbortKnown'
    BY <2>6, Zenon DEF WfUndo, AbortKnown
  <2>7. CASE WfAbort
    BY <2>7, Zenon DEF WfAbort, AbortKnown
  <2> QED
    BY <2>1, <2>2, <2>3, <2>4, <2>5, <2>6, <2>7 DEF WfNext, WfGoesOn, WfStep
<1> QED
  BY <1>1, <1>2, PTL DEF WfSpec

(* A step that has not begun was not tried, and one waiting for its retry  *)
(* has a retry left.                                                       *)
Budget(s) ==
  /\ stepAt[s] \in {"waiting", "starting"} => tries[s] = 0
  /\ stepAt[s] = "backoff" => tries[s] <= MaxRetries
Tried == tries \in [Steps -> 0..(MaxRetries + 1)] /\ \A s \in Steps : Budget(s)

LEMMA AttemptKeepsTried ==
  ASSUME Typed, Tried, NEW s \in Steps, tries[s] <= MaxRetries, Attempt(s)
  PROVE  Tried'
<1>1. CASE aborted
  BY <1>1 DEF Attempt, Typed, Tried, Budget
<1>2. CASE ~aborted
  <2>1. tries' = [tries EXCEPT ![s] = tries[s] + 1] /\ tries[s] + 1 \in 0..(MaxRetries + 1)
    BY <1>2, WorkflowAssumption DEF Attempt, Tried
  <2> QED
    BY <1>2, <2>1 DEF Attempt, Typed, Tried, Budget
<1> QED
  BY <1>1, <1>2

LEMMA TriedInvariant == WfSpec => []Tried
<1>1. WfInit => Tried
  BY WorkflowAssumption DEF WfInit, Tried, Budget
<1>2. WfInv /\ Tried /\ [WfNext]_wfVars => Tried'
  <2> SUFFICES ASSUME Typed, Tried, [WfNext]_wfVars PROVE Tried'
    BY DEF WfInv
  <2> USE DEF Typed, Tried, Budget
  <2>1. CASE WfBreak \/ WfSettle \/ WfAbort \/ (\E ok \in BOOLEAN : WfUndo(ok)) \/ UNCHANGED wfVars
    BY <2>1 DEF WfBreak, WfSettle, WfAbort, WfUndo, wfVars
  <2>2. CASE WfBatch
    BY <2>2 DEF WfBatch, FirstOf, Ready
  <2>3. CASE WfReport
    BY <2>3 DEF WfReport
  <2>4. ASSUME NEW s \in Steps, WfStart(s) PROVE Tried'
    <3>1. CASE Attempt(s)
      <4>1. tries[s] <= MaxRetries
        BY <2>4, WorkflowAssumption DEF WfStart
      <4> QED
        BY <3>1, <4>1, AttemptKeepsTried
    <3>2. CASE ~Attempt(s)
      BY <2>4, <3>2 DEF WfStart
    <3> QED
      BY <3>1, <3>2
  <2>5. ASSUME NEW s \in Steps, WfRetry(s) PROVE Tried'
    BY <2>5, AttemptKeepsTried DEF WfRetry
  <2>6. ASSUME NEW s \in Steps, WfSucceed(s) \/ WfError(s) \/ WfFail(s) PROVE Tried'
    BY <2>6 DEF WfSucceed, WfError, WfFail
  <2> QED
    BY <2>1, <2>2, <2>3, <2>4, <2>5, <2>6 DEF WfNext, WfGoesOn, WfStep
<1> QED
  BY <1>1, <1>2, WfInvariant, PTL DEF WfSpec

SignalTyped == aborted \in BOOLEAN

LEMMA AbortedTyped == WfSpec => []SignalTyped
<1>1. WfInit => SignalTyped
  BY Zenon DEF WfInit, SignalTyped
<1>2. SignalTyped /\ [WfNext]_wfVars => SignalTyped'
  BY Zenon DEF WfNext, WfGoesOn, WfStep, WfBatch, WfBreak, WfStart, WfSucceed, WfError, WfRetry, WfFail,
       WfSettle, WfUndo, WfReport, WfAbort, wfVars, SignalTyped
<1> QED
  BY <1>1, <1>2, PTL DEF WfSpec

(* Every variable keeps its type and no step is tried more than its first  *)
(* time and MaxRetries times again (executeStep's attempt loop).           *)
THEOREM TriesAreBounded == WfSpec => []WfTypeOK
<1>1. WfInv /\ Tried /\ SignalTyped => WfTypeOK
  BY DEF WfInv, Typed, Tried, SignalTyped, WfTypeOK
<1> QED
  BY <1>1, WfInvariant, TriedInvariant, AbortedTyped, PTL

(* Whatever order steps end in, and whenever one fails or the caller       *)
(* aborts, the unwinding begins when nothing runs, undoes only completed   *)
(* steps, each once, and none before a step that rests on it               *)
(* (executeCompensation).                                                  *)
THEOREM WorkIsUndoneInReverse == WfSpec => []UndoneInReverse
<1>1. WfInv => UndoneInReverse
  <2> SUFFICES ASSUME WfInv PROVE UndoneInReverse
    OBVIOUS
  <2>1. unwound # <<>> => Running = {}
    BY DEF WfInv, Phases
  <2>2. \A i \in DOMAIN unwound : stepAt[unwound[i].step] \in {"completed", "compensated"}
    BY DEF WfInv, Books, Unwound, Complete
  <2>3. \A i, j \in DOMAIN unwound : i < j => Free(unwound[i].step, unwound[j].step)
    BY DEF WfInv, Ordered, UnwoundOrdered
  <2> QED
    BY <2>1, <2>2, <2>3 DEF UndoneInReverse, Free
<1> QED
  BY <1>1, WfInvariant, PTL

(* When a workflow is over its result is true: EndsWhole without the       *)
(* promise that it ends (executeCompensation, the status of the result).   *)
THEOREM ResultIsTrue == WfSpec => [](wfPhase = "done" => Whole)
<1>1. WfInv /\ AbortKnown /\ wfPhase = "done" => Whole
  <2> SUFFICES ASSUME WfInv, AbortKnown, wfPhase = "done" PROVE Whole
    OBVIOUS
  <2>1. Outcome = "completed" <=> stopped = {}
    BY DEF WfInv, Typed, Outcome
  <2>2. CASE Unwinds
    <3>1. undoStack = <<>>
      BY <2>2 DEF WfInv, Phases
    <3>2. Stacked = {}
      BY <3>1 DEF Stacked
    <3>3. Unwound = {s \in plan.undoable : stepAt[s] \in {"completed", "compensated"}}
      BY <3>2 DEF WfInv, Books, Complete
    <3> QED
      BY <2>1, <2>2, <3>3 DEF Whole, Unwinds, Unwound, Outcome, AbortKnown
  <2>3. CASE ~Unwinds
    <3>1. Unwound = {}
      BY <2>3 DEF WfInv, Phases, Unwound
    <3>2. stopped = {} => Failed \subseteq plan.optional /\ Finished \cup Failed = Steps
      BY DEF WfInv, Excused, Phases
    <3>3. ~(Outcome # "completed" /\ plan.rollback)
      BY <2>1, <2>3 DEF Unwinds
    <3>4. {unwound[i].step : i \in DOMAIN unwound} = {}
      BY <3>1 DEF Unwound
    <3>5. Outcome = "cancelled" => aborted
      BY DEF Outcome, AbortKnown
    <3> QED
      BY <2>1, <3>2, <3>3, <3>4, <3>5 DEF Whole
  <2> QED
    BY <2>2, <2>3
<1> QED
  BY <1>1, WfInvariant, AbortInvariant, PTL

-----------------------------------------------------------------------------
(* Beside each other.  *)
(* A behaviour of the instance that MCSettling gives TLC is one of each of *)
(* its components: the others stand still.                                 *)
THEOREM SettlingComposes == MCSpec => Spec /\ LockSpec /\ WfInit /\ [][WfNext]_wfVars
<1>1. MCInit => Init /\ LockInit /\ WfInit
  BY DEF MCInit
<1>2. [MCNext]_MCVars => [Next]_vars /\ [LockNext]_lockVars /\ [WfNext]_wfVars
  BY DEF MCNext, MCVars, InOutbox, InLock, InWorkflow
<1> HIDE DEF MCInit, Init, LockInit, WfInit, MCNext, Next, LockNext, WfNext, MCVars, vars, lockVars,
             wfVars, InOutbox, InLock, InWorkflow
<1> QED  BY <1>1, <1>2, PTL DEF MCSpec, Spec, LockSpec
=============================================================================
