------------------------------ MODULE MCIntake ------------------------------
(***************************************************************************)
(* One instance of two modules for TLC: the job queue of the cloud and the *)
(* intake of observations, which stands on it and on the outbox.  They     *)
(* share no variables: a behaviour is one of the first or of the second.   *)
(***************************************************************************)
EXTENDS WorkQueue, Ingestion

VARIABLE part
MCVars == <<part, vars, intakeVars>>

(* A batch, one that shares an event with it and one of its cursor.        *)
B(id, cursor, events) == [id |-> id, cursor |-> cursor, events |-> events]
Sent == {B(1, 1, {2}), B(2, 0, {1, 2}), B(3, 1, {1})}
FirstUpload == CHOOSE u \in Uploads : TRUE

MCInit ==
  /\ part \in {"queue", "intake"} /\ Init /\ IntakeInit
  /\ \A u \in Uploads : part = "queue" \/ u = FirstUpload => BatchOf(u) = B(1, 1, {2})

InQueue(A) == part = "queue" /\ A /\ UNCHANGED <<part, intakeVars>>

(* Nothing is claimed of an intake after a rollback put back the tables of *)
(* other transactions: the bound of this part.                             *)
InIntake(A) == part = "intake" /\ "restored" \notin mishaps /\ A /\ UNCHANGED <<part, vars>>

MCNext == InQueue(Next) \/ InIntake(IntakeNext)

(* Timers fire, the poll loop goes on, the process is started again and    *)
(* handlers settle (WorkQueue's Fairness); uploads that were made, jobs    *)
(* and their transactions go on.                                           *)
MCSpec ==
  /\ MCInit /\ [][MCNext]_MCVars
  /\ WF_MCVars(InQueue(Start))
  /\ WF_MCVars(InQueue(PollEmpty))
  /\ \A j \in Jobs : /\ WF_MCVars(InQueue(Elapse(j)))
                     /\ WF_MCVars(InQueue(PollTake(j)))
                     /\ WF_MCVars(InQueue(Ack(j) \/ Nack(j)))
  /\ WF_MCVars(InIntake(IntakeGoesOn))

(* The type invariants of both. *)
TypesOK == TypeOK /\ IntakeTypeOK

(* IntakeSettles, which speaks of uploads that are made: what was accepted *)
(* is stored, and counted once.                                            *)
AcceptedIsStoredOnce == part = "intake" => IntakeSettles
=============================================================================
