---------------------------- MODULE MCSettling -----------------------------
(***************************************************************************)
(* One instance of three modules for TLC that all have to settle: the      *)
(* outbox of the cloud, the lock of the daemon and a workflow of the       *)
(* runtime.  They share no variables: a behaviour is one of the first, of  *)
(* the second or of the third.                                             *)
(***************************************************************************)
EXTENDS Outbox, DaemonLock, Workflow

VARIABLE part
MCVars == <<part, vars, lockVars, wfVars>>

W(deps, optional, undoable, rollback) ==
  [deps |-> deps, optional |-> optional, undoable |-> undoable, rollback |-> rollback]

(* A join of two steps one of which may fail, a diamond, a circle that     *)
(* stalls beside a step that may fail, and a policy without rollback.      *)
Workflows ==
  {W(<<{}, {}, {1, 2}, {3}>>, {2}, {1, 2, 4}, TRUE),
   W(<<{}, {1}, {1}, {2, 3}>>, {3}, {1, 2, 3}, TRUE),
   W(<<{}, {}, {4}, {3}>>, {1}, {1, 2}, TRUE),
   W(<<{}, {}, {}, {1}>>, {3}, {1, 2}, FALSE)}

MCInit ==
  /\ part \in {"outbox", "lock", "workflow"} /\ Init /\ LockInit /\ WfInit
  /\ part # "workflow" => ~plan.rollback

InOutbox(A) == part = "outbox" /\ A /\ UNCHANGED <<part, lockVars, wfVars>>
InLock(A) == part = "lock" /\ A /\ UNCHANGED <<part, vars, wfVars>>
InWorkflow(A) == part = "workflow" /\ A /\ UNCHANGED <<part, vars, lockVars>>

MCNext == InOutbox(Next) \/ InLock(LockNext) \/ InWorkflow(WfNext)

(* Transactions end and every batch goes on, the timer starts the next; a  *)
(* live daemon goes on, and is started again; broker calls end, and a      *)
(* workflow runs on.                                                       *)
MCSpec ==
  /\ MCInit /\ [][MCNext]_MCVars
  /\ \A e \in Events : WF_MCVars(InOutbox(Insert(e) \/ Commit(e) \/ Abort(e)))
  /\ \A d \in Dispatchers : WF_MCVars(InOutbox(Dispatch(d)))
  /\ \A d \in Daemons : WF_MCVars(InLock(LockStepOf(d)))
  /\ WF_MCVars(InWorkflow(WfGoesOn))

(* LockRecovered, which speaks of daemons that run: a lock left behind     *)
(* never keeps everyone out.                                               *)
LockIsRecovered == part = "lock" => LockRecovered

(* EndsWhole, which speaks of a workflow that runs: it ends, and with a    *)
(* true result.                                                            *)
WorkflowEndsWhole == part = "workflow" => EndsWhole
=============================================================================
