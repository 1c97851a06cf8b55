---------------------------- MODULE MCDeployment ----------------------------
(***************************************************************************)
(* One instance of two modules for TLC: the transactions of the local      *)
(* database, and the commands and reconciliations of one tool with two     *)
(* versions.  They share no variables: a behaviour is one of the first or  *)
(* one of the second.                                                      *)
(***************************************************************************)
EXTENDS MCLocalTransaction, DeploymentSync

VARIABLE part
MCVars == <<part, vars, syncVars>>

(* Three commands, in any order: a canary of version 2, a rollback or a    *)
(* resumption, and an activation of version 1 or something that takes the  *)
(* tool away or back.                                                      *)
Order(i, k, v) == [id |-> i, kind |-> k, tool |-> "tool", ver |-> v]
AllOrders == {Order(1, "activate", 1), Order(2, "canary", 2)}
               \cup {Order(1, k, NoVersion) : k \in {"restore", "suspend", "retire"}}
               \cup {Order(3, k, NoVersion) : k \in {"rollback", "resume"}}

MCInit == part \in {"transaction", "sync"} /\ Init /\ DepInit

InTransactions(A) == part = "transaction" /\ A /\ UNCHANGED <<part, syncVars>>
InSync(A) == part = "sync" /\ A /\ UNCHANGED <<part, vars>>

(* The type invariants of both.                                            *)
TypesOK == TypeOK /\ DepTypeOK

(* Promises that were made are kept: a command that is at the head of its  *)
(* queue runs on, and so does a reconciliation.                            *)
MCSpec ==
  /\ MCInit /\ [][InTransactions(Next) \/ InSync(DepNext)]_MCVars
  /\ WF_MCVars(InSync(Reconciling))
  /\ \A t \in Tools : WF_MCVars(InSync(ToolStep(t)))
=============================================================================
