------------------------------ MODULE MCTailing ------------------------------
(***************************************************************************)
(* One instance of four modules for TLC: the transactions of the local     *)
(* database, a tailed transcript, the lock of the daemon and the catalog   *)
(* of the gateway.  They share no variables: a behaviour is one of the     *)
(* first, of the second, of the third or of the fourth.                    *)
(***************************************************************************)
EXTENDS MCLocalTransaction, TranscriptTail, DaemonLock, CatalogRegistry

CONSTANTS w1, w2, v1, v2

VARIABLE part
MCVars == <<part, vars, tailVars, lockVars, regVars>>

(* Two operations in the workspace of the client, or one operation in its  *)
(* own or in another workspace; the store lists the shared version v1, if  *)
(* any, and may have deployed v2 to the workspace.                         *)
CatalogLimits ==
  {[used |-> {w1}, clients |-> {w1}, ops |-> 2, listed |-> {v1, Absent}, deployed |-> {v2}],
   [used |-> {w1, w2}, clients |-> {w2}, ops |-> 1, listed |-> {v1, Absent},
    deployed |-> {v2, Absent}]}

MCInit ==
  /\ part \in {"transaction", "tail", "lock", "catalog"}
  /\ Init /\ TailInit /\ LockInit /\ RegInit
  /\ part # "catalog" => bound.ops = 1 /\ hydration = NoHydration

InTransactions(A) == part = "transaction" /\ A /\ UNCHANGED <<part, tailVars, lockVars, regVars>>
InTail(A) == part = "tail" /\ A /\ UNCHANGED <<part, vars, lockVars, regVars>>
InCatalog(A) == part = "catalog" /\ A /\ UNCHANGED <<part, vars, tailVars, lockVars>>

(* Nothing is promised of the lock once a race has happened: that ends the *)
(* behaviour here; MCSettling goes on.                                    *)
InLock(A) == part = "lock" /\ lockFaults = {} /\ A /\ UNCHANGED <<part, vars, tailVars, regVars>>

(* The type invariants of the tail, of the lock and of the catalog.        *)
TypesOK == TailTypeOK /\ LockTypeOK /\ RegTypeOK

MCNext == InTransactions(Next) \/ InTail(TailNext) \/ InLock(LockNext) \/ InCatalog(RegNext)

(* The poll timer of the watcher, its reads, the pump and the handler go   *)
(* on, and so do the promises, the timers and the clients of the catalog.  *)
MCSpec ==
  /\ MCInit /\ [][MCNext]_MCVars
  /\ WF_MCVars(InTail(TailPoll)) /\ WF_MCVars(InTail(TailRead))
  /\ WF_MCVars(InTail(TailAck)) /\ WF_MCVars(InTail(TailPump))
  /\ WF_MCVars(InCatalog(RegGoesOn))
=============================================================================
