-------------------------- MODULE LocalTransaction --------------------------
(***************************************************************************)
(* LocalDatabaseConnection.transaction (packages/db/src/connection.ts) on  *)
(* the one SQLite connection a process shares: BEGIN or a SAVEPOINT named  *)
(* by the depth, the block, COMMIT or RELEASE, and the rollbacks of the    *)
(* catch clause.  The block is awaited, so other calls run meanwhile.      *)
(***************************************************************************)
EXTENDS Naturals, Sequences, FiniteSets

CONSTANTS
  Txs,      \* calls of transaction()
  NoTx,     \* no enclosing call
  Parent,   \* the call in whose block a call is made
  Overlap,  \* whether calls not nested in each other may be open together
  MaxCrashes \* bound: process ends

ASSUME TransactionAssumption ==
  /\ IsFiniteSet(Txs) /\ NoTx \notin Txs
  /\ Parent \in [Txs -> Txs \cup {NoTx}]
  /\ Overlap \in BOOLEAN
  /\ MaxCrashes \in Nat

VARIABLES
  data,     \* calls whose write the connection sees
  stack,    \* SQLite's open BEGIN and savepoints with the data before each
  depth,    \* savepointDepth
  pc,       \* where each call is
  level,    \* savepointName: the depth a call found (0: it is the root)
  result,   \* how each call ended
  crashes

vars == <<data, stack, depth, pc, level, result, crashes>>

Open == {t \in Txs : pc[t] \in {"block", "written"}}

Entry == [name: Nat, saved: SUBSET Txs]
StackTypeOK == data \subseteq Txs /\ stack \in Seq(Entry)
CallTypeOK ==
  /\ depth \in Nat
  /\ pc \in [Txs -> {"new", "block", "written", "done"}]
  /\ level \in [Txs -> Nat]
  /\ result \in [Txs -> {"none", "ok", "failed"}]
  /\ \A t \in Txs : result[t] # "none" <=> pc[t] = "done"
  /\ crashes \in 0..MaxCrashes
TypeOK == StackTypeOK /\ CallTypeOK

Init ==
  /\ data = {} /\ stack = <<>> /\ depth = 0
  /\ pc = [t \in Txs |-> "new"]
  /\ level = [t \in Txs |-> 0]
  /\ result = [t \in Txs |-> "none"]
  /\ crashes = 0
-----------------------------------------------------------------------------
(* SQLite: a savepoint outside a transaction opens one; RELEASE and        *)
(* ROLLBACK TO act on the newest savepoint of the name and drop the newer. *)
Savepoints(n) == {i \in DOMAIN stack : stack[i].name = n}
Newest(n, i) == i \in Savepoints(n) /\ \A j \in Savepoints(n) : j <= i
Push(n) == stack' = Append(stack, [name |-> n, saved |-> data])
Release(n) == \E i \in DOMAIN stack : Newest(n, i) /\ stack' = SubSeq(stack, 1, i - 1)

(* A block that awaits a nested call does nothing else meanwhile, unless    *)
(* its calls overlap.                                                      *)
NestedDone(t) == \A u \in Txs : Parent[u] = t => u \notin Open
MayStart(t) ==
  /\ pc[t] = "new"
  /\ IF Parent[t] = NoTx
     THEN Overlap \/ Open = {}
     ELSE Parent[t] \in Open /\ (Overlap \/ NestedDone(Parent[t]))

(* The catch clause: errors of its own statements are ignored. *)
MutUndo(t) ==
  /\ UNCHANGED data
  /\ IF level[t] = 0 THEN stack' = <<>>
     ELSE IF Savepoints(level[t]) = {} THEN UNCHANGED stack ELSE Release(level[t])
Undo(t) ==
  IF level[t] = 0
  THEN /\ data' = IF stack = <<>> THEN data ELSE stack[1].saved
       /\ stack' = <<>>
  ELSE IF Savepoints(level[t]) = {}
       THEN UNCHANGED <<data, stack>>
       ELSE /\ Release(level[t])
            /\ \E i \in DOMAIN stack : Newest(level[t], i) /\ data' = stack[i].saved

MutDecrement == depth
MutDecrementTwice == depth - 2
Decrement == IF depth = 0 THEN 0 ELSE depth - 1

End(t, outcome) ==
  /\ pc' = [pc EXCEPT ![t] = "done"]
  /\ result' = [result EXCEPT ![t] = outcome]
  /\ depth' = Decrement
  /\ UNCHANGED <<level, crashes>>

(* BEGIN IMMEDIATE fails: another process holds the write lock.  (It never *)
(* meets a transaction of this connection: Recovers.)                      *)
Busy(t) ==
  /\ MayStart(t) /\ depth = 0
  /\ pc' = [pc EXCEPT ![t] = "done"]
  /\ result' = [result EXCEPT ![t] = "failed"]
  /\ UNCHANGED <<data, stack, depth, level, crashes>>

Start(t) ==
  /\ MayStart(t)
  /\ Push(depth)
  /\ level' = [level EXCEPT ![t] = depth]
  /\ depth' = depth + 1
  /\ pc' = [pc EXCEPT ![t] = "block"]
  /\ UNCHANGED <<data, result, crashes>>

(* The block writes through the shared connection. *)
Write(t) ==
  /\ pc[t] = "block" /\ (Overlap \/ NestedDone(t))
  /\ data' = data \cup {t}
  /\ pc' = [pc EXCEPT ![t] = "written"]
  /\ UNCHANGED <<stack, depth, level, result, crashes>>

(* The block returned: COMMIT, or RELEASE of the savepoint; a statement    *)
(* that finds no transaction or savepoint throws into the catch clause.    *)
Finish(t) ==
  /\ pc[t] = "written" /\ NestedDone(t)
  /\ \/ /\ level[t] = 0 /\ stack # <<>>
        /\ stack' = <<>>
        /\ UNCHANGED data
        /\ End(t, "ok")
     \/ /\ level[t] > 0 /\ Savepoints(level[t]) # {}
        /\ Release(level[t])
        /\ UNCHANGED data
        /\ End(t, "ok")
     \/ /\ IF level[t] = 0 THEN stack = <<>> ELSE Savepoints(level[t]) = {}
        /\ UNCHANGED <<data, stack>>
        /\ End(t, "failed")

Throw(t) ==
  /\ t \in Open /\ NestedDone(t)
  /\ Undo(t)
  /\ End(t, "failed")

(* The process ends and SQLite recovers the last committed state. *)
Committed == IF stack = <<>> THEN data ELSE stack[1].saved
Crash ==
  /\ crashes < MaxCrashes
  /\ data' = Committed
  /\ stack' = <<>>
  /\ depth' = 0
  /\ pc' = [t \in Txs |-> IF t \in Open THEN "done" ELSE pc[t]]
  /\ result' = [t \in Txs |-> IF t \in Open THEN "failed" ELSE result[t]]
  /\ crashes' = crashes + 1
  /\ UNCHANGED level

Next == (\E t \in Txs : Busy(t) \/ Start(t) \/ Write(t) \/ Finish(t) \/ Throw(t)) \/ Crash
Spec == Init /\ [][Next]_vars
-----------------------------------------------------------------------------
(* When no call is open the connection is out of every transaction,        *)
(* however the calls overlapped and failed: a late RELEASE or ROLLBACK TO   *)
(* may close another call's savepoint, but the last call to end closes the *)
(* last one, so the next root call can BEGIN (connection.ts 240-275).      *)
Recovers == depth = Cardinality(Open) /\ (Open = {} => stack = <<>>)

(* Calls that are nested or one after another are atomic: the database     *)
(* file has exactly what the calls that returned wrote.                    *)
Atomic == INSTANCE AtomicTransactions WITH stored <- Committed
AtomicSpec == Atomic!Spec

(* connection.ts:235 promises an "automatic rollback on error": a call     *)
(* that threw left nothing in the database.                                *)
ThrownLeavesNothing == \A t \in Txs : result[t] = "failed" => t \notin Committed
=============================================================================
