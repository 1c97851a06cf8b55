------------------------ MODULE AtomicTransactions ------------------------
(***************************************************************************)
(* What LocalDatabaseConnection.transaction promises                       *)
(* (packages/db/src/connection.ts 234-237): a block that throws leaves     *)
(* nothing behind, a block that returns is stored, with the nested blocks  *)
(* that returned, when its outermost block returns.                        *)
(***************************************************************************)
CONSTANTS
  Txs,     \* calls of transaction()
  NoTx,    \* no enclosing call
  Parent   \* the call in whose block a call is made

VARIABLES
  stored,  \* calls whose writes the database file has
  result   \* how each call ended

Init == stored = {} /\ result = [t \in Txs |-> "none"]

(* The nested calls whose writes come with those of t: the least set with  *)
(* t in it that has the nested calls of its members that returned.         *)
WithNested(S) == \A v \in Txs : result[v] = "ok" /\ Parent[v] \in S => v \in S
Survives(t, u) == \A S \in SUBSET Txs : t \in S /\ WithNested(S) => u \in S

Return(t) ==
  /\ result[t] = "none"
  /\ result' = [result EXCEPT ![t] = "ok"]
  /\ stored' = IF Parent[t] = NoTx THEN stored \cup {u \in Txs : Survives(t, u)}
               ELSE stored

(* One call throws, or the process dies with every call it has open. *)
Fail(S) ==
  /\ \A t \in S : result[t] = "none"
  /\ result' = [t \in Txs |-> IF t \in S THEN "failed" ELSE result[t]]
  /\ UNCHANGED stored

Next == (\E t \in Txs : Return(t)) \/ (\E S \in SUBSET Txs : Fail(S))
Spec == Init /\ [][Next]_<<stored, result>>
=============================================================================
