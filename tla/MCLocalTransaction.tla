------------------------ MODULE MCLocalTransaction ------------------------
(* Instances of LocalTransaction for TLC: two root calls, of which one has *)
(* a nested call with a nested call of its own and a second nested call;   *)
(* the same without the innermost; the roots alone.                        *)
EXTENDS LocalTransaction, TLC

CONSTANTS callA, callA1, callA2, callA11, callB

Nesting ==
  (callA :> NoTx) @@ (callA1 :> callA) @@ (callA2 :> callA) @@ (callA11 :> callA1) @@ (callB :> NoTx)
Siblings == (callA :> NoTx) @@ (callA1 :> callA) @@ (callA2 :> callA) @@ (callB :> NoTx)
Flat == (callA :> NoTx) @@ (callB :> NoTx)
=============================================================================
