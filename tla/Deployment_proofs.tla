------------------------- MODULE Deployment_proofs --------------------------
(***************************************************************************)
(* Proofs about what a device keeps in its database: local transactions for *)
(* every set of calls, every nesting and every overlap, and the deployment *)
(* state for every set of versions and commands and every length of the    *)
(* catalog.                                                                *)
(***************************************************************************)
EXTENDS MCDeployment, OrderFacts, FiniteSetTheorems, SequenceTheorems, TLAPS

(* Local transactions.  *)
Named(st, n) == {i \in DOMAIN st : st[i].name = n}
Holders(n) == {t \in Open : level[t] = n}

(* The savepoints of a name are never more than the open calls that would  *)
(* close one of that name, whoever opened them.                            *)
Covered == \A n \in Nat : Cardinality(Savepoints(n)) <= Cardinality(Holders(n))
DepthCounts == depth = Cardinality(Open)
CountInv == TypeOK /\ DepthCounts /\ Covered

-----------------------------------------------------------------------------
(* How many entries of a name a stack has after a push and after a cut.    *)
LEMMA EntryTyped ==
  ASSUME NEW st \in Seq(Entry), NEW i \in DOMAIN st
  PROVE  st[i].name \in Nat /\ st[i].saved \subseteq Txs
<1>1. st[i] \in Entry
  BY LenProperties
<1> QED
  BY <1>1 DEF Entry

LEMMA NamedFinite ==
  ASSUME NEW st \in Seq(Entry), NEW n
  PROVE  IsFiniteSet(Named(st, n)) /\ Cardinality(Named(st, n)) \in Nat
<1>1. IsFiniteSet(1..Len(st))
  BY FS_Interval, LenProperties
<1>2. Named(st, n) \in SUBSET (1..Len(st))
  BY LenProperties DEF Named
<1> QED
  BY <1>1, <1>2, FS_Subset, FS_CardinalityType

LEMMA NamedPush ==
  ASSUME NEW st \in Seq(Entry), NEW e \in Entry, NEW n
  PROVE  Cardinality(Named(Append(st, e), n)) =
           Cardinality(Named(st, n)) + IF e.name = n THEN 1 ELSE 0
<1> DEFINE new == Len(st) + 1
<1>1. DOMAIN Append(st, e) = 1..new /\ DOMAIN st = 1..Len(st) /\ Len(st) \in Nat
  BY AppendProperties, LenProperties
<1>2. \A i \in 1..Len(st) : Append(st, e)[i] = st[i]
  BY AppendProperties
<1>3. Append(st, e)[new] = e
  BY AppendProperties
<1>4. CASE e.name = n
  <2>1. Named(Append(st, e), n) = Named(st, n) \cup {new}
    BY <1>1, <1>2, <1>3, <1>4 DEF Named
  <2>2. new \notin Named(st, n)
    BY <1>1 DEF Named
  <2> QED
    BY <1>4, <2>1, <2>2, NamedFinite, FS_AddElement
<1>5. CASE e.name # n
  <2>1. Named(Append(st, e), n) = Named(st, n)
    BY <1>1, <1>2, <1>3, <1>5 DEF Named
  <2> QED
    BY <1>5, <2>1, NamedFinite
<1> QED
  BY <1>4, <1>5

LEMMA CutTyped ==
  ASSUME NEW st \in Seq(Entry), NEW i \in DOMAIN st
  PROVE  /\ SubSeq(st, 1, i - 1) \in Seq(Entry)
         /\ DOMAIN SubSeq(st, 1, i - 1) = 1..(i - 1)
         /\ \A j \in 1..(i - 1) : SubSeq(st, 1, i - 1)[j] = st[j]
<1> DEFINE cut == SubSeq(st, 1, i - 1)
<1>1. i \in 1..Len(st) /\ Len(st) \in Nat /\ \A j \in 1..Len(st) : st[j] \in Entry
  BY LenProperties
<1>2. i - 1 \in Int /\ \A j \in 1..(i - 1) : st[j] \in Entry
  BY <1>1
<1>3. /\ cut \in Seq(Entry)
      /\ Len(cut) = IF 1 <= i - 1 THEN (i - 1) - 1 + 1 ELSE 0
      /\ \A j \in 1..((i - 1) - 1 + 1) : cut[j] = st[1 + j - 1]
  BY <1>2, SubSeqProperties
<1>4. DOMAIN cut = 1..(i - 1)
  BY <1>1, <1>3, LenProperties
<1>5. \A j \in 1..(i - 1) : cut[j] = st[j]
  BY <1>1, <1>3
<1> QED
  BY <1>3, <1>4, <1>5

LEMMA NamedCut ==
  ASSUME NEW st \in Seq(Entry), NEW i \in DOMAIN st, NEW n
  PROVE  Cardinality(Named(SubSeq(st, 1, i - 1), n)) <=
           Cardinality(Named(st, n)) - IF st[i].name = n THEN 1 ELSE 0
<1> DEFINE cut == SubSeq(st, 1, i - 1)
<1>1. Named(cut, n) \in SUBSET (Named(st, n) \ {i})
  BY CutTyped, LenProperties DEF Named
<1>2. /\ IsFiniteSet(Named(st, n) \ {i})
      /\ Cardinality(Named(st, n) \ {i}) =
           IF i \in Named(st, n) THEN Cardinality(Named(st, n)) - 1
           ELSE Cardinality(Named(st, n))
  BY NamedFinite, FS_RemoveElement
<1>3. Cardinality(Named(cut, n)) <= Cardinality(Named(st, n) \ {i})
  BY <1>1, <1>2, FS_Subset
<1>4. i \in Named(st, n) <=> st[i].name = n
  BY DEF Named
<1>5. Cardinality(Named(st, n)) \in Nat /\ Cardinality(Named(cut, n)) \in Nat
  BY NamedFinite, CutTyped
<1> QED
  BY <1>2, <1>3, <1>4, <1>5

LEMMA OpenFinite ==
  /\ IsFiniteSet(Open) /\ Cardinality(Open) \in Nat
  /\ \A n : IsFiniteSet(Holders(n)) /\ Cardinality(Holders(n)) \in Nat
<1>1. Open \in SUBSET Txs /\ \A n : Holders(n) \in SUBSET Txs
  BY DEF Open, Holders
<1> QED
  BY <1>1, TransactionAssumption, FS_Subset, FS_CardinalityType

-----------------------------------------------------------------------------
(* A call that ends takes itself out of the count and, when there is a     *)
(* savepoint of its name, one savepoint of that name.                      *)
Closed(t) ==
  \/ stack' = <<>>
  \/ stack' = stack /\ Savepoints(level[t]) = {}
  \/ Release(level[t])

LEMMA EmptyNamed == \A n : Named(<<>>, n) = {} /\ Cardinality(Named(<<>>, n)) = 0
<1>1. \A n : Named(<<>>, n) = {}
  BY EmptySeq, LenProperties DEF Named
<1> QED
  BY <1>1, FS_EmptySet

LEMMA EndKeeps ==
  ASSUME CountInv, NEW t \in Open, NEW o \in {"ok", "failed"},
         End(t, o), Closed(t), data' \subseteq Txs
  PROVE  CountInv'
<1>t. /\ t \in Txs /\ stack \in Seq(Entry) /\ CallTypeOK /\ level[t] \in Nat
      /\ depth = Cardinality(Open) /\ Covered
  BY DEF CountInv, TypeOK, StackTypeOK, CallTypeOK, Open, DepthCounts
<1>o. Open' = Open \ {t} /\ Cardinality(Open') = Cardinality(Open) - 1 /\ Cardinality(Open) # 0
  <2>1. Open' = Open \ {t}
    BY <1>t DEF Open, End, CallTypeOK
  <2>2. Cardinality(Open \ {t}) = Cardinality(Open) - 1
    BY OpenFinite, FS_RemoveElement
  <2> QED
    BY <2>1, <2>2, OpenFinite, FS_EmptySet
<1>1. CallTypeOK'
  <2>1. depth' \in Nat
    BY <1>t, <1>o, OpenFinite DEF End, Decrement
  <2> QED
    BY <1>t, <2>1 DEF End, CallTypeOK, Open
<1>2. DepthCounts'
  BY <1>t, <1>o, OpenFinite DEF End, Decrement, DepthCounts
<1>3. StackTypeOK'
  <2>1. CASE stack' = <<>>
    BY <2>1, EmptySeq DEF StackTypeOK
  <2>2. CASE stack' = stack
    BY <1>t, <2>2 DEF StackTypeOK
  <2>3. CASE Release(level[t])
    BY <1>t, <2>3, CutTyped DEF StackTypeOK, Release
  <2> QED
    BY <2>1, <2>2, <2>3 DEF Closed
<1>4. Covered'
  <2> SUFFICES ASSUME NEW n \in Nat
               PROVE  Cardinality(Named(stack', n)) <= Cardinality(Holders(n)')
    BY DEF Covered, Savepoints, Named
  <2>1. Cardinality(Named(stack, n)) <= Cardinality(Holders(n))
    BY <1>t DEF Covered, Savepoints, Named
  <2>2. Holders(n)' = Holders(n) \ {t}
    BY <1>o DEF Holders, End
  <2>3. Cardinality(Holders(n)') =
          Cardinality(Holders(n)) - IF level[t] = n THEN 1 ELSE 0
    <3>1. t \in Holders(n) <=> level[t] = n
      BY DEF Holders
    <3>2. Cardinality(Holders(n) \ {t}) =
            IF t \in Holders(n) THEN Cardinality(Holders(n)) - 1
            ELSE Cardinality(Holders(n))
      BY OpenFinite, FS_RemoveElement
    <3> QED
      BY <2>2, <3>1, <3>2, OpenFinite
  <2>4. /\ IsFiniteSet(Holders(n)') /\ Cardinality(Holders(n)') \in Nat
        /\ Cardinality(Holders(n)) \in Nat /\ Cardinality(Named(stack, n)) \in Nat
    BY <1>t, <2>2, OpenFinite, NamedFinite, FS_RemoveElement, FS_CardinalityType
  <2>5. CASE stack' = <<>>
    BY <2>4, <2>5, EmptyNamed
  <2>6. CASE stack' = stack /\ Savepoints(level[t]) = {}
    <3>1. CASE level[t] = n
      <4>1. Named(stack', n) = {}
        BY <2>6, <3>1 DEF Savepoints, Named
      <4> QED
        BY <2>4, <4>1, FS_EmptySet
    <3>2. CASE level[t] # n
      BY <2>1, <2>3, <2>4, <2>6, <3>2
    <3> QED
      BY <3>1, <3>2
  <2>7. CASE Release(level[t])
    <3>1. PICK i \in DOMAIN stack :
            stack[i].name = level[t] /\ stack' = SubSeq(stack, 1, i - 1)
      BY <2>7 DEF Release, Newest, Savepoints
    <3>2. Cardinality(Named(stack', n)) <=
            Cardinality(Named(stack, n)) - IF level[t] = n THEN 1 ELSE 0
      BY <1>t, <3>1, NamedCut
    <3>3. Cardinality(Named(stack', n)) \in Nat
      BY <1>3, NamedFinite DEF StackTypeOK
    <3> QED
      BY <2>1, <2>3, <2>4, <3>2, <3>3
  <2> QED
    BY <2>5, <2>6, <2>7 DEF Closed
<1> QED
  BY <1>1, <1>2, <1>3, <1>4 DEF CountInv, TypeOK

-----------------------------------------------------------------------------
LEMMA InitCount == Init => CountInv
<1> SUFFICES ASSUME Init PROVE CountInv
  OBVIOUS
<1>1. TypeOK
  BY TransactionAssumption, EmptySeq DEF Init, TypeOK, StackTypeOK, CallTypeOK
<1>2. Open = {}
  BY DEF Init, Open
<1>3. Covered
  BY EmptyNamed, OpenFinite DEF Init, Covered, Savepoints, Named
<1> QED
  BY <1>1, <1>2, <1>3, FS_EmptySet DEF CountInv, DepthCounts, Init

LEMMA StartKeeps ==
  ASSUME CountInv, NEW t \in Txs, Start(t)
  PROVE  CountInv'
<1> DEFINE e == [name |-> depth, saved |-> data]
<1>t. /\ stack \in Seq(Entry) /\ data \subseteq Txs /\ CallTypeOK /\ depth \in Nat
      /\ depth = Cardinality(Open) /\ Covered /\ pc[t] = "new"
      /\ stack' = Append(stack, e)
  BY DEF CountInv, TypeOK, StackTypeOK, CallTypeOK, DepthCounts, Start, MayStart, Push
<1>e. e \in Entry /\ e.name = depth
  BY <1>t DEF Entry
<1>o. Open' = Open \cup {t} /\ t \notin Open
  BY <1>t DEF Start, Open, CallTypeOK
<1>1. StackTypeOK'
  BY <1>t, <1>e, AppendProperties DEF StackTypeOK, Start
<1>2. CallTypeOK'
  BY <1>t DEF CallTypeOK, Start
<1>3. DepthCounts'
  BY <1>t, <1>o, OpenFinite, FS_AddElement DEF DepthCounts, Start
<1>4. Covered'
  <2> SUFFICES ASSUME NEW n \in Nat
               PROVE  Cardinality(Named(stack', n)) <= Cardinality(Holders(n)')
    BY DEF Covered, Savepoints, Named
  <2>1. Cardinality(Named(stack, n)) <= Cardinality(Holders(n))
    BY <1>t DEF Covered, Savepoints, Named
  <2>2. Cardinality(Named(stack', n)) =
          Cardinality(Named(stack, n)) + IF depth = n THEN 1 ELSE 0
    BY <1>t, <1>e, NamedPush
  <2>3. t \notin Holders(n)
    BY <1>o DEF Holders
  <2>4. CASE depth = n
    <3>1. Holders(n)' = Holders(n) \cup {t}
      BY <1>t, <1>o, <2>4 DEF Holders, Start, CallTypeOK, Open
    <3>2. Cardinality(Holders(n)') = Cardinality(Holders(n)) + 1
      BY <2>3, <3>1, OpenFinite, FS_AddElement
    <3>3. Cardinality(Named(stack, n)) \in Nat
      BY <1>t, NamedFinite
    <3> QED
      BY <2>1, <2>2, <2>4, <3>2, <3>3, OpenFinite
  <2>5. CASE depth # n
    <3>1. Holders(n)' = Holders(n)
      BY <1>t, <1>o, <2>5 DEF Holders, Start, CallTypeOK, Open
    <3>2. Cardinality(Named(stack, n)) \in Nat
      BY <1>t, NamedFinite
    <3> QED
      BY <2>1, <2>2, <2>5, <3>1, <3>2
  <2> QED
    BY <2>4, <2>5
<1> QED
  BY <1>1, <1>2, <1>3, <1>4 DEF CountInv, TypeOK

(* A step that opens and closes no call and leaves the stack and the depth. *)
LEMMA QuietKeeps ==
  ASSUME CountInv, TypeOK', Open' = Open, UNCHANGED <<stack, depth, level>>
  PROVE  CountInv'
<1>1. DepthCounts'
  BY DEF CountInv, DepthCounts
<1>2. \A n : Holders(n)' = Holders(n) /\ Savepoints(n)' = Savepoints(n)
  BY DEF Holders, Savepoints
<1>3. Covered'
  BY <1>2 DEF CountInv, Covered
<1> QED
  BY <1>1, <1>3 DEF CountInv

LEMMA StepCount == CountInv /\ [Next]_vars => CountInv'
<1> SUFFICES ASSUME CountInv, [Next]_vars PROVE CountInv'
  OBVIOUS
<1>t. TypeOK /\ StackTypeOK /\ CallTypeOK
  BY DEF CountInv, TypeOK
<1>1. ASSUME NEW t \in Txs, Busy(t) PROVE CountInv'
  <2>1. TypeOK'
    BY <1>t, <1>1 DEF Busy, MayStart, TypeOK, StackTypeOK, CallTypeOK
  <2>2. Open' = Open
    BY <1>t, <1>1 DEF Busy, MayStart, Open, CallTypeOK
  <2> QED
    BY <1>1, <2>1, <2>2, QuietKeeps DEF Busy
<1>2. ASSUME NEW t \in Txs, Start(t) PROVE CountInv'
  BY <1>2, StartKeeps
<1>3. ASSUME NEW t \in Txs, Write(t) PROVE CountInv'
  <2>1. TypeOK'
    BY <1>t, <1>3 DEF Write, TypeOK, StackTypeOK, CallTypeOK
  <2>2. Open' = Open
    BY <1>t, <1>3 DEF Write, Open, CallTypeOK
  <2> QED
    BY <1>3, <2>1, <2>2, QuietKeeps DEF Write
<1>4. ASSUME NEW t \in Txs, Finish(t) PROVE CountInv'
  <2>1. t \in Open /\ data' \subseteq Txs
    BY <1>t, <1>4 DEF Finish, Open, StackTypeOK
  <2>2. Closed(t) /\ (End(t, "ok") \/ End(t, "failed"))
    BY <1>4 DEF Finish, Closed
  <2> QED
    BY <2>1, <2>2, EndKeeps
<1>5. ASSUME NEW t \in Txs, Throw(t) PROVE CountInv'
  <2>1. t \in Open /\ End(t, "failed")
    BY <1>5 DEF Throw
  <2>2. \A i \in DOMAIN stack : stack[i].saved \subseteq Txs
    BY <1>t, EntryTyped DEF StackTypeOK
  <2>3. Closed(t)
    BY <1>5 DEF Throw, Undo, Closed
  <2>4. data' \subseteq Txs
    <3>1. stack # <<>> => 1 \in DOMAIN stack
      BY <1>t, LenProperties, EmptySeq DEF StackTypeOK
    <3> QED
      BY <1>t, <1>5, <2>2, <3>1 DEF Throw, Undo, StackTypeOK
  <2> QED
    BY <2>1, <2>3, <2>4, EndKeeps
<1>6. ASSUME Crash PROVE CountInv'
  <2>1. Open' = {}
    BY <1>t, <1>6 DEF Crash, Open, CallTypeOK
  <2>2. data' \subseteq Txs
    <3>1. stack # <<>> => 1 \in DOMAIN stack
      BY <1>t, LenProperties, EmptySeq DEF StackTypeOK
    <3>2. \A i \in DOMAIN stack : stack[i].saved \subseteq Txs
      BY <1>t, EntryTyped DEF StackTypeOK
    <3> QED
      BY <1>t, <1>6, <3>1, <3>2 DEF Crash, Committed, StackTypeOK
  <2>3. CallTypeOK'
    BY <1>t, <1>6, TransactionAssumption DEF Crash, CallTypeOK, Open
  <2>4. TypeOK'
    BY <1>6, <2>2, <2>3, EmptySeq DEF Crash, TypeOK, StackTypeOK
  <2>5. DepthCounts'
    BY <1>6, <2>1, FS_EmptySet DEF Crash, DepthCounts
  <2>6. \A n : Holders(n)' = {} /\ Savepoints(n)' = Named(<<>>, n)
    BY <1>6, <2>1 DEF Crash, Holders, Savepoints, Named
  <2>7. Covered'
    <3>1. \A n : Cardinality(Holders(n)') = 0 /\ Cardinality(Savepoints(n)') = 0
      BY <2>6, EmptyNamed, FS_EmptySet
    <3> QED
      BY <3>1 DEF Covered
  <2> QED
    BY <2>4, <2>5, <2>7 DEF CountInv
<1>7. CASE UNCHANGED vars
  <2>1. TypeOK' /\ Open' = Open
    BY <1>t, <1>7 DEF vars, TypeOK, StackTypeOK, CallTypeOK, Open
  <2> QED
    BY <1>7, <2>1, QuietKeeps DEF vars
<1> QED
  BY <1>1, <1>2, <1>3, <1>4, <1>5, <1>6, <1>7 DEF Next

(* The depth counter is the number of open calls and, when the last one    *)
(* has ended, no BEGIN and no savepoint is left open.                      *)
LEMMA CountedRecovers == CountInv => Recovers
<1> SUFFICES ASSUME CountInv, Open = {} PROVE stack = <<>>
  BY DEF Recovers, CountInv, DepthCounts
<1>1. ASSUME stack # <<>> PROVE FALSE
  <2>1. 1 \in DOMAIN stack /\ stack \in Seq(Entry) /\ stack[1].name \in Nat
    <3>1. stack \in Seq(Entry)
      BY DEF CountInv, TypeOK, StackTypeOK
    <3>2. 1 \in DOMAIN stack
      BY <1>1, <3>1, LenProperties, EmptySeq
    <3> QED
      BY <3>1, <3>2, EntryTyped
  <2> DEFINE n == stack[1].name
  <2>2. Holders(n) = {}
    BY DEF Holders
  <2>3. 1 \in Named(stack, n)
    BY <2>1 DEF Named
  <2>4. Cardinality(Named(stack, n)) # 0 /\ Cardinality(Named(stack, n)) \in Nat
    BY <2>1, <2>3, NamedFinite, FS_EmptySet
  <2>5. Cardinality(Named(stack, n)) <= 0
    BY <2>1, <2>2, FS_EmptySet DEF CountInv, Covered, Savepoints, Named
  <2> QED
    BY <2>4, <2>5
<1> QED
  BY <1>1

-----------------------------------------------------------------------------
(* Every reachable state of transaction() on one connection is typed: the  *)
(* depth never goes below zero and a call has a result exactly when it has *)
(* ended (connection.ts 238-275).                                          *)
THEOREM TypeCorrect == Spec => []TypeOK
<1>1. CountInv => TypeOK
  BY DEF CountInv
<1> QED
  BY InitCount, StepCount, <1>1, PTL DEF Spec

(* However calls nest, overlap and fail, the counter equals the open calls *)
(* and the connection is outside every transaction when none is open, so   *)
(* the next root call can BEGIN (connection.ts 240-275).                   *)
THEOREM ConnectionRecovers == Spec => []Recovers
<1> QED
  BY InitCount, StepCount, CountedRecovers, PTL DEF Spec
-----------------------------------------------------------------------------
(* Calls that do not overlap: the open ones are a chain of nested calls,   *)
(* one on each level, and the savepoint of a level was taken by its call.  *)
Leveled ==
  /\ Len(stack) = depth
  /\ \A i \in 1..depth : stack[i].name = i - 1
Chained ==
  /\ \A t \in Open : level[t] < depth
  /\ \A t, u \in Open : level[t] = level[u] => t = u
  /\ \A k \in 0..(depth - 1) : \E t \in Open : level[t] = k
  /\ \A t \in Open : IF level[t] = 0 THEN Parent[t] = NoTx
                     ELSE Parent[t] \in Open /\ level[Parent[t]] = level[t] - 1
ParentFirst == \A t \in Txs : pc[t] # "new" /\ Parent[t] # NoTx => pc[Parent[t]] # "new"

(* What the connection shows below level k, and what the call t adds to    *)
(* that: its own write and what the nested calls that returned added.      *)
Below(k) == IF k = depth THEN data ELSE stack[k + 1].saved
Added(t) == {u \in Txs : IF u = t THEN pc[t] = "written" ELSE Atomic!Survives(t, u)}
Layered ==
  \A t \in Open, k \in Nat : level[t] = k => Below(k + 1) = Below(k) \cup Added(t)

NestInv == TypeOK /\ Leveled /\ Chained /\ ParentFirst /\ Layered

-----------------------------------------------------------------------------
(* Survives is decided by which calls returned.                            *)
LEMMA SurvivesSelf ==
  ASSUME NEW t \in Txs
  PROVE  Atomic!Survives(t, t)
BY DEF Atomic!Survives

LEMMA SurvivesOnlyReturned ==
  ASSUME NEW t \in Txs, NEW u \in Txs, Atomic!Survives(t, u)
  PROVE  u = t \/ result[u] = "ok"
<1> PICK R : R = {v \in Txs : v = t \/ result[v] = "ok"}
  OBVIOUS
<1>1. Atomic!WithNested(R)
  BY DEF Atomic!WithNested
<1> QED
  BY <1>1 DEF Atomic!Survives

LEMMA SurvivesFrame ==
  ASSUME NEW t \in Txs, NEW u \in Txs,
         \A v \in Txs : result'[v] = "ok" <=> result[v] = "ok"
  PROVE  Atomic!Survives(t, u)' <=> Atomic!Survives(t, u)
BY DEF Atomic!Survives, Atomic!WithNested

(* When t returns, its parent keeps what t kept; a call that is open keeps *)
(* nothing of it otherwise.                                                *)
LEMMA SurvivesReturn ==
  ASSUME NEW t \in Txs, NEW p \in Txs, Parent[t] = p,
         result \in [Txs -> {"none", "ok", "failed"}],
         result' = [result EXCEPT ![t] = "ok"],
         NEW u \in Txs
  PROVE  Atomic!Survives(p, u)' <=> Atomic!Survives(p, u) \/ Atomic!Survives(t, u)
<1> PICK R : R = {v \in Txs : Atomic!Survives(p, v) \/ Atomic!Survives(t, v)}
  OBVIOUS
<1>1. \A S \in SUBSET Txs : Atomic!WithNested(S)' => Atomic!WithNested(S)
  BY DEF Atomic!WithNested
<1>2. Atomic!Survives(p, u) => Atomic!Survives(p, u)'
  BY <1>1 DEF Atomic!Survives
<1>3. Atomic!Survives(t, u) => Atomic!Survives(p, u)'
  <2> SUFFICES ASSUME Atomic!Survives(t, u), NEW S \in SUBSET Txs, p \in S,
                      Atomic!WithNested(S)'
               PROVE  u \in S
    BY DEF Atomic!Survives
  <2>1. t \in S
    BY DEF Atomic!WithNested
  <2> QED
    BY <1>1, <2>1 DEF Atomic!Survives
<1>4. Atomic!Survives(p, u)' => u \in R
  <2>1. p \in R /\ t \in R /\ R \in SUBSET Txs
    BY SurvivesSelf
  <2>2. Atomic!WithNested(R)'
    <3> SUFFICES ASSUME NEW v \in Txs, result'[v] = "ok", Parent[v] \in R PROVE v \in R
      BY DEF Atomic!WithNested
    <3>1. CASE v = t
      BY <2>1, <3>1
    <3>2. CASE v # t
      <4>1. result[v] = "ok"
        BY <3>2
      <4> QED
        BY <4>1 DEF Atomic!Survives, Atomic!WithNested
    <3> QED
      BY <3>1, <3>2
  <2> QED
    BY <2>1, <2>2 DEF Atomic!Survives
<1> QED
  BY <1>2, <1>3, <1>4

LEMMA SurvivesElsewhere ==
  ASSUME NEW t \in Txs, NEW w \in Txs,
         result \in [Txs -> {"none", "ok", "failed"}],
         result' = [result EXCEPT ![t] = "ok"],
         Parent[t] # w,
         Parent[t] # NoTx => Parent[t] \in Txs /\ result[Parent[t]] = "none",
         NEW u \in Txs
  PROVE  Atomic!Survives(w, u)' <=> Atomic!Survives(w, u)
<1> PICK R : R = {v \in Txs : Atomic!Survives(w, v) /\ v # Parent[t]}
  OBVIOUS
<1>1. \A S \in SUBSET Txs : Atomic!WithNested(S)' => Atomic!WithNested(S)
  BY DEF Atomic!WithNested
<1>2. Atomic!Survives(w, u) => Atomic!Survives(w, u)'
  BY <1>1 DEF Atomic!Survives
<1>3. Atomic!Survives(w, u)' => u \in R
  <2>1. w \in R /\ R \in SUBSET Txs
    BY SurvivesSelf
  <2>2. Atomic!WithNested(R)'
    <3> SUFFICES ASSUME NEW v \in Txs, result'[v] = "ok", Parent[v] \in R PROVE v \in R
      BY DEF Atomic!WithNested
    <3>1. v # t
      OBVIOUS
    <3>2. result[v] = "ok"
      BY <3>1
    <3>3. v # Parent[t]
      BY <3>2, TransactionAssumption
    <3>4. Atomic!Survives(w, v)
      BY <3>2 DEF Atomic!Survives, Atomic!WithNested
    <3> QED
      BY <3>3, <3>4
  <2> QED
    BY <2>1, <2>2 DEF Atomic!Survives
<1> QED
  BY <1>2, <1>3
-----------------------------------------------------------------------------
LEMMA NestTyped ==
  ASSUME NestInv
  PROVE  /\ stack \in Seq(Entry) /\ data \subseteq Txs /\ depth \in Nat /\ CallTypeOK
         /\ DOMAIN stack = 1..depth
         /\ \A i \in 1..depth : stack[i].saved \subseteq Txs /\ stack[i].name = i - 1
         /\ \A k \in 0..depth : Below(k) \subseteq Txs
         /\ Committed = Below(0)
<1>1. stack \in Seq(Entry) /\ data \subseteq Txs /\ depth \in Nat /\ CallTypeOK
  BY DEF NestInv, TypeOK, StackTypeOK, CallTypeOK
<1>2. DOMAIN stack = 1..depth
  BY <1>1, LenProperties DEF NestInv, Leveled
<1>3. \A i \in 1..depth : stack[i].saved \subseteq Txs /\ stack[i].name = i - 1
  BY <1>1, <1>2, EntryTyped DEF NestInv, Leveled
<1>4. \A k \in 0..depth : Below(k) \subseteq Txs
  BY <1>1, <1>3 DEF Below
<1>5. depth = 0 <=> stack = <<>>
  BY <1>1, EmptySeq, LenProperties DEF NestInv, Leveled
<1> QED
  BY <1>1, <1>2, <1>3, <1>4, <1>5 DEF Below, Committed

(* A call whose nested calls have ended is the innermost open call.        *)
LEMMA NestedDoneIsTop ==
  ASSUME NestInv, NEW t \in Open, NestedDone(t)
  PROVE  level[t] \in Nat /\ level[t] = depth - 1 /\ depth > 0
<1>1. level[t] \in Nat /\ depth \in Nat /\ level[t] < depth
  BY NestTyped DEF NestInv, Chained, CallTypeOK, Open
<1>2. ASSUME level[t] + 1 < depth PROVE FALSE
  <2>1. PICK u \in Open : level[u] = level[t] + 1
    BY <1>1, <1>2 DEF NestInv, Chained
  <2>2. Parent[u] \in Open /\ level[Parent[u]] = level[t]
    BY <1>1, <2>1 DEF NestInv, Chained
  <2>3. Parent[u] = t
    BY <2>2 DEF NestInv, Chained
  <2> QED
    BY <2>1, <2>3 DEF NestedDone, Open
<1> QED
  BY <1>1, <1>2

LEMMA FreshAddsNothing ==
  ASSUME NestInv, NEW t \in Txs, pc[t] = "new", NEW u \in Txs, Atomic!Survives(t, u)
  PROVE  u = t
<1>1. Atomic!WithNested({t})
  <2> SUFFICES ASSUME NEW v \in Txs, result[v] = "ok", Parent[v] = t PROVE FALSE
    BY DEF Atomic!WithNested
  <2>1. pc[v] = "done"
    BY NestTyped DEF CallTypeOK
  <2> QED
    BY <2>1, TransactionAssumption DEF NestInv, ParentFirst
<1> QED
  BY <1>1 DEF Atomic!Survives

(* The step of the abstract specification that a step of the code is. *)
AtomicStep == Atomic!Next \/ UNCHANGED <<Committed, result>>

LEMMA InitNest == Init => NestInv /\ Atomic!Init
<1> SUFFICES ASSUME Init PROVE NestInv /\ Atomic!Init
  OBVIOUS
<1>1. TypeOK
  BY InitCount DEF CountInv
<1>2. Open = {} /\ depth = 0 /\ stack = <<>> /\ Len(stack) = 0
  BY EmptySeq DEF Init, Open
<1>3. Leveled /\ Chained /\ ParentFirst /\ Layered
  BY <1>2 DEF Init, Leveled, Chained, ParentFirst, Layered
<1>4. Atomic!Init
  BY <1>2 DEF Init, Atomic!Init, Committed
<1> QED
  BY <1>1, <1>3, <1>4 DEF NestInv

LEMMA BusyNest ==
  ASSUME NestInv, TypeOK', ~Overlap, NEW t \in Txs, Busy(t)
  PROVE  NestInv' /\ AtomicStep
<1>t. CallTypeOK /\ pc[t] = "new" /\ result[t] = "none" /\ Open' = Open
  BY NestTyped DEF Busy, MayStart, CallTypeOK, Open
<1>1. Leveled'
  BY DEF NestInv, Leveled, Busy
<1>2. Chained'
  BY <1>t DEF NestInv, Chained, Busy
<1>3. ParentFirst'
  BY <1>t DEF NestInv, ParentFirst, Busy, MayStart, Open, CallTypeOK
<1>4. Layered'
  <2>1. \A u \in Txs : result'[u] = "ok" <=> result[u] = "ok"
    BY <1>t DEF Busy, CallTypeOK
  <2>2. \A u, v \in Txs : Atomic!Survives(u, v)' <=> Atomic!Survives(u, v)
    BY <2>1, SurvivesFrame
  <2>3. \A u \in Open : Added(u)' = Added(u)
    BY <1>t, <2>2 DEF Added, Busy, CallTypeOK, Open
  <2>4. \A k \in Nat : Below(k)' = Below(k)
    BY DEF Below, Busy
  <2>5. \A u \in Open : level'[u] = level[u] /\ level[u] \in Nat
    BY <1>t DEF Busy, CallTypeOK, Open
  <2> QED
    BY <1>t, <2>3, <2>4, <2>5 DEF NestInv, Layered
<1>5. Atomic!Fail({t})
  BY <1>t DEF Atomic!Fail, Busy, Committed, CallTypeOK
<1> QED
  BY <1>1, <1>2, <1>3, <1>4, <1>5 DEF NestInv, AtomicStep, Atomic!Next

LEMMA StartNest ==
  ASSUME NestInv, TypeOK', ~Overlap, NEW t \in Txs, Start(t)
  PROVE  NestInv' /\ AtomicStep
<1> DEFINE e == [name |-> depth, saved |-> data]
<1>t. /\ CallTypeOK /\ depth \in Nat /\ stack \in Seq(Entry) /\ data \subseteq Txs
      /\ pc[t] = "new" /\ Open' = Open \cup {t} /\ t \notin Open
      /\ Len(stack) = depth /\ e \in Entry
  BY NestTyped DEF Start, MayStart, CallTypeOK, Open, NestInv, Leveled, Entry
<1>s. /\ depth' = depth + 1 /\ Len(stack') = depth + 1 /\ stack'[depth + 1] = e
      /\ \A i \in 1..depth : stack'[i] = stack[i]
  BY <1>t, AppendProperties DEF Start, Push
<1>l. level'[t] = depth /\ \A u \in Open : level'[u] = level[u] /\ level[u] \in Nat
  BY <1>t DEF Start, CallTypeOK, Open
<1>p. /\ Parent[t] = NoTx => depth = 0
      /\ Parent[t] # NoTx => Parent[t] \in Open /\ level[Parent[t]] = depth - 1 /\ depth > 0
  <2>1. CASE Parent[t] = NoTx
    <3>1. Open = {}
      BY <2>1 DEF Start, MayStart
    <3> QED
      BY <1>t, <2>1, <3>1 DEF NestInv, Chained
  <2>2. CASE Parent[t] # NoTx
    <3>1. Parent[t] \in Open /\ NestedDone(Parent[t])
      BY <2>2 DEF Start, MayStart
    <3> QED
      BY <2>2, <3>1, NestedDoneIsTop
  <2> QED
    BY <2>1, <2>2
<1>1. Leveled'
  BY <1>t, <1>s, NestTyped DEF Leveled
<1>2. Chained'
  <2>1. \A u \in Open' : level'[u] < depth'
    BY <1>t, <1>s, <1>l DEF NestInv, Chained
  <2>2. \A u, v \in Open' : level'[u] = level'[v] => u = v
    BY <1>t, <1>l DEF NestInv, Chained
  <2>3. \A k \in 0..(depth' - 1) : \E u \in Open' : level'[u] = k
    <3> SUFFICES ASSUME NEW k \in 0..depth PROVE \E u \in Open' : level'[u] = k
      BY <1>t, <1>s
    <3>1. CASE k = depth
      BY <1>t, <1>l, <3>1
    <3>2. CASE k # depth
      <4>1. PICK u \in Open : level[u] = k
        BY <1>t, <3>2 DEF NestInv, Chained
      <4> QED
        BY <1>t, <1>l, <4>1
    <3> QED
      BY <3>1, <3>2
  <2>4. \A u \in Open' : IF level'[u] = 0 THEN Parent[u] = NoTx
          ELSE Parent[u] \in Open' /\ level'[Parent[u]] = level'[u] - 1
    <3> SUFFICES ASSUME NEW u \in Open'
                 PROVE  IF level'[u] = 0 THEN Parent[u] = NoTx
                        ELSE Parent[u] \in Open' /\ level'[Parent[u]] = level'[u] - 1
      OBVIOUS
    <3>1. CASE u = t
      BY <1>t, <1>l, <1>p, <3>1
    <3>2. CASE u \in Open
      BY <1>t, <1>l, <3>2 DEF NestInv, Chained
    <3> QED
      BY <1>t, <3>1, <3>2
  <2> QED
    BY <2>1, <2>2, <2>3, <2>4 DEF Chained
<1>3. ParentFirst'
  <2>1. Parent[t] # NoTx => pc[Parent[t]] # "new" /\ Parent[t] # t
    BY <1>p, <1>t DEF Open
  <2> QED
    BY <1>t, <2>1, TransactionAssumption DEF NestInv, ParentFirst, Start, CallTypeOK
<1>4. Layered'
  <2>1. \A u, v \in Txs : Atomic!Survives(u, v)' <=> Atomic!Survives(u, v)
    <3>1. \A v \in Txs : result'[v] = "ok" <=> result[v] = "ok"
      BY DEF Start
    <3> QED
      BY <3>1, SurvivesFrame
  <2>2. \A u \in Open : Added(u)' = Added(u)
    BY <1>t, <2>1 DEF Added, Start, CallTypeOK, Open
  <2>3. \A k \in 0..depth : Below(k)' = Below(k)
    BY <1>t, <1>s DEF Below
  <2> PICK n : n = depth
    OBVIOUS
  <2>4. Below(n + 1)' = data /\ Below(n)' = data
    BY <1>t, <1>s DEF Below, Start
  <2>5. Added(t)' = {}
    <3>1. \A u \in Txs : Atomic!Survives(t, u)' => u = t
      BY <1>t, <2>1, FreshAddsNothing
    <3>2. pc'[t] # "written"
      BY <1>t DEF Start, CallTypeOK
    <3> QED
      BY <3>1, <3>2 DEF Added
  <2> SUFFICES ASSUME NEW u \in Open', NEW k \in Nat, level'[u] = k
               PROVE  Below(k + 1)' = Below(k)' \cup Added(u)'
    BY DEF Layered
  <2>6. CASE u = t
    BY <1>l, <2>4, <2>5, <2>6
  <2>7. CASE u \in Open
    <3>1. level[u] = k /\ k \in 0..depth /\ k + 1 \in 0..depth
      BY <1>t, <1>l, <2>7 DEF NestInv, Chained
    <3>2. Below(k + 1) = Below(k) \cup Added(u)
      BY <2>7, <3>1 DEF NestInv, Layered
    <3> QED
      BY <2>2, <2>3, <2>7, <3>1, <3>2
  <2> QED
    BY <1>t, <2>6, <2>7
<1>5. UNCHANGED <<Committed, result>>
  <2>1. stack' # <<>> /\ (depth > 0 => stack # <<>>) /\ (depth = 0 => stack = <<>>)
    BY <1>t, <1>s, EmptySeq
  <2> QED
    BY <1>t, <1>s, <2>1 DEF Committed, Start
<1> QED
  BY <1>1, <1>2, <1>3, <1>4, <1>5 DEF NestInv, AtomicStep
LEMMA WriteNest ==
  ASSUME NestInv, TypeOK', ~Overlap, NEW t \in Txs, Write(t)
  PROVE  NestInv' /\ AtomicStep
<1>t. /\ CallTypeOK /\ depth \in Nat /\ t \in Open /\ Open' = Open
      /\ level[t] = depth - 1 /\ depth > 0 /\ pc'[t] = "written"
  <2>1. t \in Open /\ NestedDone(t)
    BY DEF Write, Open
  <2>2. Open' = Open
    BY NestTyped DEF Write, Open, CallTypeOK
  <2> QED
    BY <2>1, <2>2, NestTyped, NestedDoneIsTop DEF Write, CallTypeOK
<1>1. Leveled'
  BY DEF NestInv, Leveled, Write
<1>2. Chained'
  BY <1>t DEF NestInv, Chained, Write
<1>3. ParentFirst'
  BY <1>t, TransactionAssumption DEF NestInv, ParentFirst, Write, CallTypeOK
<1>4. Layered'
  <2>1. \A u, v \in Txs : Atomic!Survives(u, v)' <=> Atomic!Survives(u, v)
    <3>1. \A v \in Txs : result'[v] = "ok" <=> result[v] = "ok"
      BY DEF Write
    <3> QED
      BY <3>1, SurvivesFrame
  <2> PICK n : n = depth
    OBVIOUS
  <2>2. \A k \in 0..(n - 1) : Below(k)' = Below(k)
    BY <1>t DEF Below, Write
  <2>3. Below(n)' = Below(n) \cup {t}
    BY DEF Below, Write
  <2> SUFFICES ASSUME NEW u \in Open', NEW k \in Nat, level'[u] = k
               PROVE  Below(k + 1)' = Below(k)' \cup Added(u)'
    BY DEF Layered
  <2>4. Below(k + 1) = Below(k) \cup Added(u) /\ k < n
    BY <1>t DEF NestInv, Layered, Chained, Write
  <2>5. CASE u = t
    <3>1. Added(t)' = Added(t) \cup {t}
      BY <1>t, <2>1 DEF Added, Write, CallTypeOK
    <3>2. k = n - 1
      BY <1>t, <2>5 DEF Write
    <3> QED
      BY <1>t, <2>2, <2>3, <2>4, <2>5, <3>1, <3>2
  <2>6. CASE u # t
    <3>1. Added(u)' = Added(u)
      BY <1>t, <2>1, <2>6 DEF Added, Write, CallTypeOK, Open
    <3>2. k # n - 1
      BY <1>t, <2>6 DEF NestInv, Chained, Write
    <3> QED
      BY <1>t, <2>2, <2>4, <3>1, <3>2
  <2> QED
    BY <2>5, <2>6
<1>5. UNCHANGED <<Committed, result>>
  <2>1. stack # <<>>
    BY <1>t, EmptySeq DEF NestInv, Leveled
  <2> QED
    BY <2>1 DEF Committed, Write
<1> QED
  BY <1>1, <1>2, <1>3, <1>4, <1>5 DEF NestInv, AtomicStep

(* The innermost call ends, with what the connection shows kept or put     *)
(* back to what it showed before the call.                                 *)
LEMMA CutToLevel ==
  ASSUME NestInv, NEW n \in Nat, n < depth
  PROVE  /\ SubSeq(stack, 1, n) \in Seq(Entry) /\ Len(SubSeq(stack, 1, n)) = n
         /\ \A j \in 1..n : SubSeq(stack, 1, n)[j] = stack[j]
<1>1. n + 1 \in DOMAIN stack /\ stack \in Seq(Entry) /\ (n + 1) - 1 = n
  BY NestTyped
<1>2. /\ SubSeq(stack, 1, n) \in Seq(Entry)
      /\ DOMAIN SubSeq(stack, 1, n) = 1..n
      /\ \A j \in 1..n : SubSeq(stack, 1, n)[j] = stack[j]
  BY <1>1, CutTyped
<1> QED
  BY <1>2, LenProperties

LEMMA PopNest ==
  ASSUME NestInv, TypeOK', NEW t \in Open, NestedDone(t),
         NEW o \in {"ok", "failed"}, End(t, o), o = "ok" => pc[t] = "written",
         NEW n, n = level[t], stack' = SubSeq(stack, 1, n),
         data' = IF o = "ok" THEN data ELSE Below(n)
  PROVE  NestInv' /\ Committed' = IF o = "ok" /\ n = 0 THEN data ELSE Committed
<1>t. /\ CallTypeOK /\ depth = n + 1 /\ depth' = n /\ n \in Nat
      /\ t \in Txs /\ Open' = Open \ {t} /\ level' = level
      /\ pc' = [pc EXCEPT ![t] = "done"] /\ result' = [result EXCEPT ![t] = o]
      /\ result \in [Txs -> {"none", "ok", "failed"}]
  BY NestTyped, NestedDoneIsTop DEF End, Decrement, CallTypeOK, Open
<1>s. /\ Len(stack') = n /\ \A j \in 1..n : stack'[j] = stack[j]
  BY <1>t, CutToLevel
<1>1. Leveled'
  BY <1>t, <1>s, NestTyped DEF Leveled
<1>2. Chained'
  <2>1. \A u \in Open' : level[u] < n /\ level[u] \in Nat
    BY <1>t DEF NestInv, Chained, CallTypeOK, Open
  <2>2. \A k \in 0..(n - 1) : \E u \in Open' : level[u] = k
    BY <1>t DEF NestInv, Chained
  <2>3. \A u \in Open' : level[u] # 0 => Parent[u] # t
    BY <1>t, <2>1 DEF NestInv, Chained
  <2> QED
    BY <1>t, <2>1, <2>2, <2>3 DEF NestInv, Chained
<1>3. ParentFirst'
  BY <1>t, TransactionAssumption DEF NestInv, ParentFirst, CallTypeOK, Open
<1>b. Below(n)' = data' /\ \A k \in 0..(n - 1) : Below(k)' = Below(k)
  BY <1>t, <1>s DEF Below
<1>4. Layered'
  <2> SUFFICES ASSUME NEW u \in Open', NEW k \in Nat, level'[u] = k
               PROVE  Below(k + 1)' = Below(k)' \cup Added(u)'
    BY DEF Layered
  <2>1. /\ u \in Open /\ u # t /\ level[u] = k /\ k < n /\ u \in Txs
        /\ result[u] = "none" /\ pc'[u] = pc[u]
        /\ Below(k + 1) = Below(k) \cup Added(u) /\ Below(k)' = Below(k)
    BY <1>t, <1>b DEF NestInv, Layered, Chained, Open, CallTypeOK
  <2>2. /\ Parent[t] # NoTx => Parent[t] \in Txs /\ result[Parent[t]] = "none"
        /\ Parent[t] = u <=> k = n - 1
    BY <1>t, <2>1 DEF NestInv, Chained, Open, CallTypeOK
  <2>3. CASE o = "failed"
    <3>1. \A v \in Txs : result'[v] = "ok" <=> result[v] = "ok"
      BY <1>t, <2>3 DEF CallTypeOK, Open
    <3>2. Added(u)' = Added(u)
      BY <2>1, <3>1, SurvivesFrame DEF Added
    <3>3. Below(k + 1)' = Below(k + 1)
      BY <1>t, <1>b, <2>1, <2>3
    <3> QED
      BY <2>1, <3>2, <3>3
  <2>4. CASE o = "ok" /\ k # n - 1
    <3>1. \A v \in Txs : Atomic!Survives(u, v)' <=> Atomic!Survives(u, v)
      BY <1>t, <2>1, <2>2, <2>4, SurvivesElsewhere
    <3>2. Added(u)' = Added(u)
      BY <2>1, <3>1 DEF Added
    <3>3. Below(k + 1)' = Below(k + 1)
      BY <1>t, <1>b, <2>1, <2>4
    <3> QED
      BY <2>1, <3>2, <3>3
  <2>5. CASE o = "ok" /\ k = n - 1
    <3>1. \A v \in Txs : Atomic!Survives(u, v)' <=>
                          Atomic!Survives(u, v) \/ Atomic!Survives(t, v)
      BY <1>t, <2>1, <2>2, <2>5, SurvivesReturn
    <3>2. ~Atomic!Survives(t, u) /\ Atomic!Survives(t, t)
      BY <1>t, <2>1, SurvivesOnlyReturned, SurvivesSelf
    <3>3. Added(u)' = Added(u) \cup Added(t)
      BY <1>t, <2>1, <2>5, <3>1, <3>2 DEF Added
    <3>4. Below(n + 1) = data /\ Below(n + 1) = Below(n) \cup Added(t)
      BY <1>t DEF NestInv, Layered, Below
    <3>5. Below(n) = Below(k) \cup Added(u) /\ Below(k + 1)' = data
      BY <1>t, <1>b, <2>1, <2>5
    <3> QED
      BY <2>1, <3>3, <3>4, <3>5
  <2> QED
    BY <2>3, <2>4, <2>5
<1>5. Committed' = IF o = "ok" /\ n = 0 THEN data ELSE Committed
  <2>1. Committed = Below(0)
    BY NestTyped
  <2>2. CASE n = 0
    <3>1. stack' = <<>>
      BY <1>s, <2>2, EmptySeq
    <3> QED
      BY <2>1, <2>2, <3>1 DEF Committed
  <2>3. CASE n # 0
    <3>1. stack' # <<>> /\ stack # <<>> /\ stack'[1] = stack[1]
      BY <1>t, <1>s, <2>3, EmptySeq DEF NestInv, Leveled
    <3>2. Committed' = Committed
      BY <3>1 DEF Committed
    <3> QED
      BY <2>3, <3>2
  <2> QED
    BY <1>t, <2>2, <2>3
<1> QED
  BY <1>1, <1>2, <1>3, <1>4, <1>5 DEF NestInv

(* RELEASE of an innermost call's savepoint closes that savepoint only.    *)
LEMMA TopReleases ==
  ASSUME NestInv, NEW t \in Open, NestedDone(t), NEW n, n = level[t], NEW i \in DOMAIN stack,
         Newest(n, i)
  PROVE  i = n + 1
BY NestTyped, NestedDoneIsTop DEF Newest, Savepoints

LEMMA FinishNest ==
  ASSUME NestInv, TypeOK', NEW t \in Txs, Finish(t)
  PROVE  NestInv' /\ AtomicStep
<1> PICK n : n = level[t]
  OBVIOUS
<1>t. /\ t \in Open /\ NestedDone(t) /\ pc[t] = "written" /\ CallTypeOK
      /\ n \in Nat /\ depth \in Nat /\ depth = n + 1 /\ n + 1 \in DOMAIN stack
      /\ result[t] = "none" /\ stack \in Seq(Entry)
  <2>1. t \in Open /\ NestedDone(t)
    BY DEF Finish, Open
  <2> QED
    BY <2>1, NestTyped, NestedDoneIsTop DEF Finish, CallTypeOK
<1>1. stack # <<>> /\ Savepoints(n) # {}
  BY <1>t, NestTyped, EmptySeq DEF Savepoints, NestInv, Leveled
<1>2. End(t, "ok") /\ data' = data /\ stack' = SubSeq(stack, 1, n)
  <2>1. CASE n = 0
    <3>1. SubSeq(stack, 1, 0) = <<>>
      <4>1. SubSeq(stack, 1, 0) \in Seq(Entry) /\ Len(SubSeq(stack, 1, 0)) = 0
        BY <1>t, <2>1, CutToLevel
      <4> QED
        BY <4>1, EmptySeq
    <3>2. End(t, "ok") /\ data' = data /\ stack' = <<>>
      BY <1>1, <2>1 DEF Finish
    <3> QED
      BY <2>1, <3>1, <3>2
  <2>2. CASE n # 0
    <3>1. PICK i \in DOMAIN stack : Newest(n, i) /\ stack' = SubSeq(stack, 1, i - 1)
      BY <1>1, <2>2 DEF Finish, Release
    <3>2. i = n + 1
      BY <1>t, <3>1, TopReleases
    <3> QED
      BY <1>t, <1>1, <2>2, <3>1, <3>2 DEF Finish
  <2> QED
    BY <2>1, <2>2
<1>3. NestInv' /\ Committed' = IF n = 0 THEN data ELSE Committed
  BY <1>t, <1>2, PopNest
<1>4. Atomic!Return(t)
  <2>1. result' = [result EXCEPT ![t] = "ok"]
    BY <1>2 DEF End
  <2>n. n = 0 <=> Parent[t] = NoTx
    <3>1. IF n = 0 THEN Parent[t] = NoTx ELSE Parent[t] \in Open
      BY <1>t DEF NestInv, Chained
    <3> QED
      BY <3>1, TransactionAssumption DEF Open
  <2>2. CASE n = 0
    <3>1. data = Committed \cup {u \in Txs : Atomic!Survives(t, u)}
      <4>1. Below(n + 1) = Below(n) \cup Added(t)
        BY <1>t DEF NestInv, Layered
      <4>3. Below(n + 1) = data
        BY <1>t DEF Below
      <4>4. Below(n) = Committed
        BY <2>2, NestTyped
      <4>2. Added(t) = {u \in Txs : Atomic!Survives(t, u)}
        BY <1>t, SurvivesSelf DEF Added
      <4> QED
        BY <4>1, <4>2, <4>3, <4>4
    <3> QED
      BY <1>t, <1>3, <2>1, <2>n, <2>2, <3>1 DEF Atomic!Return
  <2>3. CASE n # 0
    BY <1>t, <1>3, <2>1, <2>n, <2>3 DEF Atomic!Return
  <2> QED
    BY <2>2, <2>3
<1> QED
  BY <1>3, <1>4 DEF AtomicStep, Atomic!Next

LEMMA ThrowNest ==
  ASSUME NestInv, TypeOK', NEW t \in Txs, Throw(t)
  PROVE  NestInv' /\ AtomicStep
<1> PICK n : n = level[t]
  OBVIOUS
<1>t. /\ t \in Open /\ NestedDone(t) /\ CallTypeOK
      /\ n \in Nat /\ depth \in Nat /\ depth = n + 1 /\ n + 1 \in DOMAIN stack
      /\ result[t] = "none" /\ stack \in Seq(Entry)
  <2>1. t \in Open /\ NestedDone(t)
    BY DEF Throw
  <2> QED
    BY <2>1, NestTyped, NestedDoneIsTop DEF CallTypeOK, Open
<1>1. stack # <<>> /\ Savepoints(n) # {}
  BY <1>t, NestTyped, EmptySeq DEF Savepoints, NestInv, Leveled
<1>b. Below(n) = stack[n + 1].saved
  BY <1>t DEF Below
<1>2. End(t, "failed") /\ data' = Below(n) /\ stack' = SubSeq(stack, 1, n)
  <2>1. CASE n = 0
    <3>1. SubSeq(stack, 1, 0) = <<>>
      <4>1. SubSeq(stack, 1, 0) \in Seq(Entry) /\ Len(SubSeq(stack, 1, 0)) = 0
        BY <1>t, <2>1, CutToLevel
      <4> QED
        BY <4>1, EmptySeq
    <3>2. End(t, "failed") /\ data' = stack[1].saved /\ stack' = <<>>
      BY <1>1, <2>1 DEF Throw, Undo
    <3> QED
      BY <1>b, <2>1, <3>1, <3>2
  <2>2. CASE n # 0
    <3>1. PICK i \in DOMAIN stack : Newest(n, i) /\ stack' = SubSeq(stack, 1, i - 1)
      BY <1>1, <2>2 DEF Throw, Undo, Release
    <3>2. PICK j \in DOMAIN stack : Newest(n, j) /\ data' = stack[j].saved
      BY <1>1, <2>2 DEF Throw, Undo
    <3>3. i = n + 1 /\ j = n + 1
      BY <1>t, <3>1, <3>2, TopReleases
    <3> QED
      BY <1>t, <1>b, <3>1, <3>2, <3>3 DEF Throw
  <2> QED
    BY <2>1, <2>2
<1>3. NestInv' /\ Committed' = Committed
  BY <1>t, <1>2, PopNest
<1>4. Atomic!Fail({t})
  BY <1>t, <1>2, <1>3 DEF Atomic!Fail, End, CallTypeOK
<1> QED
  BY <1>3, <1>4 DEF AtomicStep, Atomic!Next

LEMMA CrashNest ==
  ASSUME NestInv, TypeOK', Crash
  PROVE  NestInv' /\ AtomicStep
<1>t. CallTypeOK /\ Open' = {} /\ stack' = <<>> /\ depth' = 0 /\ Len(stack') = 0
  BY NestTyped, EmptySeq DEF Crash, Open, CallTypeOK
<1>1. Leveled' /\ Chained' /\ Layered'
  BY <1>t DEF Leveled, Chained, Layered
<1>2. ParentFirst'
  BY <1>t, TransactionAssumption DEF NestInv, ParentFirst, Crash, Open
<1>3. Atomic!Fail(Open)
  BY <1>t DEF Atomic!Fail, Crash, Committed, CallTypeOK, Open
<1>4. Open \in SUBSET Txs
  BY DEF Open
<1> QED
  BY <1>1, <1>2, <1>3, <1>4 DEF NestInv, AtomicStep, Atomic!Next
LEMMA StepNest ==
  ASSUME ~Overlap
  PROVE  NestInv /\ TypeOK' /\ [Next]_vars => NestInv' /\ [Atomic!Next]_<<Committed, result>>
<1> SUFFICES ASSUME NestInv, TypeOK', [Next]_vars PROVE NestInv' /\ AtomicStep
  BY DEF AtomicStep
<1>1. ASSUME NEW t \in Txs, Busy(t) PROVE NestInv' /\ AtomicStep
  BY <1>1, BusyNest
<1>2. ASSUME NEW t \in Txs, Start(t) PROVE NestInv' /\ AtomicStep
  BY <1>2, StartNest
<1>3. ASSUME NEW t \in Txs, Write(t) PROVE NestInv' /\ AtomicStep
  BY <1>3, WriteNest
<1>4. ASSUME NEW t \in Txs, Finish(t) PROVE NestInv' /\ AtomicStep
  BY <1>4, FinishNest
<1>5. ASSUME NEW t \in Txs, Throw(t) PROVE NestInv' /\ AtomicStep
  BY <1>5, ThrowNest
<1>6. ASSUME Crash PROVE NestInv' /\ AtomicStep
  BY <1>6, CrashNest
<1>7. CASE UNCHANGED vars
  <2>1. \A t, u : Atomic!Survives(t, u)' <=> Atomic!Survives(t, u)
    BY <1>7 DEF vars, Atomic!Survives, Atomic!WithNested
  <2>2. \A t : Added(t)' = Added(t)
    BY <1>7, <2>1 DEF vars, Added
  <2>3. Layered'
    BY <1>7, <2>2 DEF vars, NestInv, Layered, Below, Open
  <2>4. Leveled' /\ Chained' /\ ParentFirst'
    BY <1>7 DEF vars, NestInv, Leveled, Chained, ParentFirst, Open
  <2>5. AtomicStep
    BY <1>7 DEF vars, AtomicStep, Committed
  <2> QED
    BY <2>3, <2>4, <2>5 DEF NestInv
<1> QED
  BY <1>1, <1>2, <1>3, <1>4, <1>5, <1>6, <1>7 DEF Next

(* Calls that are nested or one after another implement atomic blocks,     *)
(* whatever throws, is refused or crashes between two steps: the database  *)
(* file gets the writes of a root call that returned, with those of the    *)
(* nested calls that returned to it, in one step, and nothing of a call    *)
(* that threw (connection.ts 234-275).  With overlap this is false.        *)
THEOREM AtomicWhenNested ==
  ASSUME ~Overlap
  PROVE  Spec => AtomicSpec
<1>1. Init => NestInv /\ Atomic!Init
  BY InitNest
<1>2. NestInv /\ TypeOK' /\ [Next]_vars => NestInv' /\ [Atomic!Next]_<<Committed, result>>
  BY StepNest
<1>3. Spec => []TypeOK
  BY TypeCorrect
<1> QED
  BY <1>1, <1>2, <1>3, PTL DEF Spec, AtomicSpec, Atomic!Spec

-----------------------------------------------------------------------------
(* The deployment state. *)
-----------------------------------------------------------------------------
(* The tables of a device, its clock, and the numbers of its snapshots.    *)
RecordType == [tool : Tools, ver : Versions, at : 1..MaxTime,
               state : {"canary", "promoted", "rolled_back", "suspended", "retired"}]
SnapshotType == [rev : Nat \ {0}, at : 1..MaxTime, tools : [Tools -> Maybe]]

InstallationType == [ver : Maybe, state : {"none", "active", "inactive", "uninstalled"}]

TablesTyped ==
  /\ active \in [Tools -> Maybe]
  /\ deployed \in Seq(RecordType) /\ snaps \in Seq(SnapshotType)
  /\ installed \in [Tools -> InstallationType]
  /\ staged \in [Tools -> [Versions -> {"none", "draft", "active", "revoked"}]]

ClockTyped == now \in 1..MaxTime /\ overtaken \in BOOLEAN

(* The installation row of t beside a map of the active versions.          *)
InstallAgrees(map, t) ==
  /\ installed[t].state = "active" <=> (map[t] # NoVersion /\ installed[t].state # "none")
  /\ installed[t].state = "active" => installed[t].ver = map[t]

ToolAgrees(t) ==
  /\ snaps # <<>> => \/ active[t] = Last(snaps).tools[t]
                     \/ active[t] = NoVersion /\ \A i \in RecordsOf(t) : deployed[i].state = "retired"
  /\ InstallAgrees(active, t)

(* As long as no operation was overtaken between its stamp and its         *)
(* transaction, the snapshots are numbered from one and stamped in order.  *)
Numbered ==
  /\ overtaken \/ \A i \in DOMAIN snaps : snaps[i].rev = i
  /\ overtaken \/ \A i, j \in DOMAIN snaps : i < j => snaps[i].at < snaps[j].at
  /\ \A i \in DOMAIN snaps : snaps[i].at < now
  /\ RevisionsAreFree

CatalogInv == TablesTyped /\ ClockTyped /\ (\A t \in Tools : ToolAgrees(t)) /\ Numbered

-----------------------------------------------------------------------------
LEMMA SnapsTyped ==
  ASSUME TablesTyped
  PROVE  /\ Len(snaps) \in Nat /\ DOMAIN snaps = 1..Len(snaps)
         /\ \A i \in DOMAIN snaps : /\ snaps[i] \in SnapshotType
                                    /\ snaps[i].rev \in Nat \ {0} /\ snaps[i].at \in 1..MaxTime
                                    /\ snaps[i].tools \in [Tools -> Maybe]
         /\ snaps = <<>> <=> Len(snaps) = 0
<1>1. snaps \in Seq(SnapshotType)
  BY DEF TablesTyped
<1>2. Len(snaps) \in Nat /\ DOMAIN snaps = 1..Len(snaps) /\ snaps = <<>> <=> Len(snaps) = 0
  BY <1>1, LenProperties, EmptySeq
<1>3. \A i \in DOMAIN snaps : snaps[i] \in SnapshotType
  BY <1>1, LenProperties
<1> QED
  BY <1>2, <1>3 DEF SnapshotType

LEMMA RecordsTyped ==
  ASSUME TablesTyped
  PROVE  /\ Len(deployed) \in Nat /\ DOMAIN deployed = 1..Len(deployed)
         /\ \A i \in DOMAIN deployed :
              /\ deployed[i] \in RecordType /\ deployed[i].tool \in Tools
              /\ deployed[i].ver \in Versions /\ deployed[i].at \in 1..MaxTime
<1>1. deployed \in Seq(RecordType)
  BY DEF TablesTyped
<1>2. Len(deployed) \in Nat /\ DOMAIN deployed = 1..Len(deployed)
  BY <1>1, LenProperties
<1>3. \A i \in DOMAIN deployed : deployed[i] \in RecordType
  BY <1>1, LenProperties
<1> QED
  BY <1>2, <1>3 DEF RecordType

(* The next revision is that of one of the newest snapshots and one more.  *)
LEMMA NextRevision ==
  ASSUME TablesTyped
  PROVE  /\ NextRev \in Nat \ {0}
         /\ snaps = <<>> => NextRev = 1
         /\ snaps # <<>> => \E k \in DOMAIN snaps :
              NextRev = snaps[k].rev + 1 /\ \A i \in DOMAIN snaps : snaps[i].at <= snaps[k].at
<1>1. CASE snaps = <<>>
  BY <1>1 DEF NextRev
<1>2. CASE snaps # <<>>
  <2> PICK S : S = {snaps[i].at : i \in DOMAIN snaps}
    OBVIOUS
  <2>n. MaxTime \in Nat
    BY SyncAssumption DEF SyncAssumption
  <2>1. S \subseteq 1..MaxTime /\ S # {}
    BY <1>2, SnapsTyped
  <2>2. PICK m \in S : \A k \in S : k <= m
    BY <2>n, <2>1, GreatestElement
  <2>3. PICK i \in DOMAIN snaps : m = snaps[i].at
    OBVIOUS
  <2>4. \E s \in ToSet(snaps) : \A r \in ToSet(snaps) : r.at <= s.at
    BY <2>2, <2>3 DEF ToSet
  <2> PICK s : s = CHOOSE x \in ToSet(snaps) : \A r \in ToSet(snaps) : r.at <= x.at
    OBVIOUS
  <2>5. s \in ToSet(snaps) /\ (\A r \in ToSet(snaps) : r.at <= s.at)
    BY <2>4
  <2>6. NextRev = s.rev + 1
    BY <1>2 DEF NextRev
  <2>7. PICK k \in DOMAIN snaps : s = snaps[k]
    BY <2>5 DEF ToSet
  <2>8. \A j \in DOMAIN snaps : snaps[j].at <= snaps[k].at
    BY <2>5, <2>7 DEF ToSet
  <2>9. NextRev = snaps[k].rev + 1 /\ snaps[k].rev \in Nat
    BY <2>6, <2>7, SnapsTyped
  <2> QED
    BY <1>2, <2>8, <2>9
<1> QED
  BY <1>1, <1>2

LEMMA RevisionIsFree ==
  ASSUME TablesTyped, Numbered, ~overtaken
  PROVE  NextRev = Len(snaps) + 1 /\ ~Taken
<1>1. NextRev = Len(snaps) + 1
  <2>1. CASE snaps = <<>>
    BY <2>1, NextRevision, SnapsTyped
  <2>2. CASE snaps # <<>>
    <3>1. PICK k \in DOMAIN snaps :
            NextRev = snaps[k].rev + 1 /\ \A i \in DOMAIN snaps : snaps[i].at <= snaps[k].at
      BY <2>2, NextRevision
    <3>2. Len(snaps) \in DOMAIN snaps /\ k <= Len(snaps)
      BY <2>2, SnapsTyped
    <3>3. ~(k < Len(snaps))
      BY <3>1, <3>2, SnapsTyped DEF Numbered
    <3>4. k = Len(snaps)
      BY <3>2, <3>3, SnapsTyped
    <3> QED
      BY <3>1, <3>4 DEF Numbered
  <2> QED
    BY <2>1, <2>2
<1>2. \A i \in DOMAIN snaps : snaps[i].rev # Len(snaps) + 1
  BY SnapsTyped DEF Numbered
<1> QED
  BY <1>1, <1>2 DEF Taken, ToSet

(* A transaction with a stamp of its own: published, or rolled back whole. *)
LEMMA PublishNumbers ==
  ASSUME TablesTyped, ClockTyped, Numbered,
         NEW map \in [Tools -> Maybe], NEW at \in 1..MaxTime,
         now' \in 1..MaxTime, now <= now', at < now',
         \A i \in DOMAIN snaps : snaps[i].at # at,
         Publish(map, at)
  PROVE  /\ snaps' \in Seq(SnapshotType) /\ snaps' # <<>> /\ Last(snaps').tools = map
         /\ Len(snaps') = Len(snaps) + 1
         /\ \A i \in DOMAIN snaps' : snaps'[i].at = at \/ \E j \in DOMAIN snaps : snaps'[i] = snaps[j]
         /\ active' = map /\ ClockTyped' /\ Numbered'
<1> PICK e : e = [rev |-> NextRev, at |-> at, tools |-> map]
  OBVIOUS
<1> PICK n : n = Len(snaps)
  OBVIOUS
<1>1. e \in SnapshotType /\ e.at = at /\ e.rev = NextRev /\ e.tools = map
  BY NextRevision DEF SnapshotType
<1>2. /\ snaps' \in Seq(SnapshotType) /\ Len(snaps') = n + 1 /\ snaps'[n + 1] = e
      /\ \A i \in 1..n : snaps'[i] = snaps[i]
      /\ DOMAIN snaps' = 1..(n + 1) /\ DOMAIN snaps = 1..n /\ n \in Nat
  <2>1. snaps' = Append(snaps, e) /\ snaps \in Seq(SnapshotType)
    BY DEF Publish, TablesTyped
  <2> QED
    BY <1>1, <2>1, AppendProperties, LenProperties
<1>3. snaps' # <<>> /\ Last(snaps').tools = map
  BY <1>1, <1>2, EmptySeq DEF Last
<1>4. ClockTyped'
  BY DEF ClockTyped, Publish
<1>5. ASSUME ~overtaken' PROVE ~overtaken /\ e.rev = n + 1 /\ \A i \in DOMAIN snaps : snaps[i].at < at
  <2>1. ~overtaken /\ ~\E s \in ToSet(snaps) : s.at > at
    BY <1>5 DEF Publish
  <2>2. \A i \in DOMAIN snaps : ~(snaps[i].at > at)
    BY <2>1 DEF ToSet
  <2>3. e.rev = n + 1
    BY <1>1, <2>1, RevisionIsFree
  <2> QED
    BY <2>1, <2>2, <2>3, SnapsTyped
<1>6. overtaken' \/ \A i \in DOMAIN snaps' : snaps'[i].rev = i
  BY <1>2, <1>5 DEF Numbered
<1>7. overtaken' \/ \A i, j \in DOMAIN snaps' : i < j => snaps'[i].at < snaps'[j].at
  <2> SUFFICES ASSUME ~overtaken', NEW i \in DOMAIN snaps', NEW j \in DOMAIN snaps', i < j
               PROVE  snaps'[i].at < snaps'[j].at
    OBVIOUS
  <2>1. CASE j = n + 1
    BY <1>1, <1>2, <1>5, <2>1
  <2>2. CASE j # n + 1
    <3>1. i \in DOMAIN snaps /\ j \in DOMAIN snaps /\ snaps'[i] = snaps[i] /\ snaps'[j] = snaps[j]
      BY <1>2, <2>2
    <3>2. snaps[i].at < snaps[j].at
      BY <1>5, <3>1 DEF Numbered
    <3> QED
      BY <3>1, <3>2
  <2> QED
    BY <2>1, <2>2
<1>8. \A i \in DOMAIN snaps' : snaps'[i].at < now'
  <2> SUFFICES ASSUME NEW i \in DOMAIN snaps' PROVE snaps'[i].at < now'
    OBVIOUS
  <2>1. CASE i = n + 1
    BY <1>1, <1>2, <2>1
  <2>2. CASE i # n + 1
    <3>1. i \in DOMAIN snaps /\ snaps'[i].at = snaps[i].at /\ snaps[i].at < now
      BY <1>2, <2>2 DEF Numbered
    <3> QED
      BY <3>1, SnapsTyped DEF ClockTyped
  <2> QED
    BY <2>1, <2>2
<1>9. RevisionsAreFree'
  <2>1. collided => overtaken
    BY DEF Numbered, RevisionsAreFree
  <2>2. collided' = collided /\ (overtaken => overtaken')
    BY DEF Publish
  <2> QED
    BY <2>1, <2>2 DEF RevisionsAreFree
<1>10. \A i \in DOMAIN snaps' : snaps'[i].at = at \/ \E j \in DOMAIN snaps : snaps'[i] = snaps[j]
  BY <1>1, <1>2
<1>11. active' = map
  BY DEF Publish
<1> QED
  BY <1>2, <1>3, <1>4, <1>6, <1>7, <1>8, <1>9, <1>10, <1>11 DEF Numbered
-----------------------------------------------------------------------------
(* The transactions on the tables, each with a stamp no snapshot has.      *)
Stamped(at) == \A i \in DOMAIN snaps' : snaps'[i].at = at \/ \E j \in DOMAIN snaps : snaps'[i] = snaps[j]

ClockStep(at) ==
  /\ at \in 1..MaxTime /\ now' \in 1..MaxTime /\ now <= now' /\ at < now'
  /\ \A i \in DOMAIN snaps : snaps[i].at # at

LEMMA AbortKeeps ==
  ASSUME CatalogInv, NEW at, ClockStep(at), Taken, Abort
  PROVE  CatalogInv' /\ Stamped(at)
<1>1. overtaken
  BY RevisionIsFree DEF CatalogInv
<1>2. TablesTyped' /\ ClockTyped' /\ (\A t \in Tools : ToolAgrees(t)')
  BY DEF CatalogInv, Abort, tableVars, TablesTyped, ClockTyped, ClockStep, ToolAgrees, InstallAgrees,
     RecordsOf
<1>3. overtaken' /\ snaps' = snaps
  BY <1>1 DEF Abort, tableVars
<1>4. \A i \in DOMAIN snaps : snaps[i].at < now'
  <2>1. \A i \in DOMAIN snaps : snaps[i].at < now /\ snaps[i].at \in 1..MaxTime
    BY SnapsTyped DEF CatalogInv, Numbered
  <2> QED
    BY <2>1 DEF CatalogInv, ClockTyped, ClockStep
<1>5. Numbered'
  BY <1>3, <1>4 DEF Numbered, RevisionsAreFree
<1> QED
  BY <1>2, <1>3, <1>5 DEF CatalogInv, Stamped

(* A publication agrees with the map it publishes.                         *)
LEMMA PublishKeeps ==
  ASSUME CatalogInv, NEW map \in [Tools -> Maybe], NEW at, ClockStep(at), Publish(map, at),
         deployed' \in Seq(RecordType),
         installed' \in [Tools -> InstallationType],
         staged' \in [Tools -> [Versions -> {"none", "draft", "active", "revoked"}]],
         \A t \in Tools : InstallAgrees(map, t)'
  PROVE  CatalogInv' /\ Stamped(at)
<1>1. /\ snaps' \in Seq(SnapshotType) /\ snaps' # <<>> /\ Last(snaps').tools = map
      /\ Stamped(at) /\ active' = map /\ ClockTyped' /\ Numbered'
  BY PublishNumbers DEF CatalogInv, ClockStep, Stamped
<1>2. TablesTyped'
  BY <1>1 DEF TablesTyped
<1>3. \A t \in Tools : ToolAgrees(t)'
  BY <1>1 DEF ToolAgrees, InstallAgrees
<1> QED
  BY <1>1, <1>2, <1>3 DEF CatalogInv

LEMMA ActivateKeeps ==
  ASSUME CatalogInv, NEW t \in Tools, NEW v \in Versions, NEW state \in {"canary", "promoted"},
         NEW at, ClockStep(at), Activate(t, v, state, at)
  PROVE  CatalogInv' /\ Stamped(at)
<1>1. CASE Taken
  BY <1>1, AbortKeeps DEF Activate
<1>2. CASE ~Taken
  <2> PICK map : map = [active EXCEPT ![t] = v]
    OBVIOUS
  <2>1. TablesTyped /\ v \in Maybe /\ v # NoVersion /\ at \in 1..MaxTime
    BY SyncAssumption DEF CatalogInv, Maybe, ClockStep, SyncAssumption
  <2>2. map \in [Tools -> Maybe] /\ map[t] = v /\ \A u \in Tools \ {t} : map[u] = active[u]
    BY <2>1 DEF TablesTyped
  <2>3. deployed' \in Seq(RecordType)
    <3> PICK mine : mine = {i \in DOMAIN deployed : deployed[i].tool = t /\ deployed[i].ver = v}
      OBVIOUS
    <3> PICK e : e = [tool |-> t, ver |-> v, at |-> at, state |-> state]
      OBVIOUS
    <3>1. e \in RecordType
      BY <2>1 DEF RecordType
    <3>2. deployed' = IF mine = {} THEN Append(deployed, e)
                      ELSE [i \in DOMAIN deployed |->
                              IF i \in mine THEN [deployed[i] EXCEPT !.state = state] ELSE deployed[i]]
      BY <1>2 DEF Activate
    <3>3. CASE mine = {}
      BY <2>1, <3>1, <3>2, <3>3, AppendProperties DEF TablesTyped
    <3>4. CASE mine # {}
      <4>1. \A i \in DOMAIN deployed : [deployed[i] EXCEPT !.state = state] \in RecordType
        BY <2>1, RecordsTyped DEF RecordType
      <4>2. deployed' \in [1..Len(deployed) -> RecordType]
        BY <2>1, <3>2, <3>4, <4>1, RecordsTyped
      <4> QED
        BY <2>1, <4>2, RecordsTyped, FunctionIsSeq
    <3> QED
      BY <3>3, <3>4
  <2>4. /\ installed' = [installed EXCEPT ![t] = [ver |-> v, state |-> "active"]]
        /\ Publish(map, at)
    BY <1>2 DEF Activate
  <2>5. installed' \in [Tools -> InstallationType]
    BY <2>1, <2>4 DEF TablesTyped, InstallationType
  <2>6. staged' \in [Tools -> [Versions -> {"none", "draft", "active", "revoked"}]]
    <3>1. staged' = [staged EXCEPT ![t][v] = IF @ = "none" THEN @ ELSE "active"]
      BY <1>2 DEF Activate
    <3> QED
      BY <2>1, <3>1 DEF TablesTyped
  <2>7. \A u \in Tools : InstallAgrees(map, u)'
    <3> SUFFICES ASSUME NEW u \in Tools
                 PROVE  InstallAgrees(map, u)'
      OBVIOUS
    <3>1. CASE u = t
      BY <2>1, <2>2, <2>4, <3>1 DEF TablesTyped, InstallAgrees, InstallationType
    <3>2. CASE u # t
      BY <2>1, <2>2, <2>4, <3>2 DEF TablesTyped, CatalogInv, ToolAgrees, InstallAgrees
    <3> QED
      BY <3>1, <3>2
  <2> QED
    BY <2>2, <2>3, <2>4, <2>5, <2>6, <2>7, PublishKeeps
<1> QED
  BY <1>1, <1>2

LEMMA RollbackKeeps ==
  ASSUME CatalogInv, NEW t \in Tools, NEW target \in Maybe, ClockStep(now), Rollback(t, target)
  PROVE  CatalogInv' /\ \A i \in DOMAIN snaps' :
           snaps'[i].at = now \/ \E j \in DOMAIN snaps : snaps'[i] = snaps[j]
<1> PICK at : at = now
  OBVIOUS
<1>0. ClockStep(at) /\ TablesTyped
  BY DEF ClockStep, CatalogInv
<1>1. CASE Taken
  BY <1>0, <1>1, AbortKeeps DEF Rollback, Stamped
<1>2. CASE ~Taken
  <2> PICK map : map = [active EXCEPT ![t] = target]
    OBVIOUS
  <2>2. map \in [Tools -> Maybe] /\ map[t] = target /\ \A u \in Tools \ {t} : map[u] = active[u]
    BY <1>0 DEF TablesTyped
  <2>3. deployed' \in Seq(RecordType)
    <3>1. \A i \in DOMAIN deployed : [deployed[i] EXCEPT !.state = "rolled_back"] \in RecordType
      BY <1>0, RecordsTyped DEF RecordType
    <3>2. deployed' = [i \in DOMAIN deployed |->
                         IF i \in RecordsOf(t) /\ i = LatestOf(t)
                         THEN [deployed[i] EXCEPT !.state = "rolled_back"] ELSE deployed[i]]
      BY <1>2 DEF Rollback
    <3>3. deployed' \in [1..Len(deployed) -> RecordType]
      BY <1>0, <3>1, <3>2, RecordsTyped
    <3> QED
      BY <1>0, <3>3, RecordsTyped, FunctionIsSeq
  <2>4. /\ installed' = [installed EXCEPT ![t] =
                          IF @.state = "none" THEN @
                          ELSE IF target # NoVersion THEN [ver |-> target, state |-> "active"]
                          ELSE [@ EXCEPT !.state = "uninstalled"]]
        /\ Publish(map, at) /\ staged' = staged
    BY <1>2 DEF Rollback
  <2>5. installed' \in [Tools -> InstallationType]
    BY <1>0, <2>4 DEF TablesTyped, InstallationType
  <2>6. staged' \in [Tools -> [Versions -> {"none", "draft", "active", "revoked"}]]
    BY <1>0, <2>4 DEF TablesTyped
  <2>7. \A u \in Tools : InstallAgrees(map, u)'
    <3> SUFFICES ASSUME NEW u \in Tools
                 PROVE  InstallAgrees(map, u)'
      OBVIOUS
    <3>1. CASE u = t
      BY <1>0, <2>2, <2>4, <3>1 DEF TablesTyped, InstallAgrees, InstallationType
    <3>2. CASE u # t
      BY <1>0, <2>2, <2>4, <3>2 DEF TablesTyped, CatalogInv, ToolAgrees, InstallAgrees
    <3> QED
      BY <3>1, <3>2
  <2>8. CatalogInv' /\ Stamped(at)
    BY <1>0, <2>2, <2>3, <2>4, <2>5, <2>6, <2>7, PublishKeeps
  <2> QED
    BY <2>8 DEF Stamped
<1> QED
  BY <1>1, <1>2

LEMMA SettleKeeps ==
  ASSUME TablesTyped, NEW t \in Tools, NEW state \in {"suspended", "retired"}, Settle(t, state)
  PROVE  /\ deployed' \in Seq(RecordType) /\ DOMAIN deployed' = DOMAIN deployed
         /\ \A i \in DOMAIN deployed : deployed'[i].tool = deployed[i].tool
         /\ \A i \in DOMAIN deployed : deployed[i].tool = t => deployed'[i].state = state
         /\ \A i \in DOMAIN deployed : deployed[i].tool # t => deployed'[i] = deployed[i]
<1>1. \A i \in DOMAIN deployed : /\ [deployed[i] EXCEPT !.state = state] \in RecordType
                                 /\ [deployed[i] EXCEPT !.state = state].tool = deployed[i].tool
                                 /\ [deployed[i] EXCEPT !.state = state].state = state
  BY RecordsTyped DEF RecordType
<1>2. deployed' = [i \in DOMAIN deployed |->
                     IF deployed[i].tool = t THEN [deployed[i] EXCEPT !.state = state] ELSE deployed[i]]
  BY DEF Settle, RecordsOf
<1>3. deployed' \in [1..Len(deployed) -> RecordType]
  BY <1>1, <1>2, RecordsTyped
<1>4. deployed' \in Seq(RecordType)
  BY <1>3, RecordsTyped, FunctionIsSeq
<1> QED
  BY <1>1, <1>2, <1>4

LEMMA WithdrawKeeps ==
  ASSUME CatalogInv, NEW t \in Tools, NEW state \in {"inactive", "uninstalled"}, Withdraw(t, state),
         NEW map, map = [active EXCEPT ![t] = NoVersion]
  PROVE  /\ installed' \in [Tools -> InstallationType]
         /\ map \in [Tools -> Maybe] /\ map[t] = NoVersion /\ \A u \in Tools \ {t} : map[u] = active[u]
         /\ \A u \in Tools : InstallAgrees(map, u)'
<1>1. TablesTyped /\ installed' = [installed EXCEPT ![t].state = IF @ = "none" THEN @ ELSE state]
  BY DEF CatalogInv, Withdraw
<1>2. installed' \in [Tools -> InstallationType]
  BY <1>1 DEF TablesTyped, InstallationType
<1>3. map \in [Tools -> Maybe] /\ map[t] = NoVersion /\ \A u \in Tools \ {t} : map[u] = active[u]
  BY <1>1 DEF TablesTyped, Maybe
<1>4. installed'[t].state # "active"
  BY <1>1 DEF TablesTyped, InstallationType
<1>5. \A u \in Tools \ {t} : installed'[u] = installed[u]
  BY <1>1 DEF TablesTyped
<1>6. \A u \in Tools \ {t} : InstallAgrees(active, u)
  BY DEF CatalogInv, ToolAgrees
<1>7. ASSUME NEW u \in Tools PROVE InstallAgrees(map, u)'
  BY <1>3, <1>4, <1>5, <1>6 DEF InstallAgrees
<1> QED
  BY <1>2, <1>3, <1>7

LEMMA SuspendKeeps ==
  ASSUME CatalogInv, NEW t \in Tools, ClockStep(now), Suspend(t)
  PROVE  CatalogInv' /\ \A i \in DOMAIN snaps' :
           snaps'[i].at = now \/ \E j \in DOMAIN snaps : snaps'[i] = snaps[j]
<1> PICK at : at = now
  OBVIOUS
<1>0. ClockStep(at) /\ TablesTyped
  BY DEF ClockStep, CatalogInv
<1>1. CASE Taken
  BY <1>0, <1>1, AbortKeeps DEF Suspend, Stamped
<1>2. CASE ~Taken
  <2> PICK map : map = [active EXCEPT ![t] = NoVersion]
    OBVIOUS
  <2>1. Settle(t, "suspended") /\ Withdraw(t, "inactive") /\ Publish(map, at) /\ staged' = staged
    BY <1>2 DEF Suspend
  <2>2. deployed' \in Seq(RecordType)
    BY <1>0, <2>1, SettleKeeps
  <2>3. staged' \in [Tools -> [Versions -> {"none", "draft", "active", "revoked"}]]
    BY <1>0, <2>1 DEF TablesTyped
  <2>4. /\ installed' \in [Tools -> InstallationType]
        /\ map \in [Tools -> Maybe] /\ \A u \in Tools : InstallAgrees(map, u)'
    BY <2>1, WithdrawKeeps
  <2>5. CatalogInv' /\ Stamped(at)
    BY <1>0, <2>1, <2>2, <2>3, <2>4, PublishKeeps
  <2> QED
    BY <2>5 DEF Stamped
<1> QED
  BY <1>1, <1>2

LEMMA RetireKeeps ==
  ASSUME CatalogInv, NEW t \in Tools, ClockStep(now), Retire(t)
  PROVE  CatalogInv' /\ snaps' = snaps
<1> PICK map : map = [active EXCEPT ![t] = NoVersion]
  OBVIOUS
<1>0. TablesTyped /\ snaps' = snaps /\ overtaken' = overtaken /\ collided' = collided /\ active' = map
  BY DEF CatalogInv, Retire
<1>1. /\ installed' \in [Tools -> InstallationType]
      /\ map \in [Tools -> Maybe] /\ map[t] = NoVersion /\ \A u \in Tools \ {t} : map[u] = active[u]
      /\ \A u \in Tools : InstallAgrees(map, u)'
  <2>1. Withdraw(t, "uninstalled")
    BY DEF Retire
  <2> QED
    BY <2>1, WithdrawKeeps
<1>2. /\ deployed' \in Seq(RecordType) /\ DOMAIN deployed' = DOMAIN deployed
      /\ \A i \in DOMAIN deployed : deployed'[i].tool = deployed[i].tool
      /\ \A i \in DOMAIN deployed : deployed[i].tool = t => deployed'[i].state = "retired"
      /\ \A i \in DOMAIN deployed : deployed[i].tool # t => deployed'[i] = deployed[i]
  BY <1>0, SettleKeeps DEF Retire
<1>3. staged' \in [Tools -> [Versions -> {"none", "draft", "active", "revoked"}]]
  <2>1. staged' = [staged EXCEPT ![t] = [v \in Versions |-> IF @[v] = "none" THEN "none" ELSE "revoked"]]
    BY DEF Retire
  <2> QED
    BY <1>0, <2>1 DEF TablesTyped
<1>4. TablesTyped'
  BY <1>0, <1>1, <1>2, <1>3 DEF TablesTyped
<1>5. \A u \in Tools : ToolAgrees(u)'
  <2> SUFFICES ASSUME NEW u \in Tools PROVE ToolAgrees(u)'
    OBVIOUS
  <2>1. ASSUME snaps' # <<>>
        PROVE  \/ active'[u] = Last(snaps').tools[u]
               \/ active'[u] = NoVersion /\ \A i \in RecordsOf(u)' : deployed'[i].state = "retired"
    <3>1. CASE u = t
      BY <1>0, <1>1, <1>2, <3>1 DEF RecordsOf
    <3>2. CASE u # t
      <4>1. \/ active[u] = Last(snaps).tools[u]
            \/ active[u] = NoVersion /\ \A i \in RecordsOf(u) : deployed[i].state = "retired"
        BY <1>0, <2>1 DEF CatalogInv, ToolAgrees
      <4>2. RecordsOf(u)' = RecordsOf(u) /\ \A i \in RecordsOf(u) : deployed'[i] = deployed[i]
        BY <1>2, <3>2 DEF RecordsOf
      <4> QED
        BY <1>0, <1>1, <3>2, <4>1, <4>2
    <3> QED
      BY <3>1, <3>2
  <2> QED
    BY <1>0, <1>1, <2>1 DEF ToolAgrees, InstallAgrees
<1>6. ClockTyped'
  BY <1>0 DEF CatalogInv, ClockTyped, ClockStep
<1>7. \A i \in DOMAIN snaps : snaps[i].at < now'
  <2>1. \A i \in DOMAIN snaps : snaps[i].at < now /\ snaps[i].at \in 1..MaxTime
    BY <1>0, SnapsTyped DEF CatalogInv, Numbered
  <2> QED
    BY <2>1 DEF CatalogInv, ClockTyped, ClockStep
<1>8. Numbered'
  BY <1>0, <1>7 DEF CatalogInv, Numbered, RevisionsAreFree
<1> QED
  BY <1>0, <1>4, <1>5, <1>6, <1>8 DEF CatalogInv
-----------------------------------------------------------------------------
(* The queues of the coordinator and the activations in flight.            *)
Workers == Tools \cup {Sync}

QueueInv ==
  /\ sent \subseteq Orders /\ answered \subseteq Ids /\ queues \in [Tools -> Seq(sent)]
  /\ \A p, q \in sent : p.id = q.id => p = q
  /\ \A t \in Tools : \A k \in DOMAIN queues[t] : queues[t][k].tool = t

Active(x) == x \in Jobs /\ x.step # "idle" /\ x.tool \in Tools /\ x.ver \in Versions /\ x.state # "none"

JobInv ==
  /\ job \in [Workers -> Jobs]
  /\ \A r \in Workers : job[r] # NoJob => Active(job[r])
  /\ \A t \in Tools : job[t] # NoJob =>
       /\ job[t].tool = t /\ queues[t] # <<>>
       /\ Head(queues[t]).kind \in {"activate", "canary", "resume"}

(* A command that ran was answered or is the one whose activation is in    *)
(* flight.                                                                 *)
RunInv ==
  /\ ran \in [Ids -> {0, 1}]
  /\ \A i \in Ids : ran[i] = 1 =>
       i \in answered \/ \E t \in Tools : job[t] # NoJob /\ Head(queues[t]).id = i

WorkInv == QueueInv /\ JobInv /\ RunInv

LEMMA NoJobTyped == NoJob \in Jobs /\ NoJob.step = "idle" /\ Sync \notin Tools /\ NoVersion \notin Versions
<1>1. MaxTime \in Nat /\ Sync \notin Tools /\ NoVersion \notin Versions
  BY SyncAssumption DEF SyncAssumption
<1> QED
  BY <1>1 DEF NoJob, Jobs, Maybe

LEMMA HeadSent ==
  ASSUME QueueInv, NEW t \in Tools, queues[t] # <<>>
  PROVE  /\ Head(queues[t]) \in sent /\ Head(queues[t]).tool = t /\ Head(queues[t]).id \in Ids
         /\ Head(queues[t]) \in Orders
         /\ Tail(queues[t]) \in Seq(sent) /\ Len(Tail(queues[t])) = Len(queues[t]) - 1
         /\ \A k \in DOMAIN Tail(queues[t]) : Tail(queues[t])[k].tool = t
<1> PICK q : q = queues[t]
  OBVIOUS
<1>1. q \in Seq(sent) /\ q # <<>> /\ sent \subseteq Orders /\ \A k \in DOMAIN q : q[k].tool = t
  BY DEF QueueInv
<1>2. Len(q) \in Nat \ {0} /\ DOMAIN q = 1..Len(q)
  BY <1>1, LenProperties, EmptySeq
<1>3. /\ Head(q) \in sent /\ Tail(q) \in Seq(sent) /\ Len(Tail(q)) = Len(q) - 1
      /\ \A k \in 1..Len(Tail(q)) : Tail(q)[k] = q[k + 1]
  BY <1>1, HeadTailProperties
<1>4. Head(q) = q[1]
  BY <1>1
<1>5. DOMAIN Tail(q) = 1..Len(Tail(q))
  BY <1>3, LenProperties
<1>6. \A k \in DOMAIN Tail(q) : Tail(q)[k].tool = t
  BY <1>1, <1>2, <1>3, <1>5
<1>7. Head(q).tool = t /\ Head(q).id \in Ids
  BY <1>1, <1>2, <1>3, <1>4 DEF Ids
<1> QED
  BY <1>1, <1>3, <1>6, <1>7

(* A command starts only when it has not run.                              *)
LEMMA StartsOnce ==
  ASSUME WorkInv, NEW t \in Tools, RunStart(t)
  PROVE  /\ ran' \in [Ids -> {0, 1}]
         /\ \A i \in Ids : i # Head(queues[t]).id => ran'[i] = ran[i]
<1>1. /\ queues[t] # <<>> /\ job[t] = NoJob /\ Head(queues[t]).id \notin answered
      /\ ran' = [ran EXCEPT ![Head(queues[t]).id] = @ + 1]
  BY DEF RunStart
<1>2. Head(queues[t]) \in sent /\ Head(queues[t]).tool = t /\ Head(queues[t]).id \in Ids
  BY <1>1, HeadSent DEF WorkInv
<1>3. ASSUME ran[Head(queues[t]).id] = 1 PROVE FALSE
  <2>1. PICK u \in Tools : job[u] # NoJob /\ Head(queues[u]).id = Head(queues[t]).id
    BY <1>1, <1>2, <1>3 DEF WorkInv, RunInv
  <2>2. Head(queues[u]) \in sent /\ Head(queues[u]).tool = u
    BY <2>1, HeadSent DEF WorkInv, JobInv
  <2>3. u = t
    BY <1>2, <2>1, <2>2 DEF WorkInv, QueueInv
  <2> QED
    BY <1>1, <2>1, <2>3
<1>4. ran \in [Ids -> {0, 1}]
  BY DEF WorkInv, RunInv
<1> QED
  BY <1>1, <1>2, <1>3, <1>4

(* The command at the head of a queue is answered.                         *)
LEMMA AnswerKeeps ==
  ASSUME WorkInv, NEW t \in Tools, queues[t] # <<>>, Answer(t), sent' = sent,
         job' = [job EXCEPT ![t] = NoJob],
         ran' \in [Ids -> {0, 1}],
         \A i \in Ids : i # Head(queues[t]).id => ran'[i] = ran[i]
  PROVE  WorkInv'
<1>1. /\ answered' = answered \cup {Head(queues[t]).id}
      /\ queues' = [queues EXCEPT ![t] = Tail(@)]
  BY DEF Answer
<1>2. /\ Head(queues[t]).id \in Ids /\ Tail(queues[t]) \in Seq(sent)
      /\ \A k \in DOMAIN Tail(queues[t]) : Tail(queues[t])[k].tool = t
  BY HeadSent DEF WorkInv
<1>3. /\ queues'[t] = Tail(queues[t]) /\ \A u \in Tools \ {t} : queues'[u] = queues[u]
      /\ job'[t] = NoJob /\ \A r \in Workers \ {t} : job'[r] = job[r]
  BY <1>1 DEF WorkInv, QueueInv, JobInv, Workers
<1>4. QueueInv'
  BY <1>1, <1>2, <1>3 DEF WorkInv, QueueInv
<1>5. JobInv'
  <2>1. job' \in [Workers -> Jobs]
    BY NoJobTyped DEF WorkInv, JobInv
  <2>2. \A r \in Workers : job'[r] # NoJob => Active(job'[r])
    BY <1>3 DEF WorkInv, JobInv
  <2>3. \A u \in Tools : job'[u] # NoJob =>
          /\ job'[u].tool = u /\ queues'[u] # <<>>
          /\ Head(queues'[u]).kind \in {"activate", "canary", "resume"}
    BY <1>3 DEF WorkInv, JobInv, Workers
  <2> QED
    BY <2>1, <2>2, <2>3 DEF JobInv
<1>6. RunInv'
  <2> SUFFICES ASSUME NEW i \in Ids, ran'[i] = 1
               PROVE  i \in answered' \/ \E u \in Tools : job'[u] # NoJob /\ Head(queues'[u]).id = i
    BY DEF RunInv
  <2>1. CASE i = Head(queues[t]).id
    BY <1>1, <2>1
  <2>2. CASE i # Head(queues[t]).id
    <3>1. ran[i] = 1
      BY <2>2
    <3>2. CASE i \in answered
      BY <1>1, <3>2
    <3>3. CASE i \notin answered
      <4>1. PICK u \in Tools : job[u] # NoJob /\ Head(queues[u]).id = i
        BY <3>1, <3>3 DEF WorkInv, RunInv
      <4>2. u # t
        BY <2>2, <4>1
      <4> QED
        BY <1>3, <4>1, <4>2 DEF Workers
    <3> QED
      BY <3>2, <3>3
  <2> QED
    BY <2>1, <2>2
<1> QED
  BY <1>4, <1>5, <1>6 DEF WorkInv

(* An activation enters or goes on, of a command or of the reconciler.     *)
LEMMA JobKeeps ==
  ASSUME WorkInv, NEW r \in Workers, NEW x, Active(x), job' = [job EXCEPT ![r] = x],
         UNCHANGED <<sent, queues, answered>>,
         ran' \in [Ids -> {0, 1}],
         r \in Tools => /\ x.tool = r /\ queues[r] # <<>>
                        /\ Head(queues[r]).kind \in {"activate", "canary", "resume"},
         \A i \in Ids : ran'[i] = ran[i] \/ (r \in Tools /\ i = Head(queues[r]).id)
  PROVE  WorkInv'
<1>1. QueueInv'
  BY DEF WorkInv, QueueInv
<1>2. x # NoJob
  BY NoJobTyped DEF Active
<1>3. job'[r] = x /\ \A u \in Workers \ {r} : job'[u] = job[u]
  BY DEF WorkInv, JobInv
<1>4. JobInv'
  <2>1. job' \in [Workers -> Jobs]
    BY DEF WorkInv, JobInv, Active
  <2>2. \A u \in Workers : job'[u] # NoJob => Active(job'[u])
    BY <1>3 DEF WorkInv, JobInv
  <2>3. \A u \in Tools : job'[u] # NoJob =>
          /\ job'[u].tool = u /\ queues'[u] # <<>>
          /\ Head(queues'[u]).kind \in {"activate", "canary", "resume"}
    BY <1>3 DEF WorkInv, JobInv, Workers
  <2> QED
    BY <2>1, <2>2, <2>3 DEF JobInv
<1>5. RunInv'
  <2> SUFFICES ASSUME NEW i \in Ids, ran'[i] = 1
               PROVE  i \in answered' \/ \E u \in Tools : job'[u] # NoJob /\ Head(queues'[u]).id = i
    BY DEF RunInv
  <2>1. CASE r \in Tools /\ i = Head(queues[r]).id
    BY <1>2, <1>3, <2>1
  <2>2. CASE ran[i] = 1
    BY <1>2, <1>3, <2>2 DEF WorkInv, RunInv, Workers
  <2> QED
    BY <2>1, <2>2
<1> QED
  BY <1>1, <1>4, <1>5 DEF WorkInv

(* The reconciler's activation ends.                                       *)
LEMMA SyncJobEnds ==
  ASSUME WorkInv, job' = [job EXCEPT ![Sync] = NoJob], UNCHANGED queueVars
  PROVE  WorkInv'
<1>1. job'[Sync] = NoJob /\ (\A u \in Tools : job'[u] = job[u]) /\ job' \in [Workers -> Jobs]
  BY NoJobTyped DEF WorkInv, JobInv, Workers
<1>2. QueueInv'
  BY DEF WorkInv, QueueInv, queueVars
<1>3. JobInv'
  BY <1>1 DEF WorkInv, JobInv, queueVars, Workers
<1>4. RunInv'
  BY <1>1 DEF WorkInv, RunInv, queueVars
<1> QED
  BY <1>2, <1>3, <1>4 DEF WorkInv
-----------------------------------------------------------------------------
(* The stamps in flight: each has passed and is like no other.             *)
StampInv ==
  \A r \in Workers : job[r].step = "commit" =>
    /\ job[r].at \in 1..MaxTime /\ job[r].at < now
    /\ \A i \in DOMAIN snaps : snaps[i].at # job[r].at
    /\ \A q \in Workers \ {r} : job[q].step = "commit" => job[q].at # job[r].at

Copies(S) == [Tools -> S] \cup {<<>>}
SyncInv ==
  /\ sync \in [step : {"idle", "override", "envelope", "want"}, todo : SUBSET Tools,
                active : Copies(Maybe), override : Copies(Permits)]
  /\ sync.step # "idle" => sync.active \in [Tools -> Maybe] /\ sync.override \in [Tools -> Permits]

ControlInv == allowed \in [Tools -> Permits] /\ override \in [Tools -> Permits]

DepInv == CatalogInv /\ WorkInv /\ StampInv /\ SyncInv /\ ControlInv

(* Time goes on, and no stamp is added to those in flight.                 *)
TimeGoesOn == now' \in 1..MaxTime /\ now <= now'
NoNewStamp == \A r \in Workers : job'[r].step = "commit" => job[r].step = "commit" /\ job'[r].at = job[r].at

LEMMA StampFrame ==
  ASSUME StampInv, ClockTyped, TimeGoesOn, snaps' = snaps, NoNewStamp
  PROVE  StampInv'
BY DEF StampInv, ClockTyped, TimeGoesOn, NoNewStamp

LEMMA StampPublish ==
  ASSUME StampInv, ClockTyped, TimeGoesOn, NoNewStamp, NEW at,
         \A i \in DOMAIN snaps' : snaps'[i].at = at \/ \E j \in DOMAIN snaps : snaps'[i] = snaps[j],
         \A r \in Workers : job'[r].step = "commit" => job[r].at # at
  PROVE  StampInv'
<1> SUFFICES ASSUME NEW r \in Workers, job'[r].step = "commit"
             PROVE  /\ job'[r].at \in 1..MaxTime /\ job'[r].at < now'
                    /\ \A i \in DOMAIN snaps' : snaps'[i].at # job'[r].at
                    /\ \A q \in Workers \ {r} : job'[q].step = "commit" => job'[q].at # job'[r].at
  BY DEF StampInv
<1>1. job[r].step = "commit" /\ job'[r].at = job[r].at /\ job[r].at # at
  BY DEF NoNewStamp
<1>2. job[r].at \in 1..MaxTime /\ job[r].at < now'
  BY <1>1 DEF StampInv, ClockTyped, TimeGoesOn
<1>3. \A i \in DOMAIN snaps' : snaps'[i].at # job[r].at
  BY <1>1 DEF StampInv
<1>4. \A q \in Workers \ {r} : job'[q].step = "commit" => job'[q].at # job[r].at
  BY <1>1 DEF StampInv, NoNewStamp
<1> QED
  BY <1>1, <1>2, <1>3, <1>4

(* Only the status of versions changes in the tables.                      *)
LEMMA StageKeeps ==
  ASSUME CatalogInv, TimeGoesOn, UNCHANGED <<active, deployed, installed, snaps, overtaken, collided>>,
         staged' \in [Tools -> [Versions -> {"none", "draft", "active", "revoked"}]]
  PROVE  CatalogInv'
<1>1. TablesTyped' /\ ClockTyped'
  BY DEF CatalogInv, TablesTyped, ClockTyped, TimeGoesOn
<1>2. \A t \in Tools : ToolAgrees(t)'
  BY DEF CatalogInv, ToolAgrees, InstallAgrees, RecordsOf
<1>3. \A i \in DOMAIN snaps : snaps[i].at < now'
  <2>1. \A i \in DOMAIN snaps : snaps[i].at < now /\ snaps[i].at \in 1..MaxTime
    BY SnapsTyped DEF CatalogInv, Numbered
  <2> QED
    BY <2>1 DEF CatalogInv, ClockTyped, TimeGoesOn
<1>4. Numbered'
  BY <1>3 DEF CatalogInv, Numbered, RevisionsAreFree
<1> QED
  BY <1>1, <1>2, <1>4 DEF CatalogInv

LEMMA TablesFrame ==
  ASSUME CatalogInv, TimeGoesOn, UNCHANGED <<tableVars, overtaken, collided>>
  PROVE  CatalogInv'
BY StageKeeps DEF tableVars, CatalogInv, TablesTyped

LEMMA WorkFrame ==
  ASSUME WorkInv, UNCHANGED <<queueVars, job>>
  PROVE  WorkInv'
BY DEF WorkInv, QueueInv, JobInv, RunInv, queueVars

LEMMA StageTyped ==
  ASSUME TablesTyped, NEW t \in Tools, NEW v \in Versions, Stage(t, v)
  PROVE  staged' \in [Tools -> [Versions -> {"none", "draft", "active", "revoked"}]]
BY DEF TablesTyped, Stage

(* The newest record of a tool, and what a rollback goes back to.          *)
LEMMA LatestTyped ==
  ASSUME TablesTyped, NEW t \in Tools, RecordsOf(t) # {}
  PROVE  LatestOf(t) \in RecordsOf(t) /\ deployed[LatestOf(t)].ver \in Versions
<1> PICK S : S = {deployed[i].at : i \in RecordsOf(t)}
  OBVIOUS
<1>n. MaxTime \in Nat
  BY SyncAssumption DEF SyncAssumption
<1>1. S \subseteq 1..MaxTime /\ S # {}
  BY RecordsTyped DEF RecordsOf
<1>2. PICK m \in S : \A k \in S : k <= m
  BY <1>n, <1>1, GreatestElement
<1>3. \E i \in RecordsOf(t) : \A j \in RecordsOf(t) : deployed[j].at <= deployed[i].at
  BY <1>2
<1>4. LatestOf(t) \in RecordsOf(t)
  BY <1>3 DEF LatestOf
<1> QED
  BY <1>4, RecordsTyped DEF RecordsOf

LEMMA MaxIn ==
  ASSUME NEW n \in Nat, NEW S, S \subseteq 1..n, S # {}
  PROVE  Max(S) \in S
<1>1. \E x \in S : \A y \in S : x >= y
  BY GreatestElement
<1> QED
  BY <1>1 DEF Max

LEMMA EarlierMoves ==
  ASSUME TablesTyped, NEW t \in Tools
  PROVE  /\ Earlier(t) \in Maybe
         /\ Earlier(t) # active[t] \/ active[t] = NoVersion
         /\ Earlier(t) = NoVersion => \A i \in RecordsOf(t) : deployed[i].ver = active[t]
<1> PICK shown : shown = {i \in DOMAIN snaps : /\ i > Len(snaps) - LookBack
                                              /\ snaps[i].tools[t] \notin {NoVersion, active[t]}}
  OBVIOUS
<1> PICK others : others = {i \in RecordsOf(t) : deployed[i].ver # active[t]}
  OBVIOUS
<1>0. Earlier(t) = IF shown # {} THEN snaps[Max(shown)].tools[t]
                   ELSE IF others # {} THEN deployed[Max(others)].ver ELSE NoVersion
  BY DEF Earlier
<1>1. CASE shown # {}
  <2>1. Max(shown) \in shown
    <3>1. shown \subseteq 1..Len(snaps) /\ Len(snaps) \in Nat
      BY SnapsTyped
    <3> QED
      BY <1>1, <3>1, MaxIn
  <2>2. Earlier(t) \notin {NoVersion, active[t]}
    BY <1>0, <1>1, <2>1
  <2>3. Earlier(t) \in Maybe
    BY <1>0, <1>1, <2>1, SnapsTyped
  <2> QED
    BY <2>2, <2>3
<1>2. CASE shown = {} /\ others # {}
  <2>1. Max(others) \in others
    <3>1. others \subseteq 1..Len(deployed) /\ Len(deployed) \in Nat
      BY RecordsTyped DEF RecordsOf
    <3> QED
      BY <1>2, <3>1, MaxIn
  <2>2. Earlier(t) = deployed[Max(others)].ver /\ Earlier(t) # active[t]
    BY <1>0, <1>2, <2>1
  <2>3. Earlier(t) \in Versions
    BY <2>1, <2>2, RecordsTyped DEF RecordsOf
  <2> QED
    BY <2>2, <2>3, NoJobTyped DEF Maybe
<1>3. CASE shown = {} /\ others = {}
  <2>1. Earlier(t) = NoVersion /\ \A i \in RecordsOf(t) : deployed[i].ver = active[t]
    BY <1>0, <1>3
  <2> QED
    BY <2>1 DEF Maybe
<1> QED
  BY <1>1, <1>2, <1>3

-----------------------------------------------------------------------------
(* One lemma for each step.                                                *)

LEMMA RestFrame == (SyncInv /\ ControlInv /\ UNCHANGED <<sync, allowed, override>>) => SyncInv' /\ ControlInv'
BY DEF SyncInv, ControlInv

LEMMA TimeStays == CatalogInv /\ now' = now => TimeGoesOn
BY DEF CatalogInv, ClockTyped, TimeGoesOn

LEMMA TimePasses == CatalogInv /\ now < MaxTime /\ now' = now + 1 => TimeGoesOn /\ ClockStep(now)
<1> SUFFICES ASSUME CatalogInv, now < MaxTime, now' = now + 1 PROVE TimeGoesOn /\ ClockStep(now)
  OBVIOUS
<1>n. MaxTime \in Nat
  BY SyncAssumption DEF SyncAssumption
<1>1. now \in 1..MaxTime /\ \A i \in DOMAIN snaps : snaps[i].at < now /\ snaps[i].at \in 1..MaxTime
  BY SnapsTyped DEF CatalogInv, ClockTyped, Numbered
<1> QED
  BY <1>n, <1>1 DEF TimeGoesOn, ClockStep

LEMMA DeliverKeeps ==
  ASSUME DepInv, NEW o \in Orders, Deliver(o)
  PROVE  DepInv'
<1>t. o.tool \in Tools /\ o.id \in Ids
  BY SyncAssumption DEF SyncAssumption, Ids
<1> PICK t \in Tools : t = o.tool
  BY <1>t
<1>0. /\ \A p \in sent : p.id = o.id => p = o
      /\ sent' = sent \cup {o} /\ queues' = [queues EXCEPT ![t] = Append(@, o)]
      /\ UNCHANGED <<answered, ran, job>> /\ QueueInv /\ JobInv
  BY DEF Deliver, DepInv, WorkInv
<1>1. \A u \in Tools : queues[u] \in Seq(sent')
  BY <1>0, SeqMonotonic DEF QueueInv
<1>2. queues'[t] = Append(queues[t], o) /\ \A u \in Tools \ {t} : queues'[u] = queues[u]
  BY <1>0 DEF QueueInv
<1>3. /\ Append(queues[t], o) \in Seq(sent')
      /\ DOMAIN Append(queues[t], o) = 1..(Len(queues[t]) + 1)
      /\ DOMAIN queues[t] = 1..Len(queues[t]) /\ Len(queues[t]) \in Nat
      /\ \A k \in 1..Len(queues[t]) : Append(queues[t], o)[k] = queues[t][k]
      /\ Append(queues[t], o)[Len(queues[t]) + 1] = o
      /\ queues[t] # <<>> => Head(Append(queues[t], o)) = Head(queues[t])
  <2>1. o \in sent' /\ queues[t] \in Seq(sent')
    BY <1>0, <1>1
  <2>2. /\ Append(queues[t], o) \in Seq(sent') /\ Len(Append(queues[t], o)) = Len(queues[t]) + 1
        /\ \A k \in 1..Len(queues[t]) : Append(queues[t], o)[k] = queues[t][k]
        /\ Append(queues[t], o)[Len(queues[t]) + 1] = o
    BY <2>1, AppendProperties
  <2>3. /\ DOMAIN Append(queues[t], o) = 1..(Len(queues[t]) + 1)
        /\ DOMAIN queues[t] = 1..Len(queues[t]) /\ Len(queues[t]) \in Nat
    BY <2>1, <2>2, LenProperties
  <2>4. queues[t] # <<>> => Head(Append(queues[t], o)) = Head(queues[t])
    <3>1. queues[t] # <<>> => 1 \in 1..Len(queues[t])
      BY <2>1, <2>3, EmptySeq
    <3>2. Head(Append(queues[t], o)) = Append(queues[t], o)[1] /\ Head(queues[t]) = queues[t][1]
      BY <2>1, <2>2
    <3> QED
      BY <2>2, <3>1, <3>2
  <2> QED
    BY <2>2, <2>3, <2>4
<1>4. QueueInv'
  <2>1. sent' \subseteq Orders /\ answered' \subseteq Ids
    BY <1>0 DEF QueueInv
  <2>2. queues' \in [Tools -> Seq(sent')]
    BY <1>0, <1>1, <1>2, <1>3 DEF QueueInv
  <2>3. \A p, q \in sent' : p.id = q.id => p = q
    BY <1>0 DEF QueueInv
  <2>4. \A u \in Tools : \A k \in DOMAIN queues'[u] : queues'[u][k].tool = u
    <3> SUFFICES ASSUME NEW u \in Tools, NEW k \in DOMAIN queues'[u] PROVE queues'[u][k].tool = u
      OBVIOUS
    <3>1. CASE u = t
      <4>1. CASE k = Len(queues[t]) + 1
        BY <1>2, <1>3, <3>1, <4>1
      <4>2. CASE k # Len(queues[t]) + 1
        <5>1. k \in DOMAIN queues[t] /\ queues'[u][k] = queues[t][k]
          BY <1>2, <1>3, <3>1, <4>2
        <5> QED
          BY <1>0, <3>1, <5>1 DEF QueueInv
      <4> QED
        BY <4>1, <4>2
    <3>2. CASE u # t
      BY <1>0, <1>2, <3>2 DEF QueueInv
    <3> QED
      BY <3>1, <3>2
  <2> QED
    BY <2>1, <2>2, <2>3, <2>4 DEF QueueInv
<1>5. \A u \in Tools : job[u] # NoJob => queues'[u] # <<>> /\ Head(queues'[u]) = Head(queues[u])
  <2> SUFFICES ASSUME NEW u \in Tools, job[u] # NoJob
               PROVE  queues'[u] # <<>> /\ Head(queues'[u]) = Head(queues[u])
    OBVIOUS
  <2>1. queues[u] # <<>>
    BY <1>0 DEF JobInv
  <2>2. CASE u = t
    <3>1. Append(queues[t], o) # <<>>
      <4>1. Append(queues[t], o) \in Seq(sent') /\ 1 \in DOMAIN Append(queues[t], o)
        BY <1>3
      <4> QED
        BY <4>1
    <3> QED
      BY <1>2, <1>3, <2>1, <2>2, <3>1
  <2>3. CASE u # t
    BY <1>2, <2>1, <2>3
  <2> QED
    BY <2>2, <2>3
<1>6. JobInv'
  BY <1>0, <1>5 DEF JobInv
<1>7. RunInv'
  BY <1>0, <1>5 DEF DepInv, WorkInv, RunInv
<1>8. CatalogInv' /\ StampInv' /\ SyncInv' /\ ControlInv'
  <2>1. TimeGoesOn /\ NoNewStamp
    BY <1>0, TimeStays DEF Deliver, DepInv, NoNewStamp
  <2>2. UNCHANGED <<tableVars, overtaken, collided, sync, allowed, override>>
    BY DEF Deliver, controlVars
  <2>3. CatalogInv'
    BY <2>1, <2>2, TablesFrame DEF DepInv
  <2>4. StampInv'
    BY <2>1, <2>2, StampFrame DEF DepInv, CatalogInv, tableVars
  <2> QED
    BY <2>2, <2>3, <2>4, RestFrame DEF DepInv
<1> QED
  BY <1>4, <1>6, <1>7, <1>8 DEF DepInv, WorkInv

LEMMA TablesRest ==
  ASSUME DepInv, now' = now, UNCHANGED <<tableVars, overtaken, collided>>, NoNewStamp
  PROVE  CatalogInv' /\ StampInv'
<1>1. TimeGoesOn
  BY TimeStays DEF DepInv
<1> QED
  BY <1>1, TablesFrame, StampFrame DEF DepInv, CatalogInv, tableVars

(* A worker's activation begins: its stamp is read later.                  *)
LEMMA EnterKeeps ==
  ASSUME WorkInv, NEW r \in Workers, NEW t \in Tools, NEW v \in Versions,
         NEW state \in {"canary", "promoted"}, Enter(r, t, v, state),
         UNCHANGED <<sent, queues, answered>>,
         ran' \in [Ids -> {0, 1}],
         r \in Tools => /\ t = r /\ queues[r] # <<>>
                        /\ Head(queues[r]).kind \in {"activate", "canary", "resume"},
         \A i \in Ids : ran'[i] = ran[i] \/ (r \in Tools /\ i = Head(queues[r]).id)
  PROVE  WorkInv' /\ NoNewStamp
<1> PICK x : x = [step |-> "enter", tool |-> t, ver |-> v, state |-> state, at |-> 0]
  OBVIOUS
<1>1. job' = [job EXCEPT ![r] = x] /\ x.tool = t /\ x.step = "enter"
  BY DEF Enter
<1>2. Active(x)
  <2>1. MaxTime \in Nat
    BY SyncAssumption DEF SyncAssumption
  <2> QED
    BY <2>1 DEF Active, Jobs, Maybe
<1>3. WorkInv'
  BY <1>1, <1>2, JobKeeps
<1>4. NoNewStamp
  BY <1>1 DEF NoNewStamp, WorkInv, JobInv
<1> QED
  BY <1>3, <1>4

LEMMA NoJobAnymore ==
  ASSUME WorkInv, NEW r \in Workers, job' = [job EXCEPT ![r] = NoJob] \/ job' = job
  PROVE  NoNewStamp
BY NoJobTyped DEF NoNewStamp, WorkInv, JobInv

LEMMA RunAgainKeeps ==
  ASSUME DepInv, NEW t \in Tools, RunAgain(t)
  PROVE  DepInv'
<1>1. /\ queues[t] # <<>> /\ job[t] = NoJob /\ Answer(t)
      /\ UNCHANGED <<tableVars, allowed, override, sent, job, sync, now, ran, overtaken, collided>>
  BY DEF RunAgain, controlVars
<1>2. job' = [job EXCEPT ![t] = NoJob] /\ t \in Workers
  BY <1>1 DEF DepInv, WorkInv, JobInv, Workers
<1>3. WorkInv'
  BY <1>1, <1>2, AnswerKeeps DEF DepInv, WorkInv, RunInv
<1>4. CatalogInv' /\ StampInv'
  BY <1>1, <1>2, NoJobAnymore, TablesRest DEF DepInv
<1> QED
  BY <1>1, <1>3, <1>4, RestFrame DEF DepInv

LEMMA RunActivateKeeps ==
  ASSUME DepInv, NEW t \in Tools, RunActivate(t)
  PROVE  DepInv'
<1> PICK o : o = Head(queues[t])
  OBVIOUS
<1>1. /\ RunStart(t) /\ queues[t] # <<>> /\ job[t] = NoJob /\ o.kind \in {"activate", "canary"}
      /\ UNCHANGED <<sent, allowed, override, sync, active, deployed, installed, snaps, now,
                     overtaken, collided>>
  BY DEF RunActivate, RunStart, controlVars
<1>2. /\ ran' \in [Ids -> {0, 1}]
      /\ \A i \in Ids : i # Head(queues[t]).id => ran'[i] = ran[i]
  BY <1>1, StartsOnce DEF DepInv
<1>3. o \in Orders
  BY <1>1, HeadSent DEF DepInv, WorkInv
<1>4. o.ver \in Versions
  BY <1>1, <1>3, SyncAssumption DEF SyncAssumption
<1>5. t \in Workers
  BY DEF Workers
<1>6. CASE Answer(t) /\ UNCHANGED <<job, staged>>
  <2>1. job' = [job EXCEPT ![t] = NoJob]
    BY <1>1, <1>5, <1>6 DEF DepInv, WorkInv, JobInv
  <2>2. WorkInv'
    BY <1>1, <1>2, <1>6, <2>1, AnswerKeeps DEF DepInv
  <2>3. CatalogInv' /\ StampInv'
    BY <1>1, <1>5, <1>6, <2>1, NoJobAnymore, TablesRest DEF DepInv, tableVars
  <2> QED
    BY <1>1, <2>2, <2>3, RestFrame DEF DepInv
<1>7. CASE /\ Stage(t, o.ver) /\ UNCHANGED <<queues, answered>>
           /\ Enter(t, t, o.ver, IF o.kind = "canary" THEN "canary" ELSE "promoted")
  <2>1. WorkInv' /\ NoNewStamp
    BY <1>1, <1>2, <1>4, <1>5, <1>7, EnterKeeps DEF DepInv
  <2>2. TimeGoesOn
    BY <1>1, TimeStays DEF DepInv
  <2>3. CatalogInv'
    BY <1>1, <1>4, <1>7, <2>2, StageTyped, StageKeeps DEF DepInv, CatalogInv
  <2>4. StampInv'
    BY <1>1, <2>1, <2>2, StampFrame DEF DepInv, CatalogInv
  <2> QED
    BY <1>1, <2>1, <2>3, <2>4, RestFrame DEF DepInv
<1> QED
  BY <1>6, <1>7 DEF RunActivate

LEMMA RunResumeKeeps ==
  ASSUME DepInv, NEW t \in Tools, RunResume(t)
  PROVE  DepInv'
<1> PICK o : o = Head(queues[t])
  OBVIOUS
<1> PICK v : v = IF o.ver # NoVersion \/ RecordsOf(t) = {} THEN o.ver ELSE deployed[LatestOf(t)].ver
  OBVIOUS
<1>1. /\ RunStart(t) /\ queues[t] # <<>> /\ job[t] = NoJob /\ o.kind = "resume"
      /\ UNCHANGED <<sent, allowed, override, sync, tableVars, now, overtaken, collided>>
  BY DEF RunResume, RunStart, controlVars
<1>2. /\ ran' \in [Ids -> {0, 1}]
      /\ \A i \in Ids : i # Head(queues[t]).id => ran'[i] = ran[i]
  BY <1>1, StartsOnce DEF DepInv
<1>3. o \in Orders
  BY <1>1, HeadSent DEF DepInv, WorkInv
<1>4. v # NoVersion => v \in Versions
  <2>1. o.ver \in Versions \cup {NoVersion}
    BY <1>3, SyncAssumption DEF SyncAssumption
  <2>2. RecordsOf(t) # {} => deployed[LatestOf(t)].ver \in Versions
    BY LatestTyped DEF DepInv, CatalogInv
  <2> QED
    BY <2>1, <2>2
<1>5. t \in Workers
  BY DEF Workers
<1>6. IF v = NoVersion THEN Answer(t) /\ UNCHANGED job
      ELSE Enter(t, t, v, "promoted") /\ UNCHANGED <<queues, answered>>
  BY DEF RunResume
<1>7. WorkInv' /\ NoNewStamp
  <2>1. CASE v = NoVersion
    <3>1. job' = [job EXCEPT ![t] = NoJob]
      BY <1>1, <1>5, <1>6, <2>1 DEF DepInv, WorkInv, JobInv
    <3> QED
      BY <1>1, <1>2, <1>5, <1>6, <2>1, <3>1, AnswerKeeps, NoJobAnymore DEF DepInv
  <2>2. CASE v # NoVersion
    BY <1>1, <1>2, <1>4, <1>5, <1>6, <2>2, EnterKeeps DEF DepInv
  <2> QED
    BY <2>1, <2>2
<1>8. CatalogInv' /\ StampInv'
  BY <1>1, <1>7, TablesRest DEF DepInv
<1> QED
  BY <1>1, <1>7, <1>8, RestFrame DEF DepInv

(* The transaction of a rollback, a suspension or a retirement.            *)
LEMMA RunWithdrawKeeps ==
  ASSUME DepInv, NEW t \in Tools, RunWithdraw(t)
  PROVE  DepInv'
<1> PICK o : o = Head(queues[t])
  OBVIOUS
<1>1. /\ RunStart(t) /\ queues[t] # <<>> /\ job[t] = NoJob /\ Answer(t) /\ job' = job
      /\ now < MaxTime /\ now' = now + 1
      /\ UNCHANGED <<sent, allowed, override, sync>>
  BY DEF RunWithdraw, RunStart, controlVars
<1>2. /\ ran' \in [Ids -> {0, 1}]
      /\ \A i \in Ids : i # Head(queues[t]).id => ran'[i] = ran[i]
  BY <1>1, StartsOnce DEF DepInv
<1>3. o.ver \in Maybe
  <2>1. o \in Orders
    BY <1>1, HeadSent DEF DepInv, WorkInv
  <2> QED
    BY <2>1, SyncAssumption DEF SyncAssumption, Maybe
<1>4. job' = [job EXCEPT ![t] = NoJob] /\ t \in Workers /\ NoNewStamp
  <2>1. job' = [job EXCEPT ![t] = NoJob] /\ t \in Workers
    BY <1>1 DEF DepInv, WorkInv, JobInv, Workers
  <2> QED
    BY <2>1, NoJobAnymore DEF DepInv
<1>5. WorkInv'
  BY <1>1, <1>2, <1>4, AnswerKeeps DEF DepInv
<1>6. CatalogInv /\ TablesTyped /\ TimeGoesOn /\ ClockStep(now)
  BY <1>1, TimePasses DEF DepInv, CatalogInv
<1>7. CatalogInv' /\ \A i \in DOMAIN snaps' :
        snaps'[i].at = now \/ \E j \in DOMAIN snaps : snaps'[i] = snaps[j]
  <2>1. CASE o.kind = "rollback" /\ Rollback(t, IF o.ver # NoVersion THEN o.ver ELSE Earlier(t))
    <3>1. (IF o.ver # NoVersion THEN o.ver ELSE Earlier(t)) \in Maybe
      BY <1>3, <1>6, EarlierMoves
    <3>2. PICK v \in Maybe : v = IF o.ver # NoVersion THEN o.ver ELSE Earlier(t)
      BY <3>1
    <3>3. Rollback(t, v)
      BY <2>1, <3>2
    <3> QED
      BY <1>6, <3>3, RollbackKeeps
  <2>2. CASE \E v \in {s.tools[t] : s \in ToSet(snaps)} \cup {NoVersion} : Rollback(t, v)
    <3>1. PICK v \in {s.tools[t] : s \in ToSet(snaps)} \cup {NoVersion} : Rollback(t, v)
      BY <2>2
    <3>2. v \in Maybe
      BY <1>6, SnapsTyped DEF ToSet, Maybe
    <3> QED
      BY <1>6, <3>1, <3>2, RollbackKeeps
  <2>3. CASE Suspend(t)
    BY <1>6, <2>3, SuspendKeeps
  <2>4. CASE Retire(t)
    BY <1>6, <2>4, RetireKeeps
  <2> QED
    BY <2>1, <2>2, <2>3, <2>4 DEF RunWithdraw
<1>8. StampInv'
  <2>1. \A r \in Workers : job'[r].step = "commit" => job[r].at # now
    <3>1. now \in Nat /\ \A r \in Workers : job[r].step = "commit" => job[r].at \in 1..MaxTime /\ job[r].at < now
      BY <1>6 DEF DepInv, StampInv, CatalogInv, ClockTyped
    <3> QED
      BY <1>1, <3>1
  <2>2. PICK at : at = now
    OBVIOUS
  <2>3. /\ \A i \in DOMAIN snaps' : snaps'[i].at = at \/ \E j \in DOMAIN snaps : snaps'[i] = snaps[j]
        /\ \A r \in Workers : job'[r].step = "commit" => job[r].at # at
    BY <1>7, <2>1, <2>2
  <2> QED
    BY <1>4, <1>6, <2>3, StampPublish DEF DepInv, CatalogInv
<1> QED
  BY <1>1, <1>5, <1>7, <1>8, RestFrame DEF DepInv

(* An activation ends, and with it its command if it was one's.            *)
LEMMA JobEnds ==
  ASSUME WorkInv, NEW r \in Workers, job[r] # NoJob, job' = [job EXCEPT ![r] = NoJob],
         IF r = Sync THEN UNCHANGED <<queues, answered>> ELSE Answer(r),
         UNCHANGED <<sent, ran>>
  PROVE  WorkInv'
<1>1. CASE r = Sync
  BY <1>1, SyncJobEnds DEF queueVars
<1>2. CASE r # Sync
  <2>1. r \in Tools /\ queues[r] # <<>> /\ Answer(r)
    BY <1>2 DEF Workers, WorkInv, JobInv
  <2>2. ran' \in [Ids -> {0, 1}] /\ \A i \in Ids : ran'[i] = ran[i]
    BY DEF WorkInv, RunInv
  <2> QED
    BY <2>1, <2>2, AnswerKeeps
<1> QED
  BY <1>1, <1>2

LEMMA JobEnterKeeps ==
  ASSUME DepInv, NEW r \in Workers, JobEnter(r)
  PROVE  DepInv'
<1>1. /\ job[r].step = "enter" /\ now < MaxTime /\ now' = now + 1
      /\ UNCHANGED <<tableVars, allowed, override, sent, sync, ran, overtaken, collided>>
  BY DEF JobEnter, controlVars
<1>2. TimeGoesOn /\ ClockStep(now)
  BY <1>1, TimePasses DEF DepInv
<1>3. CatalogInv'
  BY <1>1, <1>2, TablesFrame DEF DepInv
<1>4. job[r] # NoJob /\ job \in [Workers -> Jobs] /\ Active(job[r])
  BY <1>1, NoJobTyped DEF DepInv, WorkInv, JobInv
<1>5. WorkInv' /\ StampInv'
  <2>1. CASE /\ job' = [job EXCEPT ![r].step = "commit", ![r].at = now]
             /\ UNCHANGED <<queues, answered>>
    <3> PICK x : x = [job[r] EXCEPT !.step = "commit", !.at = now]
      OBVIOUS
    <3>1. Active(x) /\ x.tool = job[r].tool /\ x.step = "commit" /\ x.at = now
      <4> PICK y, n : y = job[r] /\ n = now
        OBVIOUS
      <4>1. y \in Jobs /\ Active(y) /\ n \in 0..MaxTime
        BY <1>2, <1>4 DEF ClockStep
      <4>2. x = [y EXCEPT !.step = "commit", !.at = n]
        OBVIOUS
      <4>3. x \in Jobs /\ x.tool = y.tool /\ x.ver = y.ver /\ x.state = y.state /\ x.step = "commit" /\ x.at = n
        BY <4>1, <4>2 DEF Jobs
      <4> QED
        BY <4>1, <4>3 DEF Active
    <3>2. job' = [job EXCEPT ![r] = x]
      BY <2>1
    <3>3. WorkInv'
      <4>1. \A i \in Ids : ran'[i] = ran[i]
        BY <1>1
      <4>2. ran' \in [Ids -> {0, 1}]
        BY <1>1 DEF DepInv, WorkInv, RunInv
      <4>3. r \in Tools => /\ x.tool = r /\ queues[r] # <<>>
                           /\ Head(queues[r]).kind \in {"activate", "canary", "resume"}
        BY <1>4, <3>1 DEF DepInv, WorkInv, JobInv
      <4> QED
        BY <1>1, <2>1, <3>1, <3>2, <4>1, <4>2, <4>3, JobKeeps DEF DepInv
    <3>4. /\ job'[r] = x /\ \A q \in Workers \ {r} : job'[q] = job[q]
      BY <1>4, <3>2
    <3>5. snaps' = snaps
      BY <1>1 DEF tableVars
    <3>6. \A q \in Workers \ {r} : job[q].step = "commit" =>
            job[q].at \in 1..MaxTime /\ job[q].at < now /\ \A i \in DOMAIN snaps : snaps[i].at # job[q].at
      BY DEF DepInv, StampInv
    <3>7. now \in 1..MaxTime /\ now < now' /\ \A i \in DOMAIN snaps : snaps[i].at # now
      BY <1>2 DEF ClockStep
    <3>8. StampInv'
      <4> SUFFICES ASSUME NEW p \in Workers, job'[p].step = "commit"
                   PROVE  /\ job'[p].at \in 1..MaxTime /\ job'[p].at < now'
                          /\ \A i \in DOMAIN snaps' : snaps'[i].at # job'[p].at
                          /\ \A q \in Workers \ {p} : job'[q].step = "commit" => job'[q].at # job'[p].at
        BY DEF StampInv
      <4>1. CASE p = r
        <5>1. job'[p].at = now
          BY <3>1, <3>4, <4>1
        <5>2. ASSUME NEW q \in Workers \ {p}, job'[q].step = "commit" PROVE job'[q].at # now
          BY <3>4, <3>6, <3>7, <4>1, <5>2
        <5> QED
          BY <3>5, <3>7, <5>1, <5>2
      <4>2. CASE p # r
        <5>1. job'[p] = job[p] /\ job[p].at \in 1..MaxTime /\ job[p].at < now
          BY <3>4, <3>6, <4>2
        <5>2. ASSUME NEW q \in Workers \ {p}, job'[q].step = "commit" PROVE job'[q].at # job[p].at
          <6>1. CASE q = r
            <7>1. job'[q].at = now
              BY <3>1, <3>4, <6>1
            <7> QED
              BY <3>7, <5>1, <7>1
          <6>2. CASE q # r
            BY <3>4, <4>2, <5>2, <6>2 DEF DepInv, StampInv
          <6> QED
            BY <6>1, <6>2
        <5>3. job'[p].at < now'
          BY <1>1, <3>7, <5>1
        <5> QED
          BY <3>4, <3>5, <3>6, <4>2, <5>1, <5>2, <5>3
      <4> QED
        BY <4>1, <4>2
    <3> QED
      BY <3>3, <3>8
  <2>2. CASE /\ job' = [job EXCEPT ![r] = NoJob]
             /\ IF r = Sync THEN UNCHANGED <<queues, answered>> ELSE Answer(r)
    <3>1. WorkInv'
      BY <1>1, <1>4, <2>2, JobEnds DEF DepInv
    <3>2. NoNewStamp
      BY <2>2, NoJobAnymore DEF DepInv
    <3> QED
      BY <1>1, <1>2, <3>1, <3>2, StampFrame DEF DepInv, CatalogInv, tableVars
  <2> QED
    BY <2>1, <2>2 DEF JobEnter
<1> QED
  BY <1>1, <1>3, <1>5, RestFrame DEF DepInv

LEMMA JobCommitKeeps ==
  ASSUME DepInv, NEW r \in Workers, JobCommit(r)
  PROVE  DepInv'
<1> PICK x : x = job[r]
  OBVIOUS
<1>1. /\ x.step = "commit" /\ Activate(x.tool, x.ver, x.state, x.at)
      /\ job' = [job EXCEPT ![r] = NoJob]
      /\ IF r = Sync THEN UNCHANGED <<queues, answered>> ELSE Answer(r)
      /\ UNCHANGED <<allowed, override, sent, now, ran>>
  BY DEF JobCommit, controlVars
<1>2. /\ job[r] # NoJob /\ job \in [Workers -> Jobs] /\ x.tool \in Tools /\ x.ver \in Versions
      /\ x.state \in {"canary", "promoted"}
  <2>1. job \in [Workers -> Jobs] /\ job[r] # NoJob /\ Active(x)
    BY <1>1, NoJobTyped DEF DepInv, WorkInv, JobInv
  <2> QED
    BY <2>1 DEF Active, Jobs
<1>3. x.at \in 1..MaxTime /\ x.at < now /\ \A i \in DOMAIN snaps : snaps[i].at # x.at
  BY <1>1 DEF DepInv, StampInv
<1>4. TimeGoesOn /\ ClockStep(x.at)
  <2>1. TimeGoesOn
    BY <1>1, TimeStays DEF DepInv
  <2> QED
    BY <1>1, <1>3, <2>1 DEF TimeGoesOn, ClockStep
<1>5. CatalogInv' /\ Stamped(x.at)
  BY <1>1, <1>2, <1>4, ActivateKeeps DEF DepInv
<1>6. WorkInv'
  BY <1>1, <1>2, JobEnds DEF DepInv
<1>7. StampInv'
  <2>1. NoNewStamp
    BY <1>1, NoJobAnymore DEF DepInv
  <2>2. \A q \in Workers : job'[q].step = "commit" => job[q].at # x.at
    <3> SUFFICES ASSUME NEW q \in Workers, job'[q].step = "commit" PROVE job[q].at # x.at
      OBVIOUS
    <3>1. q # r
      BY <1>1, <1>2, NoJobTyped
    <3>2. job[q].step = "commit"
      BY <2>1 DEF NoNewStamp
    <3> QED
      BY <1>1, <3>1, <3>2 DEF DepInv, StampInv
  <2> QED
    BY <1>4, <1>5, <2>1, <2>2, StampPublish DEF DepInv, CatalogInv, Stamped
<1>8. SyncInv' /\ ControlInv'
  <2>1. sync' = IF r = Sync /\ sync.step # "idle" /\ ~Taken
                THEN [sync EXCEPT !.active[x.tool] = x.ver] ELSE sync
    BY DEF JobCommit
  <2>2. CASE sync' = sync
    BY <1>1, <2>2, RestFrame DEF DepInv
  <2>3. CASE sync.step # "idle" /\ sync' = [sync EXCEPT !.active[x.tool] = x.ver]
    <3>1. sync.active \in [Tools -> Maybe]
      BY <2>3 DEF DepInv, SyncInv
    <3>2. [sync.active EXCEPT ![x.tool] = x.ver] \in [Tools -> Maybe]
      BY <1>2, <3>1 DEF Maybe
    <3>3. SyncInv'
      BY <2>3, <3>2 DEF DepInv, SyncInv, Copies
    <3> QED
      BY <1>1, <3>3 DEF DepInv, ControlInv
  <2> QED
    BY <2>1, <2>2, <2>3
<1> QED
  BY <1>5, <1>6, <1>7, <1>8 DEF DepInv

-----------------------------------------------------------------------------
LEMMA SyncBeginKeeps ==
  ASSUME DepInv, SyncBegin
  PROVE  DepInv'
<1>1. /\ UNCHANGED <<tableVars, allowed, override, queueVars, job, now, overtaken, collided>>
      /\ sync' = [step |-> "override", todo |-> Tools, active |-> active, override |-> override]
  BY DEF SyncBegin, controlVars
<1>2. CatalogInv' /\ StampInv'
  BY <1>1, TablesRest DEF NoNewStamp
<1>3. WorkInv'
  BY <1>1, WorkFrame DEF DepInv
<1>4. SyncInv' /\ ControlInv'
  BY <1>1 DEF DepInv, SyncInv, ControlInv, CatalogInv, TablesTyped, Copies
<1> QED
  BY <1>2, <1>3, <1>4 DEF DepInv

LEMMA SyncDoneTyped ==
  ASSUME SyncInv, sync.step # "idle", NEW t \in Tools, NEW map \in [Tools -> Maybe], SyncDone(t, map)
  PROVE  SyncInv'
<1>1. sync.active \in [Tools -> Maybe] /\ sync.override \in [Tools -> Permits]
  BY DEF SyncInv
<1>2. CASE sync.todo # {t}
  BY <1>1, <1>2 DEF SyncInv, SyncDone, Copies
<1>3. CASE sync.todo = {t} /\ sync.step = "override"
  BY <1>1, <1>3 DEF SyncInv, SyncDone, Copies
<1>4. CASE sync.todo = {t} /\ sync.step = "envelope"
  BY <1>1, <1>4 DEF SyncInv, SyncDone, Copies
<1>5. CASE sync.todo = {t} /\ sync.step \notin {"override", "envelope"}
  <2>1. sync' = NoSync
    BY <1>5 DEF SyncDone
  <2> QED
    BY <2>1 DEF SyncInv, NoSync, Copies
<1> QED
  BY <1>2, <1>3, <1>4, <1>5

(* A turn of the reconciler that suspends a tool, or leaves it.            *)
LEMMA SyncSuspendKeeps ==
  ASSUME DepInv, NEW t \in Tools, sync.step # "idle", SyncSuspend(t), UNCHANGED <<controlVars, queueVars>>
  PROVE  DepInv'
<1> PICK map : map = [sync.active EXCEPT ![t] = IF Taken THEN @ ELSE NoVersion]
  OBVIOUS
<1>1. /\ now < MaxTime /\ now' = now + 1 /\ Suspend(t) /\ SyncDone(t, map) /\ job' = job
  BY DEF SyncSuspend
<1>2. TimeGoesOn /\ ClockStep(now)
  BY <1>1, TimePasses DEF DepInv
<1>3. CatalogInv' /\ \A i \in DOMAIN snaps' :
        snaps'[i].at = now \/ \E j \in DOMAIN snaps : snaps'[i] = snaps[j]
  BY <1>1, <1>2, SuspendKeeps DEF DepInv
<1>4. StampInv'
  <2> PICK at : at = now
    OBVIOUS
  <2>1. NoNewStamp
    BY <1>1 DEF NoNewStamp
  <2>2. \A r \in Workers : job'[r].step = "commit" => job[r].at # at
    BY <1>1, <1>2 DEF DepInv, StampInv, ClockStep
  <2>3. \A i \in DOMAIN snaps' : snaps'[i].at = at \/ \E j \in DOMAIN snaps : snaps'[i] = snaps[j]
    BY <1>3
  <2> QED
    BY <1>2, <2>1, <2>2, <2>3, StampPublish DEF DepInv, CatalogInv
<1>5. SyncInv'
  <2>1. sync.active \in [Tools -> Maybe]
    BY DEF DepInv, SyncInv
  <2>2. map \in [Tools -> Maybe]
    BY <2>1 DEF Maybe
  <2> QED
    BY <1>1, <2>2, SyncDoneTyped DEF DepInv
<1>6. WorkInv' /\ ControlInv'
  BY <1>1, WorkFrame DEF DepInv, controlVars, ControlInv
<1> QED
  BY <1>3, <1>4, <1>5, <1>6 DEF DepInv

LEMMA SyncSkipKeeps ==
  ASSUME DepInv, NEW t \in Tools, sync.step # "idle", SyncSkip(t), UNCHANGED <<controlVars, queueVars>>
  PROVE  DepInv'
<1>1. /\ SyncDone(t, sync.active)
      /\ UNCHANGED <<tableVars, job, now, overtaken, collided>>
  BY DEF SyncSkip
<1>2. CatalogInv' /\ StampInv'
  BY <1>1, TablesRest DEF NoNewStamp
<1>3. SyncInv'
  BY <1>1, SyncDoneTyped DEF DepInv, SyncInv
<1>4. WorkInv' /\ ControlInv'
  BY <1>1, WorkFrame DEF DepInv, controlVars, ControlInv
<1> QED
  BY <1>2, <1>3, <1>4 DEF DepInv

(* A turn of the reconciler that starts an activation.                     *)
LEMMA SyncEnterKeeps ==
  ASSUME DepInv, NEW t \in Tools, NEW v \in Versions, sync.step # "idle",
         Enter(Sync, t, v, "promoted"), SyncDone(t, sync.active),
         staged' = staged \/ Stage(t, v),
         UNCHANGED <<controlVars, queueVars, active, deployed, installed, snaps, now, overtaken, collided>>
  PROVE  DepInv'
<1>1. WorkInv' /\ NoNewStamp
  <2>1. Sync \in Workers /\ Sync \notin Tools
    BY NoJobTyped DEF Workers
  <2>2. ran' \in [Ids -> {0, 1}] /\ \A i \in Ids : ran'[i] = ran[i]
    BY DEF DepInv, WorkInv, RunInv, queueVars
  <2> QED
    BY <2>1, <2>2, EnterKeeps DEF DepInv, queueVars
<1>2. TimeGoesOn
  BY TimeStays DEF DepInv
<1>3. CatalogInv'
  <2>1. staged' \in [Tools -> [Versions -> {"none", "draft", "active", "revoked"}]]
    BY StageTyped DEF DepInv, CatalogInv, TablesTyped
  <2> QED
    BY <1>2, <2>1, StageKeeps DEF DepInv
<1>4. StampInv'
  BY <1>1, <1>2, StampFrame DEF DepInv, CatalogInv
<1>5. SyncInv' /\ ControlInv'
  BY SyncDoneTyped DEF DepInv, SyncInv, ControlInv, controlVars
<1> QED
  BY <1>1, <1>3, <1>4, <1>5 DEF DepInv

LEMMA SyncTurnKeeps ==
  ASSUME DepInv, NEW t \in Tools, SyncOverride(t) \/ SyncEnvelope(t) \/ SyncWant(t)
  PROVE  DepInv'
<1>1. sync.step # "idle" /\ UNCHANGED <<controlVars, queueVars>>
  BY DEF SyncOverride, SyncEnvelope, SyncWant, SyncTurn
<1>2. /\ sync.active \in [Tools -> Maybe] /\ sync.override \in [Tools -> Permits]
      /\ sync.override[t] \subseteq Versions
  BY <1>1 DEF DepInv, SyncInv, Permits
<1>3. CASE SyncSuspend(t)
  BY <1>1, <1>3, SyncSuspendKeeps
<1>4. CASE SyncSkip(t)
  BY <1>1, <1>4, SyncSkipKeeps
<1>5. CASE \E v \in Versions :
             /\ Enter(Sync, t, v, "promoted") /\ SyncDone(t, sync.active)
             /\ staged' = staged \/ Stage(t, v)
             /\ UNCHANGED <<active, deployed, installed, snaps, now, overtaken, collided>>
  BY <1>1, <1>5, SyncEnterKeeps
<1>6. CASE SyncOverride(t)
  <2> PICK v, o : v = sync.active[t] /\ o = sync.override[t]
    OBVIOUS
  <2> PICK p : p = CHOOSE w \in o : TRUE
    OBVIOUS
  <2>1. \/ SyncSuspend(t) \/ SyncSkip(t)
        \/ /\ v \notin o /\ o # {}
           /\ Enter(Sync, t, p, "promoted") /\ SyncDone(t, sync.active)
           /\ UNCHANGED <<tableVars, now, overtaken, collided>>
    BY <1>6 DEF SyncOverride
  <2>2. o # {} => p \in Versions
    BY <1>2
  <2> QED
    BY <1>3, <1>4, <1>5, <2>1, <2>2 DEF tableVars
<1>7. CASE SyncEnvelope(t)
  BY <1>3, <1>4, <1>7 DEF SyncEnvelope
<1>8. CASE SyncWant(t)
  BY <1>2, <1>4, <1>5, <1>8 DEF SyncWant
<1> QED
  BY <1>6, <1>7, <1>8

LEMMA SetControlKeeps ==
  ASSUME DepInv, NEW t \in Tools, SetControl(t)
  PROVE  DepInv'
<1>1. UNCHANGED <<tableVars, queueVars, job, sync, now, overtaken, collided>>
  BY DEF SetControl
<1>2. CatalogInv' /\ StampInv'
  BY <1>1, TablesRest DEF NoNewStamp
<1>3. ControlInv'
  BY DEF SetControl, DepInv, ControlInv
<1>4. WorkInv' /\ SyncInv'
  BY <1>1, WorkFrame DEF DepInv, SyncInv
<1> QED
  BY <1>2, <1>3, <1>4 DEF DepInv

LEMMA SyncRestartKeeps ==
  ASSUME DepInv, SyncRestart
  PROVE  DepInv'
<1>1. /\ UNCHANGED <<tableVars, allowed, override, sent, now, overtaken, collided>>
      /\ queues' = [t \in Tools |-> <<>>] /\ answered' = {}
      /\ job' = [r \in Workers |-> NoJob] /\ sync' = NoSync /\ ran' = [i \in Ids |-> 0]
  BY DEF SyncRestart, controlVars, Workers
<1>2. NoNewStamp
  BY <1>1, NoJobTyped DEF NoNewStamp
<1>3. CatalogInv' /\ StampInv'
  BY <1>1, <1>2, TablesRest
<1>4. QueueInv'
  <2>1. <<>> \in Seq(sent) /\ DOMAIN <<>> = {}
    BY EmptySeq
  <2> QED
    BY <1>1, <2>1 DEF DepInv, WorkInv, QueueInv
<1>5. JobInv' /\ RunInv'
  BY <1>1, NoJobTyped DEF JobInv, RunInv, Workers
<1>6. SyncInv' /\ ControlInv'
  BY <1>1 DEF DepInv, SyncInv, ControlInv, NoSync, Copies
<1> QED
  BY <1>3, <1>4, <1>5, <1>6 DEF DepInv, WorkInv

LEMMA DepStutter ==
  ASSUME DepInv, UNCHANGED syncVars
  PROVE  DepInv'
<1>1. UNCHANGED <<tableVars, queueVars, job, sync, allowed, override, now, overtaken, collided>>
  BY DEF syncVars, tableVars, queueVars
<1>2. CatalogInv' /\ StampInv'
  BY <1>1, TablesRest DEF NoNewStamp
<1> QED
  BY <1>1, <1>2, WorkFrame, RestFrame DEF DepInv

LEMMA InitDep == DepInit => DepInv
<1> SUFFICES ASSUME DepInit PROVE DepInv
  OBVIOUS
<1>m. MaxTime \in Nat \ {0} /\ NoVersion \in Maybe
  BY SyncAssumption DEF SyncAssumption, Maybe
<1>e. <<>> \in Seq(RecordType) /\ <<>> \in Seq(SnapshotType) /\ <<>> \in Seq({}) /\ DOMAIN <<>> = {}
  BY EmptySeq
<1>1. CatalogInv
  <2>1. TablesTyped /\ ClockTyped
    <3>1. active \in [Tools -> Maybe] /\ deployed \in Seq(RecordType) /\ snaps \in Seq(SnapshotType)
      BY <1>m, <1>e DEF DepInit
    <3>2. installed \in [Tools -> InstallationType]
      BY <1>m DEF DepInit, InstallationType
    <3>3. staged \in [Tools -> [Versions -> {"none", "draft", "active", "revoked"}]]
      BY DEF DepInit
    <3>4. ClockTyped
      <4>1. now = 1 /\ overtaken = FALSE
        BY DEF DepInit
      <4>2. now \in 1..MaxTime
        BY <1>m, <4>1
      <4> QED
        BY <4>1, <4>2 DEF ClockTyped
    <3> QED
      BY <3>1, <3>2, <3>3, <3>4 DEF TablesTyped
  <2>2. \A t \in Tools : ToolAgrees(t)
    BY DEF DepInit, ToolAgrees, InstallAgrees
  <2>3. Numbered
    BY <1>e DEF DepInit, Numbered, RevisionsAreFree
  <2> QED
    BY <2>1, <2>2, <2>3 DEF CatalogInv
<1>2. WorkInv
  <2>1. QueueInv
    BY <1>e DEF DepInit, QueueInv
  <2>2. JobInv /\ RunInv
    BY NoJobTyped DEF DepInit, JobInv, RunInv, Workers
  <2> QED
    BY <2>1, <2>2 DEF WorkInv
<1>3. StampInv
  BY NoJobTyped DEF DepInit, StampInv, Workers
<1>4. SyncInv /\ ControlInv
  BY DEF DepInit, SyncInv, ControlInv, NoSync, Copies, Permits
<1> QED
  BY <1>1, <1>2, <1>3, <1>4 DEF DepInv

LEMMA StepDep == DepInv /\ [DepNext]_syncVars => DepInv'
<1> SUFFICES ASSUME DepInv, [DepNext]_syncVars PROVE DepInv'
  OBVIOUS
<1>0. Tools \subseteq Workers /\ Sync \in Workers
  BY DEF Workers
<1>1. ASSUME NEW o \in Orders, Deliver(o) PROVE DepInv'
  BY <1>1, DeliverKeeps
<1>2. ASSUME NEW t \in Tools, ToolStep(t) PROVE DepInv'
  <2>1. CASE RunAgain(t)
    BY <2>1, RunAgainKeeps
  <2>2. CASE RunActivate(t)
    BY <2>2, RunActivateKeeps
  <2>3. CASE RunResume(t)
    BY <2>3, RunResumeKeeps
  <2>4. CASE RunWithdraw(t)
    BY <2>4, RunWithdrawKeeps
  <2>5. CASE JobEnter(t)
    BY <1>0, <2>5, JobEnterKeeps
  <2>6. CASE JobCommit(t)
    BY <1>0, <2>6, JobCommitKeeps
  <2> QED
    BY <1>2, <2>1, <2>2, <2>3, <2>4, <2>5, <2>6 DEF ToolStep
<1>3. ASSUME NEW t \in Tools, SetControl(t) PROVE DepInv'
  BY <1>3, SetControlKeeps
<1>4. CASE SyncBegin
  BY <1>4, SyncBeginKeeps
<1>5. CASE Reconciling
  <2>1. CASE \E t \in Tools : SyncOverride(t) \/ SyncEnvelope(t) \/ SyncWant(t)
    BY <2>1, SyncTurnKeeps
  <2>2. CASE JobEnter(Sync)
    BY <1>0, <2>2, JobEnterKeeps
  <2>3. CASE JobCommit(Sync)
    BY <1>0, <2>3, JobCommitKeeps
  <2> QED
    BY <1>5, <2>1, <2>2, <2>3 DEF Reconciling
<1>6. CASE SyncRestart
  BY <1>6, SyncRestartKeeps
<1>7. CASE UNCHANGED syncVars
  BY <1>7, DepStutter
<1> QED
  BY <1>1, <1>2, <1>3, <1>4, <1>5, <1>6, <1>7 DEF DepNext

(* The inductive invariant of a device's deployment.                       *)
THEOREM DeploymentIsSound == DepSpec => []DepInv
BY InitDep, StepDep, PTL DEF DepSpec

(* Every variable of the observer's coordinator and reconciler has its     *)
(* type.                                                                   *)
THEOREM DeploymentTyped == DepSpec => []DepTypeOK
<1>1. DepInv => DepTypeOK
  <2> SUFFICES ASSUME DepInv PROVE DepTypeOK
    OBVIOUS
  <2>1. ToSet(deployed) \subseteq RecordType /\ ToSet(snaps) \subseteq SnapshotType
    BY SnapsTyped, RecordsTyped DEF DepInv, CatalogInv, ToSet
  <2>2. \A t \in Tools : ToSet(queues[t]) \subseteq sent
    <3> SUFFICES ASSUME NEW t \in Tools PROVE ToSet(queues[t]) \subseteq sent
      OBVIOUS
    <3>1. queues[t] \in Seq(sent)
      BY DEF DepInv, WorkInv, QueueInv
    <3> QED
      BY <3>1, LenProperties DEF ToSet
  <2>3. /\ active \in [Tools -> Maybe] /\ installed \in [Tools -> InstallationType]
        /\ staged \in [Tools -> [Versions -> {"none", "draft", "active", "revoked"}]]
        /\ now \in 1..MaxTime
    BY DEF DepInv, CatalogInv, TablesTyped, ClockTyped
  <2>4. sent \subseteq Orders /\ answered \subseteq Ids /\ job \in [Tools \cup {Sync} -> Jobs]
    BY DEF DepInv, WorkInv, QueueInv, JobInv, Workers
  <2>5. /\ allowed \in [Tools -> Permits] /\ override \in [Tools -> Permits]
        /\ sync.step \in {"idle", "override", "envelope", "want"} /\ sync.todo \subseteq Tools
    BY DEF DepInv, ControlInv, SyncInv
  <2> QED
    BY <2>1, <2>2, <2>3, <2>4, <2>5 DEF DepTypeOK, RecordType, SnapshotType, InstallationType
<1> QED
  BY <1>1, DeploymentIsSound, PTL

(* The map in memory, the installation rows and the newest snapshot tell   *)
(* one story, and a revision is taken only after an operation was          *)
(* overtaken between its stamp and its transaction.                        *)
THEOREM CatalogIsOne == DepSpec => []OneCatalog
<1>1. DepInv => OneCatalog
  BY DEF DepInv, CatalogInv, ToolAgrees, InstallAgrees, Numbered, OneCatalog, TablesAgree
<1> QED
  BY <1>1, DeploymentIsSound, PTL

(* Between two restarts a command runs at most once, however often it was  *)
(* delivered.                                                              *)
THEOREM CommandsRunOnce == DepSpec => []RunsOnce
<1>1. DepInv => RunsOnce
  BY DEF DepInv, WorkInv, RunInv, RunsOnce
<1> QED
  BY <1>1, DeploymentIsSound, PTL

LEMMA NoOwnTail ==
  ASSUME NEW S, NEW q \in Seq(S), q # <<>>
  PROVE  Tail(q) # q
BY HeadTailProperties, LenProperties

(* A rollback without a target leaves the version that serves, and removes *)
(* the tool only when no other version of it was ever deployed.            *)
THEOREM RollbacksMoveOn == DepSpec => RollbackMovesOn
<1> DEFINE Withdrawn(t) == /\ queues[t] # <<>> /\ Head(queues[t]).kind = "rollback"
                           /\ Head(queues[t]).ver = NoVersion
                           /\ Len(snaps') > Len(snaps) /\ queues'[t] = Tail(queues[t])
           Moved(t) == /\ active'[t] # active[t] \/ active[t] = NoVersion
                       /\ active'[t] = NoVersion => \A i \in RecordsOf(t) : deployed[i].ver = active[t]
<1>1. ASSUME DepInv, [DepNext]_syncVars, NEW t \in Tools, Withdrawn(t) PROVE Moved(t)
  <2>0. TablesTyped /\ queues \in [Tools -> Seq(sent)] /\ Len(snaps) \in Nat
    BY <1>1, SnapsTyped DEF DepInv, CatalogInv, WorkInv, QueueInv
  <2>1. snaps' # snaps /\ queues'[t] # queues[t]
    BY <1>1, <2>0, NoOwnTail
  <2>2. RunWithdraw(t)
    <3>1. ASSUME NEW u \in Tools, RunWithdraw(u) \/ JobCommit(u) PROVE u = t
      BY <2>0, <2>1, <3>1, NoJobTyped DEF RunWithdraw, JobCommit, Answer
    <3>2. ~JobCommit(t)
      <4>1. job[t].step = "commit" => Head(queues[t]).kind # "rollback"
        BY NoJobTyped, <1>1 DEF DepInv, WorkInv, JobInv
      <4> QED
        BY <1>1, <4>1 DEF JobCommit
    <3>3. ASSUME NEW o \in Orders, Deliver(o) PROVE FALSE
      BY <2>1, <3>3 DEF Deliver, tableVars
    <3>4. ASSUME NEW u \in Tools, RunAgain(u) \/ RunActivate(u) \/ RunResume(u) PROVE FALSE
      BY <2>1, <3>4 DEF RunAgain, RunActivate, RunResume, tableVars
    <3>5. ASSUME NEW r, JobEnter(r) PROVE FALSE
      BY <2>1, <3>5 DEF JobEnter, tableVars
    <3>6. ASSUME NEW u \in Tools, SetControl(u) PROVE FALSE
      BY <2>1, <3>6 DEF SetControl, tableVars
    <3>7. ~SyncBegin /\ ~SyncRestart /\ ~UNCHANGED syncVars
      BY <2>1 DEF SyncBegin, SyncRestart, syncVars, tableVars
    <3>8. ~JobCommit(Sync)
      BY <2>1 DEF JobCommit
    <3>9. ASSUME NEW u \in Tools, SyncOverride(u) \/ SyncEnvelope(u) \/ SyncWant(u) PROVE FALSE
      BY <2>1, <3>9 DEF SyncOverride, SyncEnvelope, SyncWant, SyncTurn, queueVars
    <3> QED
      BY <1>1, <3>1, <3>2, <3>3, <3>4, <3>5, <3>6, <3>7, <3>8, <3>9 DEF DepNext, ToolStep, Reconciling
  <2>3. Rollback(t, Earlier(t))
    BY <1>1, <2>2 DEF RunWithdraw
  <2>4. active' = [active EXCEPT ![t] = Earlier(t)]
    BY <2>1, <2>3 DEF Rollback, Abort, Publish, tableVars
  <2>5. active'[t] = Earlier(t)
    BY <2>0, <2>4 DEF TablesTyped
  <2> QED
    BY <2>0, <2>5, EarlierMoves
<1>2. DepInv /\ [DepNext]_syncVars
      => [ \A t \in Tools :
             (/\ queues[t] # <<>> /\ Head(queues[t]).kind = "rollback" /\ Head(queues[t]).ver = NoVersion
              /\ Len(snaps') > Len(snaps) /\ queues'[t] = Tail(queues[t]))
               => /\ active'[t] # active[t] \/ active[t] = NoVersion
                  /\ active'[t] = NoVersion => \A i \in RecordsOf(t) : deployed[i].ver = active[t]
         ]_syncVars
  BY <1>1
<1> QED
  BY <1>2, DeploymentIsSound, PTL DEF DepSpec, RollbackMovesOn

-----------------------------------------------------------------------------
(* Beside each other.  *)
(* A behaviour of the instance that MCDeployment gives TLC is one of the   *)
(* transactions and one of the deployment: the other stands still.         *)
THEOREM DeploymentComposes == MCSpec => Spec /\ DepSpec
<1>1. MCInit => Init /\ DepInit
  BY DEF MCInit
<1>2. [InTransactions(Next) \/ InSync(DepNext)]_MCVars => [Next]_vars /\ [DepNext]_syncVars
  BY DEF MCVars, InTransactions, InSync
<1> HIDE DEF MCInit, Init, DepInit, Next, DepNext, MCVars, vars, syncVars, InTransactions, InSync
<1> QED  BY <1>1, <1>2, PTL DEF MCSpec, Spec, DepSpec

(* Every variable keeps its type in that instance.                         *)
THEOREM BothTyped == MCSpec => []TypesOK
<1>1. TypeOK /\ DepTypeOK => TypesOK
  BY DEF TypesOK
<1> HIDE DEF MCSpec, Spec, DepSpec, TypeOK, DepTypeOK, TypesOK
<1> QED  BY <1>1, DeploymentComposes, TypeCorrect, DeploymentTyped, PTL
=============================================================================
