--------------------------- MODULE Tailing_proofs ---------------------------
(***************************************************************************)
(* Proofs about a device and its gateway: the observer's lock for every set *)
(* of daemons and every pattern of crashes, a tailed session for every     *)
(* length of the file and every limit of the queue, and the gateway's      *)
(* catalog for every number of workspaces, versions, requests and          *)
(* operations.                                                             *)
(***************************************************************************)
EXTENDS MCTailing, OrderFacts, FiniteSetTheorems, SequenceTheorems, TLAPS

(* The lock.  *)
(* A daemon that holds the lock runs, and one whose heartbeat is under way *)
(* ran when it began.                                                      *)
StepsMatch ==
  /\ \A d \in held : lockStep[d] = "run"
  /\ \A d \in beating : lockStep[d] \in {"run", "remove", "done"}

(* The file names who holds the lock and who is writing its content, and   *)
(* whoever is about to remove a file has seen one of a dead process.       *)
HeldIsNamed == \A d \in held : lockFile.owner = d /\ lockFile.content # "torn"
FillIsNamed ==
  \A d \in Daemons : lockStep[d] = "fill" => lockFile = [owner |-> d, content |-> "torn"]
SeenIsDead == \A l \in Lockers : seen[l] # NoLock => ~Lives(seen[l].owner)

LockInv ==
  /\ LockTypeOK /\ StepsMatch
  /\ lockFaults = {} => HeldIsNamed /\ FillIsNamed /\ SeenIsDead

(* Where there is a lock, its owner is a daemon; a condemned file is kept   *)
(* in mind, and its owner is dead unless a race happened.                  *)
LEMMA CondemnKnows ==
  ASSUME LockTypeOK, NEW l \in Lockers, Condemn(l)
  PROVE  /\ seen' \in [Lockers -> LockFiles] /\ lockFaults' \subseteq Races
         /\ lockFaults' = {} => lockFaults = {} /\ ~Lives(lockFile.owner)
  BY DEF Condemn, Race, Races, LockTypeOK

LEMMA InitLock == LockInit => LockInv
  BY LockAssumption DEF LockInit, LockInv, LockTypeOK, StepsMatch, HeldIsNamed, FillIsNamed,
     SeenIsDead, NoLock, LockFiles, LockSteps, Lockers

LEMMA StepLock == LockInv /\ [LockNext]_lockVars => LockInv'
<1> SUFFICES ASSUME LockInv, [LockNext]_lockVars PROVE LockInv'
  OBVIOUS
<1> USE DEF LockInv
<1>1. ASSUME NEW d \in Daemons, LockInspect(d) PROVE LockInv'
  <2>1. LockTypeOK'
    BY <1>1, LockAssumption, CondemnKnows DEF LockInspect, LockTypeOK, LockFiles, LockSteps,
       Lockers, NoLock, Races
  <2>2. StepsMatch'
    BY <1>1 DEF LockInspect, Condemn, StepsMatch, LockTypeOK
  <2>3. ASSUME lockFaults' = {} PROVE HeldIsNamed' /\ FillIsNamed' /\ SeenIsDead'
    <3>1. lockFaults = {}
      BY <1>1, <2>3, CondemnKnows DEF LockInspect, Lockers
    <3>2. HeldIsNamed'
      BY <1>1, <2>3, <3>1, LockAssumption, CondemnKnows DEF LockInspect, Condemn, HeldIsNamed,
         FillIsNamed, SeenIsDead, StepsMatch, LockTypeOK, LockFiles, Lives, Lockers, NoLock
    <3>3. FillIsNamed'
      BY <1>1, <2>3, <3>1, LockAssumption, CondemnKnows DEF LockInspect, Condemn, HeldIsNamed,
         FillIsNamed, SeenIsDead, StepsMatch, LockTypeOK, LockFiles, Lives, Lockers, NoLock
    <3>4. SeenIsDead'
      <4>1. ASSUME NEW e PROVE Lives(e)' <=> Lives(e)
        BY <1>1 DEF LockInspect, Lives, LockTypeOK
      <4>2. CASE UNCHANGED seen
        BY <4>1, <4>2, <3>1 DEF SeenIsDead
      <4>3. CASE Condemn(d)
        <5>1. ~Lives(lockFile.owner)
          BY <4>3, <2>3, CondemnKnows DEF Lockers
        <5>2. seen' = [seen EXCEPT ![d] = lockFile]
          BY <4>3 DEF Condemn
        <5> QED
          BY <4>1, <5>1, <5>2, <3>1 DEF SeenIsDead, LockTypeOK, Lockers
      <4> QED
        BY <1>1, <4>2, <4>3 DEF LockInspect
    <3> QED
      BY <3>2, <3>3, <3>4
  <2> QED
    BY <2>1, <2>2, <2>3
<1>2. ASSUME NEW d \in Daemons, LockUnlink(d) PROVE LockInv'
  <2>1. LockTypeOK'
    BY <1>2, LockAssumption DEF LockUnlink, RemoveSeen, Race, LockTypeOK, LockFiles, LockSteps,
       Lockers, NoLock, Races
  <2>2. StepsMatch'
    BY <1>2 DEF LockUnlink, RemoveSeen, StepsMatch, LockTypeOK
  <2>3. ASSUME lockFaults' = {} PROVE HeldIsNamed' /\ FillIsNamed' /\ SeenIsDead'
    <3>1. lockFaults = {}
      BY <1>2, <2>3 DEF LockUnlink, RemoveSeen, Race, Lockers
    <3>2. HeldIsNamed'
      BY <1>2, <2>3, <3>1, LockAssumption DEF LockUnlink, RemoveSeen, Race, HeldIsNamed,
         FillIsNamed, SeenIsDead, StepsMatch, LockTypeOK, LockFiles, Lives, Lockers, NoLock
    <3>3. FillIsNamed'
      BY <1>2, <2>3, <3>1, LockAssumption DEF LockUnlink, RemoveSeen, Race, HeldIsNamed,
         FillIsNamed, SeenIsDead, StepsMatch, LockTypeOK, LockFiles, Lives, Lockers, NoLock
    <3>4. SeenIsDead'
      BY <1>2, <2>3, <3>1, LockAssumption DEF LockUnlink, RemoveSeen, Race, SeenIsDead,
         LockTypeOK, LockFiles, Lives, Lockers, NoLock
    <3> QED
      BY <3>2, <3>3, <3>4
  <2> QED
    BY <2>1, <2>2, <2>3
<1>3. ASSUME NEW d \in Daemons, LockCreate(d) PROVE LockInv'
  <2>1. LockTypeOK'
    BY <1>3, LockAssumption DEF LockCreate, LockTypeOK, LockFiles, LockSteps, Lockers, NoLock,
       Races
  <2>2. StepsMatch'
    BY <1>3 DEF LockCreate, StepsMatch, LockTypeOK
  <2>3. ASSUME lockFaults' = {} PROVE HeldIsNamed' /\ FillIsNamed' /\ SeenIsDead'
    <3>1. lockFaults = {}
      BY <1>3, <2>3 DEF LockCreate, Lockers
    <3>2. HeldIsNamed'
      BY <1>3, <2>3, <3>1, LockAssumption DEF LockCreate, HeldIsNamed, FillIsNamed, SeenIsDead,
         StepsMatch, LockTypeOK, LockFiles, Lives, Lockers, NoLock
    <3>3. FillIsNamed'
      BY <1>3, <2>3, <3>1, LockAssumption DEF LockCreate, HeldIsNamed, FillIsNamed, SeenIsDead,
         StepsMatch, LockTypeOK, LockFiles, Lives, Lockers, NoLock
    <3>4. SeenIsDead'
      BY <1>3, <2>3, <3>1, LockAssumption DEF LockCreate, SeenIsDead, LockTypeOK, LockFiles,
         Lives, Lockers, NoLock
    <3> QED
      BY <3>2, <3>3, <3>4
  <2> QED
    BY <2>1, <2>2, <2>3
<1>4. ASSUME NEW d \in Daemons, LockFill(d) PROVE LockInv'
  <2>1. LockTypeOK'
    BY <1>4, LockAssumption DEF LockFill, LockTypeOK, LockFiles, LockSteps, Lockers, NoLock,
       Races
  <2>2. StepsMatch'
    BY <1>4 DEF LockFill, StepsMatch, LockTypeOK
  <2>3. ASSUME lockFaults' = {} PROVE HeldIsNamed' /\ FillIsNamed' /\ SeenIsDead'
    <3>1. lockFaults = {}
      BY <1>4, <2>3 DEF LockFill, Lockers
    <3>2. HeldIsNamed'
      BY <1>4, <2>3, <3>1, LockAssumption DEF LockFill, HeldIsNamed, FillIsNamed, SeenIsDead,
         StepsMatch, LockTypeOK, LockFiles, Lives, Lockers, NoLock
    <3>3. FillIsNamed'
      BY <1>4, <2>3, <3>1, LockAssumption DEF LockFill, HeldIsNamed, FillIsNamed, SeenIsDead,
         StepsMatch, LockTypeOK, LockFiles, Lives, Lockers, NoLock
    <3>4. SeenIsDead'
      BY <1>4, <2>3, <3>1, LockAssumption DEF LockFill, SeenIsDead, LockTypeOK, LockFiles,
         Lives, Lockers, NoLock
    <3> QED
      BY <3>2, <3>3, <3>4
  <2> QED
    BY <2>1, <2>2, <2>3
<1>5. ASSUME NEW d \in Daemons, LockBeat(d) PROVE LockInv'
  <2>1. LockTypeOK'
    BY <1>5, LockAssumption DEF LockBeat, LockTypeOK, LockFiles, LockSteps, Lockers, NoLock,
       Races
  <2>2. StepsMatch'
    BY <1>5 DEF LockBeat, StepsMatch, LockTypeOK
  <2>3. ASSUME lockFaults' = {} PROVE HeldIsNamed' /\ FillIsNamed' /\ SeenIsDead'
    <3>1. lockFaults = {}
      BY <1>5, <2>3 DEF LockBeat, Lockers
    <3>2. HeldIsNamed'
      BY <1>5, <2>3, <3>1, LockAssumption DEF LockBeat, HeldIsNamed, FillIsNamed, SeenIsDead,
         StepsMatch, LockTypeOK, LockFiles, Lives, Lockers, NoLock
    <3>3. FillIsNamed'
      BY <1>5, <2>3, <3>1, LockAssumption DEF LockBeat, HeldIsNamed, FillIsNamed, SeenIsDead,
         StepsMatch, LockTypeOK, LockFiles, Lives, Lockers, NoLock
    <3>4. SeenIsDead'
      BY <1>5, <2>3, <3>1, LockAssumption DEF LockBeat, SeenIsDead, LockTypeOK, LockFiles,
         Lives, Lockers, NoLock
    <3> QED
      BY <3>2, <3>3, <3>4
  <2> QED
    BY <2>1, <2>2, <2>3
<1>6. ASSUME NEW d \in Daemons, LockRename(d) PROVE LockInv'
  <2>1. LockTypeOK'
    BY <1>6, LockAssumption DEF LockRename, Race, LockTypeOK, LockFiles, LockSteps, Lockers,
       NoLock, Races
  <2>2. StepsMatch'
    BY <1>6 DEF LockRename, StepsMatch, LockTypeOK
  <2>3. ASSUME lockFaults' = {} PROVE HeldIsNamed' /\ FillIsNamed' /\ SeenIsDead'
    <3>1. lockFaults = {}
      BY <1>6, <2>3 DEF LockRename, Race, Lockers
    <3>2. HeldIsNamed'
      BY <1>6, <2>3, <3>1, LockAssumption DEF LockRename, Race, HeldIsNamed, FillIsNamed,
         SeenIsDead, StepsMatch, LockTypeOK, LockFiles, Lives, Lockers, NoLock
    <3>3. FillIsNamed'
      BY <1>6, <2>3, <3>1, LockAssumption DEF LockRename, Race, HeldIsNamed, FillIsNamed,
         SeenIsDead, StepsMatch, LockTypeOK, LockFiles, Lives, Lockers, NoLock
    <3>4. SeenIsDead'
      BY <1>6, <2>3, <3>1, LockAssumption DEF LockRename, Race, SeenIsDead, LockTypeOK,
         LockFiles, Lives, Lockers, NoLock
    <3> QED
      BY <3>2, <3>3, <3>4
  <2> QED
    BY <2>1, <2>2, <2>3
<1>7. ASSUME NEW d \in Daemons, LockRelease(d) PROVE LockInv'
  <2>1. LockTypeOK'
    BY <1>7, LockAssumption DEF LockRelease, LockTypeOK, LockFiles, LockSteps, Lockers, NoLock,
       Races
  <2>2. StepsMatch'
    BY <1>7 DEF LockRelease, StepsMatch, LockTypeOK
  <2>3. ASSUME lockFaults' = {} PROVE HeldIsNamed' /\ FillIsNamed' /\ SeenIsDead'
    <3>1. lockFaults = {}
      BY <1>7, <2>3 DEF LockRelease, Lockers
    <3>2. HeldIsNamed'
      BY <1>7, <2>3, <3>1, LockAssumption DEF LockRelease, HeldIsNamed, FillIsNamed, SeenIsDead,
         StepsMatch, LockTypeOK, LockFiles, Lives, Lockers, NoLock
    <3>3. FillIsNamed'
      BY <1>7, <2>3, <3>1, LockAssumption DEF LockRelease, HeldIsNamed, FillIsNamed, SeenIsDead,
         StepsMatch, LockTypeOK, LockFiles, Lives, Lockers, NoLock
    <3>4. SeenIsDead'
      BY <1>7, <2>3, <3>1, LockAssumption DEF LockRelease, SeenIsDead, LockTypeOK, LockFiles,
         Lives, Lockers, NoLock
    <3> QED
      BY <3>2, <3>3, <3>4
  <2> QED
    BY <2>1, <2>2, <2>3
<1>8. ASSUME NEW d \in Daemons, LockRemove(d) PROVE LockInv'
  <2>1. LockTypeOK'
    BY <1>8, LockAssumption DEF LockRemove, Race, LockTypeOK, LockFiles, LockSteps, Lockers,
       NoLock, Races
  <2>2. StepsMatch'
    BY <1>8 DEF LockRemove, StepsMatch, LockTypeOK
  <2>3. ASSUME lockFaults' = {} PROVE HeldIsNamed' /\ FillIsNamed' /\ SeenIsDead'
    <3>1. lockFaults = {}
      BY <1>8, <2>3 DEF LockRemove, Race, Lockers
    <3>2. HeldIsNamed'
      BY <1>8, <2>3, <3>1, LockAssumption DEF LockRemove, Race, HeldIsNamed, FillIsNamed,
         SeenIsDead, StepsMatch, LockTypeOK, LockFiles, Lives, Lockers, NoLock
    <3>3. FillIsNamed'
      BY <1>8, <2>3, <3>1, LockAssumption DEF LockRemove, Race, HeldIsNamed, FillIsNamed,
         SeenIsDead, StepsMatch, LockTypeOK, LockFiles, Lives, Lockers, NoLock
    <3>4. SeenIsDead'
      BY <1>8, <2>3, <3>1, LockAssumption DEF LockRemove, Race, SeenIsDead, LockTypeOK,
         LockFiles, Lives, Lockers, NoLock
    <3> QED
      BY <3>2, <3>3, <3>4
  <2> QED
    BY <2>1, <2>2, <2>3
<1>9. ASSUME NEW d \in Daemons, LockDie(d) PROVE LockInv'
  <2>1. LockTypeOK'
    BY <1>9, LockAssumption DEF LockDie, LockTypeOK, LockFiles, LockSteps, Lockers, NoLock,
       Races
  <2>2. StepsMatch'
    BY <1>9 DEF LockDie, StepsMatch, LockTypeOK
  <2>3. ASSUME lockFaults' = {} PROVE HeldIsNamed' /\ FillIsNamed' /\ SeenIsDead'
    <3>1. lockFaults = {}
      BY <1>9, <2>3 DEF LockDie, Lockers
    <3>2. HeldIsNamed'
      BY <1>9, <2>3, <3>1, LockAssumption DEF LockDie, HeldIsNamed, FillIsNamed, SeenIsDead,
         StepsMatch, LockTypeOK, LockFiles, Lives, Lockers, NoLock
    <3>3. FillIsNamed'
      BY <1>9, <2>3, <3>1, LockAssumption DEF LockDie, HeldIsNamed, FillIsNamed, SeenIsDead,
         StepsMatch, LockTypeOK, LockFiles, Lives, Lockers, NoLock
    <3>4. SeenIsDead'
      BY <1>9, <2>3, <3>1, LockAssumption DEF LockDie, SeenIsDead, LockTypeOK, LockFiles, Lives,
         Lockers, NoLock
    <3> QED
      BY <3>2, <3>3, <3>4
  <2> QED
    BY <2>1, <2>2, <2>3
<1>10. ASSUME LockAge PROVE LockInv'
  <2>1. LockTypeOK'
    BY <1>10, LockAssumption DEF LockAge, LockTypeOK, LockFiles, LockSteps, Lockers, NoLock,
       Races
  <2>2. StepsMatch'
    BY <1>10 DEF LockAge, StepsMatch, LockTypeOK
  <2>3. ASSUME lockFaults' = {} PROVE HeldIsNamed' /\ FillIsNamed' /\ SeenIsDead'
    <3>1. lockFaults = {}
      BY <1>10, <2>3 DEF LockAge, Lockers
    <3>2. HeldIsNamed'
      BY <1>10, <2>3, <3>1, LockAssumption DEF LockAge, HeldIsNamed, FillIsNamed, SeenIsDead,
         StepsMatch, LockTypeOK, LockFiles, Lives, Lockers, NoLock
    <3>3. FillIsNamed'
      BY <1>10, <2>3, <3>1, LockAssumption DEF LockAge, HeldIsNamed, FillIsNamed, SeenIsDead,
         StepsMatch, LockTypeOK, LockFiles, Lives, Lockers, NoLock
    <3>4. SeenIsDead'
      BY <1>10, <2>3, <3>1, LockAssumption DEF LockAge, SeenIsDead, LockTypeOK, LockFiles,
         Lives, Lockers, NoLock
    <3> QED
      BY <3>2, <3>3, <3>4
  <2> QED
    BY <2>1, <2>2, <2>3
<1>11. ASSUME RepairInspect PROVE LockInv'
  <2>1. LockTypeOK'
    BY <1>11, LockAssumption DEF RepairInspect, Condemn, StaleLock, Race, LockTypeOK, LockFiles,
       LockSteps, Lockers, NoLock, Races
  <2>2. StepsMatch'
    BY <1>11 DEF RepairInspect, Condemn, StaleLock, StepsMatch, LockTypeOK
  <2>3. ASSUME lockFaults' = {} PROVE HeldIsNamed' /\ FillIsNamed' /\ SeenIsDead'
    <3>1. lockFaults = {}
      BY <1>11, <2>3 DEF RepairInspect, Condemn, StaleLock, Race, Lockers
    <3>2. HeldIsNamed'
      BY <1>11, <2>3, <3>1, LockAssumption DEF RepairInspect, Condemn, StaleLock, Race,
         HeldIsNamed, FillIsNamed, SeenIsDead, StepsMatch, LockTypeOK, LockFiles, Lives,
         Lockers, NoLock
    <3>3. FillIsNamed'
      BY <1>11, <2>3, <3>1, LockAssumption DEF RepairInspect, Condemn, StaleLock, Race,
         HeldIsNamed, FillIsNamed, SeenIsDead, StepsMatch, LockTypeOK, LockFiles, Lives,
         Lockers, NoLock
    <3>4. SeenIsDead'
      BY <1>11, <2>3, <3>1, LockAssumption DEF RepairInspect, Condemn, StaleLock, Race,
         SeenIsDead, LockTypeOK, LockFiles, Lives, Lockers, NoLock
    <3> QED
      BY <3>2, <3>3, <3>4
  <2> QED
    BY <2>1, <2>2, <2>3
<1>12. ASSUME RepairUnlink PROVE LockInv'
  <2>1. LockTypeOK'
    BY <1>12, LockAssumption DEF RepairUnlink, RemoveSeen, Race, LockTypeOK, LockFiles,
       LockSteps, Lockers, NoLock, Races
  <2>2. StepsMatch'
    BY <1>12 DEF RepairUnlink, RemoveSeen, StepsMatch, LockTypeOK
  <2>3. ASSUME lockFaults' = {} PROVE HeldIsNamed' /\ FillIsNamed' /\ SeenIsDead'
    <3>1. lockFaults = {}
      BY <1>12, <2>3 DEF RepairUnlink, RemoveSeen, Race, Lockers
    <3>2. HeldIsNamed'
      BY <1>12, <2>3, <3>1, LockAssumption DEF RepairUnlink, RemoveSeen, Race, HeldIsNamed,
         FillIsNamed, SeenIsDead, StepsMatch, LockTypeOK, LockFiles, Lives, Lockers, NoLock
    <3>3. FillIsNamed'
      BY <1>12, <2>3, <3>1, LockAssumption DEF RepairUnlink, RemoveSeen, Race, HeldIsNamed,
         FillIsNamed, SeenIsDead, StepsMatch, LockTypeOK, LockFiles, Lives, Lockers, NoLock
    <3>4. SeenIsDead'
      BY <1>12, <2>3, <3>1, LockAssumption DEF RepairUnlink, RemoveSeen, Race, SeenIsDead,
         LockTypeOK, LockFiles, Lives, Lockers, NoLock
    <3> QED
      BY <3>2, <3>3, <3>4
  <2> QED
    BY <2>1, <2>2, <2>3
<1>13. CASE UNCHANGED lockVars
  BY <1>13 DEF lockVars, LockTypeOK, StepsMatch, HeldIsNamed, FillIsNamed, SeenIsDead, Lives
<1> QED
  BY <1>1, <1>2, <1>3, <1>4, <1>5, <1>6, <1>7, <1>8, <1>9, <1>10, <1>11, <1>12, <1>13 DEF
     LockNext, LockStepOf

LEMMA LockInvariant == LockSpec => []LockInv
  BY InitLock, StepLock, PTL DEF LockSpec

(* The lock file, the steps of the daemons and the history keep their      *)
(* types.                                                                  *)
THEOREM LockTypeCorrect == LockSpec => []LockTypeOK
<1>1. LockInv => LockTypeOK
  BY DEF LockInv
<1> QED
  BY <1>1, LockInvariant, PTL

(* However many daemons start, die and recover locks of dead ones, the     *)
(* lock has one holder until one of the four races of lock.ts happens.     *)
THEOREM OneDaemonHoldsTheLock == LockSpec => []LockExclusive
<1>1. LockInv => LockExclusive
  BY DEF LockInv, HeldIsNamed, LockExclusive
<1> QED
  BY <1>1, LockInvariant, PTL

-----------------------------------------------------------------------------
(* The tailed session. *)
(* The elements of a set of indexes are counted in their order.            *)
Rank(I, i) == Cardinality({j \in I : j <= i})

LEMMA RanksCount ==
  ASSUME NEW n \in Nat, NEW I \in SUBSET (1..n)
  PROVE  /\ Cardinality(I) \in Nat
         /\ \A i \in I : Rank(I, i) \in 1..Cardinality(I)
         /\ \A i, j \in I : i < j => Rank(I, i) < Rank(I, j)
         /\ \A k \in 1..Cardinality(I) : \E i \in I : Rank(I, i) = k
<1> DEFINE Upto(i) == {j \in I : j <= i}
<1>0. I \subseteq 1..n /\ \A i \in I : i \in 1..n /\ i \in Nat /\ i <= n
  OBVIOUS
<1>1. IsFiniteSet(I) /\ Cardinality(I) \in Nat
  <2>1. IsFiniteSet(1..n)
    BY FS_Interval
  <2> QED
    BY <2>1, FS_Subset, FS_CardinalityType
<1>2. ASSUME NEW i \in Nat
      PROVE  IsFiniteSet(Upto(i)) /\ Rank(I, i) \in Nat /\ Rank(I, i) <= Cardinality(I)
  <2>1. Upto(i) \in SUBSET I
    OBVIOUS
  <2> HIDE DEF Upto
  <2>2. IsFiniteSet(Upto(i)) /\ Cardinality(Upto(i)) <= Cardinality(I)
    BY <1>1, <2>1, FS_Subset
  <2>3. Cardinality(Upto(i)) \in Nat
    BY <2>2, FS_CardinalityType
  <2> QED
    BY <2>2, <2>3 DEF Rank, Upto
<1>3. ASSUME NEW i \in I PROVE Rank(I, i) \in 1..Cardinality(I)
  <2>1. i \in Upto(i) /\ IsFiniteSet(Upto(i)) /\ Rank(I, i) \in Nat /\ Rank(I, i) <= Cardinality(I)
    BY <1>2
  <2>2. Rank(I, i) # 0
    BY <2>1, FS_EmptySet DEF Rank
  <2> QED
    BY <1>1, <2>1, <2>2
<1>4. ASSUME NEW i \in I, NEW j \in I, i < j PROVE Rank(I, i) < Rank(I, j)
  <2>1. Upto(i) \in SUBSET Upto(j) /\ j \in Upto(j) /\ j \notin Upto(i) /\ IsFiniteSet(Upto(j))
    <3>1. i \in Nat /\ j \in Nat /\ IsFiniteSet(Upto(j))
      BY <1>0, <1>2
    <3>2. \A k \in I : k <= i => k <= j
      BY <1>0, <1>4
    <3>3. ~(j <= i) /\ j <= j
      BY <1>4, <3>1
    <3> QED
      BY <3>1, <3>2, <3>3
  <2>2. Rank(I, i) = Cardinality(Upto(i)) /\ Rank(I, j) = Cardinality(Upto(j))
    BY DEF Rank
  <2>3. Rank(I, i) \in Nat /\ Rank(I, j) \in Nat
    BY <1>0, <1>2
  <2> HIDE DEF Upto
  <2>4. Cardinality(Upto(i)) <= Cardinality(Upto(j)) /\ Cardinality(Upto(i)) # Cardinality(Upto(j))
    BY <2>1, FS_Subset
  <2> QED
    BY <2>2, <2>3, <2>4
<1>5. ASSUME NEW k \in 1..Cardinality(I) PROVE \E i \in I : Rank(I, i) = k
  <2> PICK T : T = {i \in Nat : Rank(I, i) >= k}
    OBVIOUS
  <2>1. n \in T
    <3>1. Upto(n) = I
      BY <1>0
    <3> QED
      BY <3>1, <1>1 DEF Rank
  <2>2. PICK m \in T : \A i \in T : m <= i
    BY <2>1, LeastElement
  <2>3. m # 0
    <3>0. \A j \in I : ~(j <= 0)
      BY <1>0
    <3>1. Upto(0) = {}
      BY <3>0
    <3>2. Rank(I, 0) = 0
      BY <3>1, FS_EmptySet DEF Rank
    <3> QED
      BY <3>2
  <2>4. m - 1 \in Nat /\ Rank(I, m - 1) < k /\ Rank(I, m - 1) \in Nat
    <3>1. m - 1 \in Nat /\ ~(m <= m - 1)
      BY <2>3
    <3>2. m - 1 \notin T
      BY <2>2, <3>1
    <3>3. Rank(I, m - 1) \in Nat
      BY <1>2, <3>1
    <3> QED
      BY <3>1, <3>2, <3>3
  <2>5. m \in I
    <3> SUFFICES ASSUME m \notin I PROVE FALSE
      OBVIOUS
    <3>0. \A j \in I : j <= m <=> j <= m - 1
      BY <1>0, <2>4
    <3>1. Upto(m) = Upto(m - 1)
      BY <3>0
    <3> QED
      BY <2>4, <3>1 DEF Rank
  <2>6. Rank(I, m) = Rank(I, m - 1) + 1
    <3>1. Upto(m) = Upto(m - 1) \cup {m} /\ m \notin Upto(m - 1) /\ IsFiniteSet(Upto(m - 1))
      <4>1. IsFiniteSet(Upto(m - 1))
        BY <1>2, <2>4
      <4>2. \A j \in I : j <= m <=> j <= m - 1 \/ j = m
        BY <1>0, <2>4
      <4>3. ~(m <= m - 1)
        BY <2>4
      <4> QED
        BY <2>5, <4>1, <4>2, <4>3
    <3> HIDE DEF Upto
    <3>2. Cardinality(Upto(m)) = Cardinality(Upto(m - 1)) + 1
      BY <3>1, FS_AddElement
    <3> QED
      BY <3>2 DEF Rank, Upto
  <2> QED
    BY <1>2, <2>4, <2>5, <2>6
<1> QED
  BY <1>1, <1>3, <1>4, <1>5

(* What the filter lets pass is a sequence of the records, in their order. *)
Filtered(f, s) ==
  /\ \A k \in DOMAIN f : \E i \in DOMAIN s : f[k] = s[i] /\ IsNew(s[i])
  /\ \A i \in DOMAIN s : IsNew(s[i]) => \E k \in DOMAIN f : f[k] = s[i]
  /\ \A k, l \in DOMAIN f : k < l =>
       \E i, j \in DOMAIN s : i < j /\ f[k] = s[i] /\ f[l] = s[j]

LEMMA FreshInOrder ==
  ASSUME NEW S, NEW s \in Seq(S)
  PROVE  Fresh(s) \in Seq(S) /\ Filtered(Fresh(s), s)
<1> PICK new : new = {i \in DOMAIN s : IsNew(s[i])}
  OBVIOUS
<1> PICK nth : nth = [k \in 1..Cardinality(new) |-> CHOOSE i \in new : Rank(new, i) = k]
  OBVIOUS
<1>1. DOMAIN s = 1..Len(s) /\ Len(s) \in Nat /\ new \in SUBSET (1..Len(s))
  BY LenProperties
<1>2. /\ Cardinality(new) \in Nat
      /\ \A i \in new : Rank(new, i) \in 1..Cardinality(new)
      /\ \A i, j \in new : i < j => Rank(new, i) < Rank(new, j)
      /\ \A k \in 1..Cardinality(new) : \E i \in new : Rank(new, i) = k
  BY <1>1, RanksCount
<1>3. \A k \in 1..Cardinality(new) : nth[k] \in new /\ Rank(new, nth[k]) = k
  BY <1>2
<1>4. Fresh(s) = [k \in 1..Cardinality(new) |-> s[nth[k]]]
  BY DEF Fresh, Rank
<1>d. /\ DOMAIN Fresh(s) = 1..Cardinality(new)
      /\ \A k \in 1..Cardinality(new) : Fresh(s)[k] = s[nth[k]]
  BY <1>4
<1>5. \A k \in 1..Cardinality(new) : s[nth[k]] \in S /\ nth[k] \in DOMAIN s /\ IsNew(s[nth[k]])
  BY <1>1, <1>3, ElementOfSeq
<1>6. Fresh(s) \in Seq(S)
  <2> PICK f : f = Fresh(s)
    OBVIOUS
  <2>1. f \in [1..Cardinality(new) -> S]
    BY <1>4, <1>5
  <2>2. f \in UNION {[1..n -> S] : n \in Nat}
    BY <1>2, <2>1
  <2> QED
    BY <2>2, SeqDef
<1>7. ASSUME NEW i \in DOMAIN s, IsNew(s[i])
      PROVE  \E k \in DOMAIN Fresh(s) : Fresh(s)[k] = s[i]
  <2>1. i \in new
    BY <1>7
  <2> PICK k \in 1..Cardinality(new) : k = Rank(new, i)
    BY <1>2, <2>1
  <2>2. nth[k] \in Nat /\ i \in Nat /\ ~(nth[k] < i) /\ ~(i < nth[k])
    BY <1>1, <1>2, <1>3, <2>1
  <2>3. nth[k] = i
    BY <2>2
  <2> QED
    BY <1>d, <2>3
<1>8. ASSUME NEW k \in DOMAIN Fresh(s), NEW l \in DOMAIN Fresh(s), k < l
      PROVE  \E i, j \in DOMAIN s : i < j /\ Fresh(s)[k] = s[i] /\ Fresh(s)[l] = s[j]
  <2>1. k \in 1..Cardinality(new) /\ l \in 1..Cardinality(new)
    BY <1>d
  <2>2. ~(nth[l] < nth[k]) /\ nth[k] # nth[l] /\ nth[k] \in Nat /\ nth[l] \in Nat
    <3>1. nth[k] \in new /\ nth[l] \in new /\ Rank(new, nth[k]) = k /\ Rank(new, nth[l]) = l
      BY <1>3, <2>1
    <3>2. ~(nth[l] < nth[k]) /\ nth[k] # nth[l]
      <4>1. \A i, j \in new : i < j => Rank(new, i) < Rank(new, j)
        BY <1>2
      <4>2. k \in Nat /\ l \in Nat /\ ~(l < k) /\ k # l
        BY <1>2, <1>8, <2>1
      <4>3. ~(nth[l] < nth[k])
        BY <3>1, <4>1, <4>2
      <4> QED
        BY <3>1, <4>2, <4>3
    <3> QED
      BY <1>1, <3>1, <3>2
  <2>3. nth[k] < nth[l]
    BY <2>2
  <2> QED
    <3>1. /\ Fresh(s)[k] = s[nth[k]] /\ Fresh(s)[l] = s[nth[l]]
          /\ nth[k] \in DOMAIN s /\ nth[l] \in DOMAIN s
      BY <1>d, <1>5, <2>1
    <3> QED
      BY <2>3, <3>1, Zenon
<1>9. \A k \in DOMAIN Fresh(s) : \E i \in DOMAIN s : Fresh(s)[k] = s[i] /\ IsNew(s[i])
  BY <1>d, <1>5, Zenon
<1> QED
  BY <1>6, <1>7, <1>8, <1>9, Zenon DEF Filtered

(* Every variable has its type, the sequences included.                    *)
TailRecord == [line : 1..MaxLines, off : Nat, seq : Nat]
TailReading == [from : Nat, lines : Seq(1..written), limit : Nat]

TailTyped ==
  /\ written \in 0..MaxLines /\ file \in Seq(1..written) /\ gen \in 0..MaxRotations
  /\ watcher \in [read : Nat, comm : Nat, seq : Nat, gen : -1..MaxRotations]
  /\ reading = NoRead \/ reading \in TailReading
  /\ pending \in Seq(TailRecord) /\ Len(pending) <= Capacity
  /\ batch \in Seq(TailRecord) /\ Len(batch) <= BatchSize
  /\ handed \in Seq(1..MaxLines)
  /\ pump \in BOOLEAN /\ full \in BOOLEAN /\ skewed \in BOOLEAN
  /\ fate \in [Fates -> SUBSET (1..MaxLines)]
  /\ restarts \in 0..MaxRestarts /\ cursor \in [off : Nat, seq : Nat]

LEMMA TailConstants ==
  /\ MaxLines \in Nat /\ MaxRotations \in Nat /\ MaxRestarts \in Nat
  /\ Capacity \in Nat \ {0} /\ BatchSize \in Nat \ {0} /\ HighWater \in Nat \ {0}
BY TailAssumption DEF TailAssumption

(* A concatenation, a prefix and the rest of a sequence, element by        *)
(* element.                                                                *)
LEMMA ConcatParts ==
  ASSUME NEW S, NEW s \in Seq(S), NEW t \in Seq(S)
  PROVE  /\ s \o t \in Seq(S) /\ Len(s \o t) = Len(s) + Len(t)
         /\ \A k \in 1..Len(s) : (s \o t)[k] = s[k]
         /\ \A k \in 1..Len(t) : (s \o t)[Len(s) + k] = t[k]
<1> PICK c, m, n : c = s \o t /\ m = Len(s) /\ n = Len(t)
  OBVIOUS
<1>1. m \in Nat /\ n \in Nat
  BY LenProperties
<1>2. /\ c \in Seq(S) /\ Len(c) = m + n
      /\ \A i \in 1..m + n : c[i] = IF i <= m THEN s[i] ELSE t[i - m]
  BY ConcatProperties
<1>3. \A k \in 1..m : c[k] = s[k]
  BY <1>1, <1>2
<1>4. ASSUME NEW k \in 1..n PROVE c[m + k] = t[k]
  <2>1. m + k \in 1..m + n /\ ~(m + k <= m) /\ (m + k) - m = k
    BY <1>1
  <2>2. c[m + k] = t[(m + k) - m]
    BY <1>2, <2>1
  <2> QED
    BY <2>1, <2>2
<1> QED
  BY <1>2, <1>3, <1>4

LEMMA PrefixOf ==
  ASSUME NEW S, NEW s \in Seq(S), NEW n \in 0..Len(s)
  PROVE  /\ SubSeq(s, 1, n) \in Seq(S) /\ Len(SubSeq(s, 1, n)) = n
         /\ \A k \in 1..n : SubSeq(s, 1, n)[k] = s[k]
         /\ SubSeq(s, n + 1, Len(s)) \in Seq(S) /\ Len(SubSeq(s, n + 1, Len(s))) = Len(s) - n
         /\ \A k \in 1..Len(s) - n : SubSeq(s, n + 1, Len(s))[k] = s[n + k]
<1>0. Len(s) \in Nat /\ n \in Nat /\ n <= Len(s)
  BY LenProperties
<1>1. \A i \in 1..Len(s) : s[i] \in S
  BY ElementOfSeq
<1>2. /\ SubSeq(s, 1, n) \in Seq(S) /\ Len(SubSeq(s, 1, n)) = n
      /\ \A k \in 1..n : SubSeq(s, 1, n)[k] = s[k]
  <2>1. \A i \in 1..n : s[i] \in S
    BY <1>0, <1>1
  <2>2. /\ SubSeq(s, 1, n) \in Seq(S) /\ Len(SubSeq(s, 1, n)) = IF 1 <= n THEN n - 1 + 1 ELSE 0
        /\ \A k \in 1..n - 1 + 1 : SubSeq(s, 1, n)[k] = s[1 + k - 1]
    BY <1>0, <2>1, SubSeqProperties
  <2> QED
    BY <1>0, <2>2
<1>3. /\ SubSeq(s, n + 1, Len(s)) \in Seq(S) /\ Len(SubSeq(s, n + 1, Len(s))) = Len(s) - n
      /\ \A k \in 1..Len(s) - n : SubSeq(s, n + 1, Len(s))[k] = s[n + k]
  <2> PICK m, l : m = n + 1 /\ l = Len(s)
    OBVIOUS
  <2>0. m \in Int /\ l \in Int
    BY <1>0
  <2>1. \A i \in m..l : s[i] \in S
    BY <1>0, <1>1
  <2>2. /\ SubSeq(s, m, l) \in Seq(S) /\ Len(SubSeq(s, m, l)) = IF m <= l THEN l - m + 1 ELSE 0
        /\ \A k \in 1..l - m + 1 : SubSeq(s, m, l)[k] = s[m + k - 1]
    BY <2>0, <2>1, SubSeqProperties
  <2>3. \A k \in 1..Len(s) - n : SubSeq(s, m, l)[k] = s[n + k]
    <3> SUFFICES ASSUME NEW k \in 1..Len(s) - n PROVE SubSeq(s, m, l)[k] = s[n + k]
      OBVIOUS
    <3>1. k \in 1..l - m + 1 /\ m + k - 1 = n + k
      BY <1>0
    <3> QED
      BY <2>2, <3>1
  <2>4. Len(SubSeq(s, m, l)) = Len(s) - n
    BY <1>0, <2>2
  <2> QED
    BY <2>2, <2>3, <2>4
<1> QED
  BY <1>2, <1>3

StartOf(t, s) == Len(t) \in 0..Len(s) /\ \A k \in 1..Len(t) : t[k] = s[k]

LEMMA AcceptedIsPrefix ==
  ASSUME NEW S, NEW q \in Seq(S), NEW s \in Seq(S), Len(q) <= Capacity
  PROVE  /\ Accepted(q, s) \in Seq(S) /\ StartOf(Accepted(q, s), s)
         /\ Len(q) + Len(Accepted(q, s)) <= Capacity
<1> PICK n : n = IF Len(q) + Len(s) <= Capacity THEN Len(s) ELSE Capacity - Len(q)
  OBVIOUS
<1>1. n \in 0..Len(s) /\ Len(q) + n <= Capacity
  BY LenProperties, TailConstants
<1>2. Accepted(q, s) = SubSeq(s, 1, n)
  BY DEF Accepted
<1> QED
  BY <1>1, <1>2, PrefixOf DEF StartOf

(* What a dispatch does, element by element.                               *)
Dispatched(q, b, n) ==
  /\ n \in 0..Len(q) /\ n <= BatchSize /\ (b # <<>> => n = 0)
  /\ pending' \in Seq(TailRecord) /\ Len(pending') = Len(q) - n
  /\ \A k \in 1..Len(q) - n : pending'[k] = q[n + k]
  /\ batch' \in Seq(TailRecord)
  /\ n = 0 => batch' = b
  /\ n # 0 => Len(batch') = n /\ \A k \in 1..n : batch'[k] = q[k]
  /\ handed' \in Seq(1..MaxLines) /\ Len(handed') = Len(handed) + n
  /\ \A k \in 1..Len(handed) : handed'[k] = handed[k]
  /\ \A k \in 1..n : handed'[Len(handed) + k] = q[k].line
  /\ full' \in BOOLEAN /\ pump' \in BOOLEAN

LEMMA DispatchSplits ==
  ASSUME NEW q \in Seq(TailRecord), NEW b \in Seq(TailRecord), handed \in Seq(1..MaxLines), Dispatch(q, b)
  PROVE  \E n \in Nat : Dispatched(q, b, n)
<1>n. PICK n : n = IF b # <<>> THEN 0 ELSE IF Len(q) < BatchSize THEN Len(q) ELSE BatchSize
  OBVIOUS
<1>t. PICK taken : taken = SubSeq(q, 1, n)
  OBVIOUS
<1>1. n \in Nat /\ n \in 0..Len(q) /\ n <= BatchSize /\ (b # <<>> => n = 0)
  BY <1>n, LenProperties, TailConstants
<1>2. /\ pending' = SubSeq(q, n + 1, Len(q))
      /\ batch' = IF n = 0 THEN b ELSE taken
      /\ handed' = handed \o [i \in 1..n |-> taken[i].line]
  BY <1>n, <1>t DEF Dispatch
<1>3. full' \in BOOLEAN /\ pump' \in BOOLEAN
  BY Zenon DEF Dispatch
<1>4. /\ taken \in Seq(TailRecord) /\ Len(taken) = n /\ \A k \in 1..n : taken[k] = q[k]
      /\ pending' \in Seq(TailRecord) /\ Len(pending') = Len(q) - n
      /\ \A k \in 1..Len(q) - n : pending'[k] = q[n + k]
  <2>r. PICK rest : rest = SubSeq(q, n + 1, Len(q))
    OBVIOUS
  <2>1. /\ taken \in Seq(TailRecord) /\ Len(taken) = n /\ \A k \in 1..n : taken[k] = q[k]
        /\ rest \in Seq(TailRecord) /\ Len(rest) = Len(q) - n
        /\ \A k \in 1..Len(q) - n : rest[k] = q[n + k]
    BY <1>1, <1>t, <2>r, PrefixOf
  <2> QED
    BY <1>2, <2>1, <2>r
<1>l. PICK l : l = [i \in 1..n |-> taken[i].line]
  OBVIOUS
<1>5. l \in Seq(1..MaxLines) /\ Len(l) = n /\ \A k \in 1..n : l[k] = q[k].line
  <2>1. \A k \in 1..n : taken[k] \in TailRecord
    BY <1>4, ElementOfSeq
  <2>2. l \in [1..n -> 1..MaxLines]
    BY <1>l, <2>1 DEF TailRecord
  <2>3. l \in Seq(1..MaxLines) /\ Len(l) = n
    BY <1>1, <2>2, FunctionIsSeq
  <2> QED
    BY <1>4, <1>l, <2>3
<1>6. /\ handed' \in Seq(1..MaxLines) /\ Len(handed') = Len(handed) + n
      /\ \A k \in 1..Len(handed) : handed'[k] = handed[k]
      /\ \A k \in 1..n : handed'[Len(handed) + k] = q[k].line
  <2> PICK h, c : h = handed /\ c = h \o l
    OBVIOUS
  <2>1. /\ c \in Seq(1..MaxLines) /\ Len(c) = Len(h) + Len(l)
        /\ \A k \in 1..Len(h) : c[k] = h[k]
        /\ \A k \in 1..Len(l) : c[Len(h) + k] = l[k]
    BY <1>5, ConcatParts
  <2>2. handed' = c
    BY <1>2, <1>l
  <2> QED
    BY <1>5, <2>1, <2>2
<1>7. /\ batch' \in Seq(TailRecord) /\ (n = 0 => batch' = b)
      /\ (n # 0 => Len(batch') = n /\ \A k \in 1..n : batch'[k] = q[k])
  BY <1>2, <1>4
<1> QED
  BY <1>1, <1>3, <1>4, <1>6, <1>7 DEF Dispatched

LEMMA ReadRecordsTyped ==
  ASSUME TailTyped, reading # NoRead
  PROVE  /\ Records \in Seq(TailRecord) /\ Len(Records) \in Nat /\ Len(Records) <= Len(reading.lines)
         /\ Len(reading.lines) \in Nat /\ DOMAIN Records = 1..Len(Records)
         /\ \A i \in 1..Len(Records) :
              Records[i] = [line |-> reading.lines[i], off |-> watcher.comm + i, seq |-> watcher.seq + i]
<1> PICK w : w = written
  OBVIOUS
<1> PICK r : r = reading
  OBVIOUS
<1>0. /\ r.lines \in Seq(1..w) /\ r.limit \in Nat /\ w <= MaxLines /\ w \in Nat
      /\ watcher.comm \in Nat /\ watcher.seq \in Nat
  BY DEF TailTyped, TailReading
<1>n. PICK n : n = IF Len(r.lines) < r.limit THEN Len(r.lines) ELSE r.limit
  OBVIOUS
<1>1. n \in Nat /\ n <= Len(r.lines) /\ Len(r.lines) \in Nat
  BY <1>0, <1>n, LenProperties
<1>2. Records = [i \in 1..n |-> [line |-> r.lines[i], off |-> watcher.comm + i, seq |-> watcher.seq + i]]
  BY <1>n DEF Records
<1>3. \A i \in 1..n : r.lines[i] \in 1..MaxLines
  <2>1. \A i \in 1..n : i \in 1..Len(r.lines)
    BY <1>1
  <2>2. \A i \in 1..n : r.lines[i] \in 1..w
    BY <1>0, <2>1, ElementOfSeq
  <2> QED
    BY <1>0, <2>2, TailConstants
<1>4. Records \in [1..n -> TailRecord]
  <2> PICK c \in Nat, z \in Nat : c = watcher.comm /\ z = watcher.seq
    BY <1>0
  <2>1. ASSUME NEW i \in 1..n
        PROVE  [line |-> r.lines[i], off |-> c + i, seq |-> z + i] \in TailRecord
    <3>1. c + i \in Nat /\ z + i \in Nat /\ r.lines[i] \in 1..MaxLines
      BY <1>1, <1>3
    <3> QED
      BY <3>1 DEF TailRecord
  <2> QED
    BY <1>2, <2>1
<1> PICK records : records = Records
  OBVIOUS
<1>5. records \in Seq(TailRecord) /\ Len(records) = n
  BY <1>1, <1>4, FunctionIsSeq
<1>6. DOMAIN records = 1..n
  BY <1>4
<1> QED
  BY <1>1, <1>2, <1>5, <1>6

LEMMA LinesTyped ==
  ASSUME NEW s \in Seq(TailRecord)
  PROVE  /\ Lines(s) \subseteq 1..MaxLines /\ DOMAIN s = 1..Len(s) /\ Len(s) \in Nat
         /\ \A i \in DOMAIN s : s[i] \in TailRecord
<1>1. DOMAIN s = 1..Len(s) /\ Len(s) \in Nat
  BY LenProperties
<1>2. \A i \in DOMAIN s : s[i] \in TailRecord
  BY <1>1, ElementOfSeq
<1> QED
  BY <1>1, <1>2 DEF Lines, TailRecord

-----------------------------------------------------------------------------
LEMMA TailInitTyped == TailInit => TailTyped
<1> SUFFICES ASSUME TailInit PROVE TailTyped
  OBVIOUS
<1>1. <<>> \in Seq(1..0) /\ <<>> \in Seq(TailRecord) /\ <<>> \in Seq(1..MaxLines) /\ Len(<<>>) = 0
  BY EmptySeq
<1>2. written = 0 /\ file \in Seq(1..written) /\ reading = NoRead /\ gen = 0 /\ restarts = 0
  BY <1>1 DEF TailInit
<1>3. pending \in Seq(TailRecord) /\ batch \in Seq(TailRecord) /\ handed \in Seq(1..MaxLines)
  BY <1>1 DEF TailInit
<1>4. Len(pending) <= Capacity /\ Len(batch) <= BatchSize
  BY <1>1, TailConstants DEF TailInit
<1>5. pump \in BOOLEAN /\ full \in BOOLEAN /\ skewed \in BOOLEAN
  BY Zenon DEF TailInit
<1>6. fate \in [Fates -> SUBSET (1..MaxLines)] /\ cursor \in [off : Nat, seq : Nat]
  BY DEF TailInit
<1>7. watcher \in [read : Nat, comm : Nat, seq : Nat, gen : -1..MaxRotations]
  BY <1>6, TailConstants DEF TailInit, Attached
<1> QED
  BY <1>2, <1>3, <1>4, <1>5, <1>6, <1>7, TailConstants DEF TailTyped

LEMMA ReadFromTyped ==
  ASSUME TailTyped, NEW limit \in Nat, ReadFrom(limit), pump' \in BOOLEAN
  PROVE  TailTyped'
<1>1. watcher' \in [read : Nat, comm : Nat, seq : Nat, gen : -1..MaxRotations]
  <2> PICK w, g : w = watcher /\ g = gen
    OBVIOUS
  <2>1. w \in [read : Nat, comm : Nat, seq : Nat, gen : -1..MaxRotations] /\ g \in -1..MaxRotations
    BY TailConstants DEF TailTyped
  <2>2. watcher' = [w EXCEPT !.read = 0, !.comm = 0, !.gen = g] \/ watcher' = [w EXCEPT !.gen = g]
    BY DEF ReadFrom, Probed
  <2>3. 0 \in Nat
    OBVIOUS
  <2>4. CASE watcher' = [w EXCEPT !.read = 0, !.comm = 0, !.gen = g]
    BY <2>1, <2>3, <2>4
  <2>5. CASE watcher' = [w EXCEPT !.gen = g]
    BY <2>1, <2>5
  <2> QED
    BY <2>2, <2>4, <2>5
<1>2. reading' = NoRead \/ reading' \in TailReading'
  <2>1. CASE reading' = reading
    BY <2>1 DEF ReadFrom
  <2>2. CASE /\ ~(Len(file) <= watcher'.read)
             /\ \E upto \in watcher'.read + 1 .. Len(file) :
                  reading' = [from |-> watcher'.read, limit |-> limit,
                              lines |-> SubSeq(file, watcher'.read + 1, upto)]
    <3> PICK f, w, m : f = file /\ w = written /\ m = watcher'.read
      OBVIOUS
    <3>1. f \in Seq(1..w) /\ m \in Nat /\ Len(f) \in Nat /\ w = written'
      BY <1>1, LenProperties DEF TailTyped, ReadFrom, envVars
    <3>2. PICK u \in m + 1 .. Len(f) :
            reading' = [from |-> m, limit |-> limit, lines |-> SubSeq(f, m + 1, u)]
      BY <2>2
    <3>3. \A i \in m + 1 .. u : i \in 1..Len(f)
      BY <3>1
    <3>4. \A i \in m + 1 .. u : f[i] \in 1..w
      BY <3>1, <3>3, ElementOfSeq
    <3>5. SubSeq(f, m + 1, u) \in Seq(1..w)
      BY <3>1, <3>4, SubSeqProperties
    <3> QED
      BY <3>1, <3>2, <3>5 DEF TailReading
  <2> QED
    BY <2>1, <2>2 DEF ReadFrom
<1>3. /\ UNCHANGED <<file, written, gen, restarts, pending, full, batch, cursor, fate, handed, skewed>>
  BY DEF ReadFrom, envVars
<1> QED
  BY <1>1, <1>2, <1>3 DEF TailTyped

LEMMA ReadTyped ==
  ASSUME TailTyped, TailRead
  PROVE  TailTyped'
<1> PICK records : records = Records
  OBVIOUS
<1> PICK fresh : fresh = Fresh(records)
  OBVIOUS
<1> PICK q, taken : q = pending /\ taken = Accepted(q, fresh)
  OBVIOUS
<1>0. /\ reading # NoRead /\ reading' = NoRead
      /\ UNCHANGED <<file, written, gen, restarts, cursor>>
      /\ watcher' = [watcher EXCEPT !.read = @ + Len(reading.lines),
                                    !.comm = @ + Len(Records), !.seq = @ + Len(Records)]
      /\ fate' = [fate EXCEPT !["refused"] = @ \cup (Lines(fresh) \ Lines(taken))]
      /\ IF fresh = <<>> THEN UNCHANGED <<pending, batch, handed, full, pump>>
         ELSE Dispatch(q \o taken, batch)
  BY DEF TailRead, envVars
<1>1. /\ records \in Seq(TailRecord) /\ Len(records) \in Nat /\ Len(reading.lines) \in Nat
  BY <1>0, ReadRecordsTyped
<1>2. watcher' \in [read : Nat, comm : Nat, seq : Nat, gen : -1..MaxRotations]
  <2> PICK w, m, n : w = watcher /\ m = Len(reading.lines) /\ n = Len(Records)
    OBVIOUS
  <2>1. w \in [read : Nat, comm : Nat, seq : Nat, gen : -1..MaxRotations] /\ m \in Nat /\ n \in Nat
    BY <1>1 DEF TailTyped
  <2>2. watcher' = [w EXCEPT !.read = w.read + m, !.comm = w.comm + n, !.seq = w.seq + n]
    BY <1>0
  <2>3. w.read + m \in Nat /\ w.comm + n \in Nat /\ w.seq + n \in Nat
    BY <2>1
  <2> QED
    BY <2>1, <2>2, <2>3
<1>3. fresh \in Seq(TailRecord)
  BY <1>1, FreshInOrder
<1>4. fate' \in [Fates -> SUBSET (1..MaxLines)]
  BY <1>0, <1>3, LinesTyped DEF TailTyped
<1>5. /\ pending' \in Seq(TailRecord) /\ Len(pending') <= Capacity
      /\ batch' \in Seq(TailRecord) /\ Len(batch') <= BatchSize
      /\ handed' \in Seq(1..MaxLines) /\ pump' \in BOOLEAN /\ full' \in BOOLEAN
  <2>1. CASE fresh = <<>>
    BY <1>0, <2>1 DEF TailTyped
  <2>2. CASE fresh # <<>>
    <3>1. q \in Seq(TailRecord) /\ Len(q) <= Capacity
      BY DEF TailTyped
    <3>2. taken \in Seq(TailRecord) /\ Len(q) + Len(taken) <= Capacity
      BY <1>3, <3>1, AcceptedIsPrefix
    <3>3. q \o taken \in Seq(TailRecord) /\ Len(q \o taken) = Len(q) + Len(taken)
      BY <3>1, <3>2, ConcatProperties
    <3>4. PICK b : b = batch
      OBVIOUS
    <3>5. PICK n \in Nat : Dispatched(q \o taken, b, n)
      BY <1>0, <2>2, <3>3, <3>4, DispatchSplits DEF TailTyped
    <3>6. Len(q \o taken) \in Nat /\ Len(b) <= BatchSize
      BY <3>3, <3>4, LenProperties DEF TailTyped
    <3> QED
      BY <3>2, <3>3, <3>4, <3>5, <3>6, TailConstants DEF Dispatched
  <2> QED
    BY <2>1, <2>2
<1>6. skewed' \in BOOLEAN
  BY Zenon DEF TailRead
<1> QED
  BY <1>0, <1>2, <1>4, <1>5, <1>6 DEF TailTyped

(* The last record of the batch.                                           *)
LEMMA LastTyped ==
  ASSUME TailTyped, batch # <<>>
  PROVE  /\ Last(batch) = batch[Len(batch)] /\ Len(batch) \in DOMAIN batch
         /\ Last(batch) \in TailRecord /\ Last(batch).off \in Nat /\ Last(batch).seq \in Nat
<1> PICK b : b = batch
  OBVIOUS
<1>1. b \in Seq(TailRecord) /\ b # <<>>
  BY DEF TailTyped
<1>2. Len(b) \in Nat \ {0}
  BY <1>1, EmptySeq
<1>3. Len(b) \in DOMAIN b /\ b[Len(b)] \in TailRecord
  BY <1>1, <1>2, LinesTyped
<1> QED
  BY <1>3 DEF Last, TailRecord

LEMMA AckTyped ==
  ASSUME TailTyped, TailAck
  PROVE  TailTyped'
<1> PICK last : last = Last(batch)
  OBVIOUS
<1>1. /\ batch # <<>> /\ UNCHANGED <<file, written, gen, restarts, reading, skewed>>
  BY DEF TailAck, envVars
<1>2. last.off \in Nat /\ last.seq \in Nat /\ Lines(batch) \subseteq 1..MaxLines
  BY <1>1, LastTyped, LinesTyped DEF TailTyped
<1>3. CASE /\ cursor' = [off |-> last.off, seq |-> last.seq]
           /\ watcher' = [watcher EXCEPT !.read = last.off, !.comm = last.off, !.seq = last.seq]
           /\ fate' = [fate EXCEPT !["acked"] = @ \cup Lines(batch)]
           /\ Dispatch(pending, <<>>)
  <2> PICK q : q = pending
    OBVIOUS
  <2>1. q \in Seq(TailRecord) /\ Len(q) <= Capacity /\ <<>> \in Seq(TailRecord) /\ Len(<<>>) = 0
    BY EmptySeq DEF TailTyped
  <2>2. PICK n \in Nat : Dispatched(q, <<>>, n)
    BY <1>3, <2>1, DispatchSplits DEF TailTyped
  <2>3. /\ pending' \in Seq(TailRecord) /\ Len(pending') <= Capacity
        /\ batch' \in Seq(TailRecord) /\ Len(batch') <= BatchSize
        /\ handed' \in Seq(1..MaxLines) /\ pump' \in BOOLEAN /\ full' \in BOOLEAN
    <3>1. Len(q) \in Nat
      BY <2>1, LenProperties
    <3> QED
      BY <2>1, <2>2, <3>1, TailConstants DEF Dispatched
  <2>4. watcher' \in [read : Nat, comm : Nat, seq : Nat, gen : -1..MaxRotations]
    BY <1>2, <1>3 DEF TailTyped
  <2>5. fate' \in [Fates -> SUBSET (1..MaxLines)] /\ cursor' \in [off : Nat, seq : Nat]
    BY <1>2, <1>3 DEF TailTyped
  <2> QED
    BY <1>1, <2>3, <2>4, <2>5 DEF TailTyped, TailReading
<1>4. CASE /\ fate' = [fate EXCEPT !["unacked"] = @ \cup Lines(batch)]
           /\ batch' = <<>>
           /\ UNCHANGED <<cursor, watcher, pending, handed, full, pump>>
  <2>1. fate' \in [Fates -> SUBSET (1..MaxLines)]
    BY <1>2, <1>4 DEF TailTyped
  <2>2. batch' \in Seq(TailRecord) /\ Len(batch') <= BatchSize
    BY <1>4, EmptySeq, TailConstants
  <2> QED
    BY <1>1, <1>4, <2>1, <2>2 DEF TailTyped, TailReading
<1> QED
  BY <1>3, <1>4 DEF TailAck

LEMMA TailStepTyped == TailTyped /\ [TailNext]_tailVars => TailTyped'
<1> SUFFICES ASSUME TailTyped, [TailNext]_tailVars PROVE TailTyped'
  OBVIOUS
<1>e. <<>> \in Seq(TailRecord) /\ <<>> \in Seq(1..MaxLines) /\ <<>> \in Seq(1..written) /\ Len(<<>>) = 0
  BY EmptySeq
<1>1. CASE TailAppend
  <2> PICK w, f : w = written /\ f = file
    OBVIOUS
  <2>1. w \in Nat /\ w < MaxLines /\ f \in Seq(1..w) /\ MaxLines \in Nat
    BY <1>1, TailConstants DEF TailAppend, TailTyped
  <2>2. written' = w + 1 /\ written' \in 0..MaxLines /\ 1..w \subseteq 1..w + 1
    BY <1>1, <2>1 DEF TailAppend
  <2>3. file' \in Seq(1..written')
    <3>1. f \in Seq(1..w + 1) /\ w + 1 \in 1..w + 1
      BY <2>1, <2>2, SeqMonotonic
    <3>2. Append(f, w + 1) \in Seq(1..w + 1)
      BY <3>1, AppendProperties
    <3> QED
      BY <1>1, <2>2, <3>2 DEF TailAppend
  <2>4. reading' = NoRead \/ reading' \in TailReading'
    <3>1. \A s \in Seq(1..w) : s \in Seq(1..w + 1)
      BY <2>2, SeqMonotonic
    <3> QED
      BY <1>1, <2>2, <3>1 DEF TailAppend, TailTyped, TailReading
  <2> QED
    BY <1>1, <2>2, <2>3, <2>4 DEF TailAppend, TailTyped
<1>2. CASE TailRotate
  BY <1>2, <1>e, TailConstants DEF TailRotate, TailTyped, TailReading
<1>3. CASE TailPoll
  BY <1>3, ReadFromTyped, TailConstants DEF TailPoll, TailTyped
<1>4. CASE TailPump
  <2>1. pump' \in BOOLEAN /\ BatchSize \in Nat
    BY <1>4, TailConstants DEF TailPump
  <2>2. CASE ReadFrom(BatchSize)
    BY <2>1, <2>2, ReadFromTyped
  <2>3. CASE UNCHANGED <<envVars, watcher, reading, known, pending, full, batch, cursor, fate, handed, skewed>>
    BY <2>1, <2>3 DEF TailTyped, TailReading, envVars
  <2> QED
    BY <1>4, <2>2, <2>3 DEF TailPump
<1>5. CASE TailRead
  BY <1>5, ReadTyped
<1>6. CASE TailAck
  BY <1>6, AckTyped
<1>7. CASE TailThrow
  <2>1. fate' \in [Fates -> SUBSET (1..MaxLines)]
    <3>1. Lines(batch) \subseteq 1..MaxLines
      BY LinesTyped DEF TailTyped
    <3> QED
      BY <1>7, <3>1 DEF TailThrow, TailTyped
  <2>2. batch' \in Seq(TailRecord) /\ Len(batch') <= BatchSize
    BY <1>7, <1>e, TailConstants DEF TailThrow
  <2> QED
    BY <1>7, <2>1, <2>2 DEF TailThrow, TailTyped, TailReading, envVars
<1>8. CASE TailRestart
  <2>1. watcher' \in [read : Nat, comm : Nat, seq : Nat, gen : -1..MaxRotations]
    BY <1>8, TailConstants DEF TailRestart, Attached, TailTyped
  <2>2. /\ pending' \in Seq(TailRecord) /\ Len(pending') <= Capacity
        /\ batch' \in Seq(TailRecord) /\ Len(batch') <= BatchSize /\ handed' \in Seq(1..MaxLines)
    BY <1>8, <1>e, TailConstants DEF TailRestart
  <2>3. restarts' \in 0..MaxRestarts
    BY <1>8, TailConstants DEF TailRestart, TailTyped
  <2> QED
    BY <1>8, <2>1, <2>2, <2>3 DEF TailRestart, TailTyped
<1>9. CASE UNCHANGED tailVars
  BY <1>9 DEF tailVars, TailTyped, TailReading
<1> QED
  BY <1>1, <1>2, <1>3, <1>4, <1>5, <1>6, <1>7, <1>8, <1>9 DEF TailNext

(* As long as the file was not rotated it holds the lines from the first,  *)
(* and a read that is awaited got the lines that follow where it started.  *)
FileInv ==
  gen = 0 =>
    /\ Len(file) = written /\ \A i \in 1..written : file[i] = i
    /\ watcher.gen \in {-1, 0}
    /\ reading # NoRead =>
         /\ reading.from + Len(reading.lines) <= written
         /\ \A i \in 1..Len(reading.lines) : reading.lines[i] = reading.from + i

(* A queue q behind a batch b: in the order of the file, and behind        *)
(* everything that was handed out; each record at the place of its line.   *)
Rising(s) == \A i, j \in DOMAIN s : i < j => s[i].line < s[j].line
Lined(q, b) ==
  /\ Rising(q) /\ Rising(b)
  /\ \A i \in DOMAIN b, j \in DOMAIN q : b[i].line < q[j].line
  /\ \A k \in DOMAIN handed, j \in DOMAIN q : handed[k] < q[j].line
  /\ \A i, j \in DOMAIN handed : i < j => handed[i] < handed[j]

Placed(s) == \A i \in DOMAIN s : s[i].off = s[i].line /\ s[i].seq = s[i].line

LEMMA DispatchKeeps ==
  ASSUME NEW q \in Seq(TailRecord), NEW b \in Seq(TailRecord), NEW n \in Nat,
         handed \in Seq(1..MaxLines), Dispatched(q, b, n),
         Lined(q, b), Placed(q), Placed(b)
  PROVE  /\ Lined(pending, batch)' /\ Placed(pending)' /\ Placed(batch)'
         /\ Lines(pending)' \cup Lines(batch)' = Lines(q) \cup Lines(b)
         /\ \A k \in DOMAIN handed' :
              handed'[k] \in Lines(q) \/ \E m \in DOMAIN handed : handed'[k] = handed[m]
         /\ batch' # b => Lines(batch)' \subseteq Lines(q)
<1> PICK p, bb, h, g : p = pending' /\ bb = batch' /\ h = handed' /\ g = handed
  OBVIOUS
<1>1. /\ p \in Seq(TailRecord) /\ bb \in Seq(TailRecord) /\ h \in Seq(1..MaxLines) /\ g \in Seq(1..MaxLines)
      /\ n \in 0..Len(q) /\ (b # <<>> => n = 0)
      /\ Len(p) = Len(q) - n /\ \A k \in 1..Len(q) - n : p[k] = q[n + k]
      /\ n = 0 => bb = b
      /\ n # 0 => Len(bb) = n /\ \A k \in 1..n : bb[k] = q[k]
      /\ Len(h) = Len(g) + n
      /\ \A k \in 1..Len(g) : h[k] = g[k]
      /\ \A k \in 1..n : h[Len(g) + k] = q[k].line
  BY DEF Dispatched
<1>2. /\ DOMAIN q = 1..Len(q) /\ Len(q) \in Nat /\ DOMAIN p = 1..Len(q) - n
      /\ DOMAIN h = 1..Len(g) + n /\ DOMAIN g = 1..Len(g) /\ Len(g) \in Nat
      /\ n # 0 => DOMAIN bb = 1..n /\ DOMAIN b = {}
  <2>1. DOMAIN q = 1..Len(q) /\ Len(q) \in Nat /\ DOMAIN p = 1..Len(p)
    BY <1>1, LenProperties
  <2>2. DOMAIN h = 1..Len(h) /\ DOMAIN g = 1..Len(g) /\ Len(g) \in Nat /\ DOMAIN bb = 1..Len(bb)
    BY <1>1, LenProperties
  <2>3. n # 0 => b = <<>> /\ DOMAIN b = {}
    BY <1>1
  <2> QED
    BY <1>1, <2>1, <2>2, <2>3
<1>n. n \in Nat /\ n <= Len(q) /\ 1..n \subseteq 1..Len(q)
  BY <1>1, <1>2
<1>3. \A j \in DOMAIN p : n + j \in DOMAIN q /\ p[j] = q[n + j]
  <2> SUFFICES ASSUME NEW j \in DOMAIN p PROVE n + j \in DOMAIN q /\ p[j] = q[n + j]
    OBVIOUS
  <2>1. j \in 1..Len(q) - n
    BY <1>2
  <2>2. n + j \in 1..Len(q)
    BY <1>2, <1>n, <2>1
  <2> QED
    BY <1>1, <1>2, <2>1, <2>2
<1>4. \A j \in DOMAIN q : j \in 1..n \/ (j - n \in DOMAIN p /\ p[j - n] = q[j])
  <2> SUFFICES ASSUME NEW j \in DOMAIN q, j \notin 1..n PROVE j - n \in DOMAIN p /\ p[j - n] = q[j]
    OBVIOUS
  <2>0. j \in 1..Len(q)
    BY <1>2
  <2>1. j - n \in 1..Len(q) - n /\ n + (j - n) = j
    BY <1>2, <1>n, <2>0
  <2> QED
    BY <1>2, <1>3, <2>1
<1>5. \A k \in DOMAIN h : k \in DOMAIN g \/ (k - Len(g) \in 1..n /\ h[k] = q[k - Len(g)].line)
  <2> SUFFICES ASSUME NEW k \in DOMAIN h, k \notin DOMAIN g
               PROVE  k - Len(g) \in 1..n /\ h[k] = q[k - Len(g)].line
    OBVIOUS
  <2>0. k \in 1..Len(g) + n /\ k \notin 1..Len(g)
    BY <1>2
  <2>1. k - Len(g) \in 1..n /\ Len(g) + (k - Len(g)) = k
    BY <1>2, <1>n, <2>0
  <2> QED
    BY <1>1, <2>1
<1>6. 1..n \subseteq DOMAIN q /\ \A i \in 1..n : q[i] \in TailRecord /\ q[i].line \in Nat
  <2>1. \A i \in DOMAIN q : q[i] \in TailRecord
    BY LinesTyped
  <2>2. 1..n \subseteq DOMAIN q
    BY <1>2, <1>n
  <2>3. \A r \in TailRecord : r.line \in Nat
    BY TailConstants DEF TailRecord
  <2> QED
    BY <2>1, <2>2, <2>3
<1>7. Rising(p) /\ Placed(p) /\ Placed(bb)
  <2>1. Rising(p)
    <3> SUFFICES ASSUME NEW i \in DOMAIN p, NEW j \in DOMAIN p, i < j PROVE p[i].line < p[j].line
      BY DEF Rising
    <3>1. n + i \in DOMAIN q /\ n + j \in DOMAIN q /\ n + i < n + j
      BY <1>2, <1>3
    <3> QED
      BY <1>3, <3>1 DEF Lined, Rising
  <2>2. Placed(p)
    BY <1>3 DEF Placed
  <2>3. Placed(bb)
    <3>1. CASE n = 0
      BY <1>1, <3>1
    <3>2. CASE n # 0
      BY <1>1, <1>2, <1>6, <3>2 DEF Placed
    <3> QED
      BY <3>1, <3>2
  <2> QED
    BY <2>1, <2>2, <2>3
<1>8. Rising(bb) /\ \A i \in DOMAIN bb, j \in DOMAIN p : bb[i].line < p[j].line
  <2>1. CASE n = 0
    BY <1>1, <1>3, <2>1 DEF Lined
  <2>2. CASE n # 0
    <3>1. Rising(bb)
      BY <1>1, <1>2, <1>6, <2>2 DEF Lined, Rising
    <3>2. ASSUME NEW i \in DOMAIN bb, NEW j \in DOMAIN p PROVE bb[i].line < p[j].line
      <4>1. i \in DOMAIN q /\ n + j \in DOMAIN q /\ i < n + j /\ bb[i] = q[i] /\ p[j] = q[n + j]
        BY <1>1, <1>2, <1>3, <1>6, <2>2
      <4> QED
        BY <4>1 DEF Lined, Rising
    <3> QED
      BY <3>1, <3>2
  <2> QED
    BY <2>1, <2>2
<1>9. \A k \in DOMAIN h, j \in DOMAIN p : h[k] < p[j].line
  <2> SUFFICES ASSUME NEW k \in DOMAIN h, NEW j \in DOMAIN p PROVE h[k] < p[j].line
    OBVIOUS
  <2>1. CASE k \in DOMAIN g
    BY <1>1, <1>2, <1>3, <2>1 DEF Lined
  <2>2. CASE k \notin DOMAIN g
    <3> PICK i \in 1..n : i = k - Len(g) /\ h[k] = q[i].line
      BY <1>5, <2>2
    <3>1. i \in DOMAIN q /\ n + j \in DOMAIN q /\ i < n + j
      BY <1>2, <1>3, <1>6
    <3> QED
      BY <1>3, <3>1 DEF Lined, Rising
  <2> QED
    BY <2>1, <2>2
<1>10. \A i, j \in DOMAIN h : i < j => h[i] < h[j]
  <2> SUFFICES ASSUME NEW i \in DOMAIN h, NEW j \in DOMAIN h, i < j PROVE h[i] < h[j]
    OBVIOUS
  <2>1. CASE j \in DOMAIN g
    <3>1. i \in DOMAIN g
      BY <1>2, <2>1
    <3> QED
      BY <1>1, <1>2, <2>1, <3>1 DEF Lined
  <2>2. CASE j \notin DOMAIN g
    <3> PICK m \in 1..n : m = j - Len(g) /\ h[j] = q[m].line
      BY <1>5, <2>2
    <3>1. m \in DOMAIN q
      BY <1>6
    <3>2. CASE i \in DOMAIN g
      <4>1. h[i] = g[i] /\ g[i] < q[m].line
        BY <1>1, <1>2, <3>1, <3>2 DEF Lined
      <4> QED
        BY <4>1
    <3>3. CASE i \notin DOMAIN g
      <4> PICK l \in 1..n : l = i - Len(g) /\ h[i] = q[l].line
        BY <1>5, <3>3
      <4>1. l \in DOMAIN q /\ l < m
        BY <1>2, <1>6
      <4> QED
        BY <3>1, <4>1 DEF Lined, Rising
    <3> QED
      BY <3>2, <3>3
  <2> QED
    BY <2>1, <2>2
<1>11. Lines(p) \cup Lines(bb) = Lines(q) \cup Lines(b)
  <2>1. Lines(p) \subseteq Lines(q)
    BY <1>3 DEF Lines
  <2>2. CASE n = 0
    <3>1. \A j \in DOMAIN q : j - n \in DOMAIN p /\ p[j - n] = q[j]
      BY <1>4, <2>2
    <3>2. Lines(q) \subseteq Lines(p)
      BY <3>1 DEF Lines
    <3> QED
      BY <1>1, <2>1, <2>2, <3>2
  <2>3. CASE n # 0
    <3>1. Lines(b) = {} /\ Lines(bb) = {q[k].line : k \in 1..n}
      <4>1. DOMAIN b = {} /\ DOMAIN bb = 1..n /\ \A k \in 1..n : bb[k] = q[k]
        BY <1>1, <1>2, <2>3
      <4> QED
        BY <4>1 DEF Lines
    <3>2. Lines(bb) \subseteq Lines(q)
      BY <1>6, <3>1 DEF Lines
    <3>3. ASSUME NEW j \in DOMAIN q PROVE q[j].line \in Lines(p) \cup Lines(bb)
      BY <1>4, <3>1 DEF Lines
    <3>4. Lines(q) \subseteq Lines(p) \cup Lines(bb)
      BY <3>3 DEF Lines
    <3> QED
      BY <2>1, <3>1, <3>2, <3>4
  <2> QED
    BY <2>2, <2>3
<1>12. ASSUME NEW k \in DOMAIN h PROVE h[k] \in Lines(q) \/ \E m \in DOMAIN g : h[k] = g[m]
  <2>1. CASE k \in DOMAIN g
    BY <1>1, <1>2, <2>1
  <2>2. CASE k \notin DOMAIN g
    BY <1>5, <1>6, <2>2 DEF Lines
  <2> QED
    BY <2>1, <2>2
<1>13. bb # b => Lines(bb) \subseteq Lines(q)
  <2> SUFFICES ASSUME bb # b PROVE Lines(bb) \subseteq Lines(q)
    OBVIOUS
  <2>1. n # 0 /\ DOMAIN bb = 1..n /\ \A k \in 1..n : bb[k] = q[k]
    BY <1>1, <1>2
  <2> QED
    BY <1>6, <2>1 DEF Lines
<1>14. Lined(pending, batch)' /\ Placed(pending)' /\ Placed(batch)'
  BY <1>7, <1>8, <1>9, <1>10 DEF Lined, Placed, Rising
<1>15. Lines(pending)' = Lines(p) /\ Lines(batch)' = Lines(bb)
  BY DEF Lines
<1> QED
  BY <1>11, <1>12, <1>13, <1>14, <1>15

Settled == fate["acked"] \cup fate["dead"] \cup fate["refused"]
InHand == Lines(pending) \cup Lines(batch)

(* hi is the last line the deduplicator knows: what follows the cursor up  *)
(* to hi is known, and everything up to hi is settled or in hand.          *)
KnownTo(hi) ==
  /\ cursor.off <= watcher.comm /\ watcher.comm <= hi /\ hi <= written
  /\ known.texts \subseteq 1..hi /\ cursor.off + 1 .. hi \subseteq known.texts
  /\ known.places \subseteq {<<i, i>> : i \in 1..hi}
  /\ 1..hi \subseteq Settled \cup InHand
  /\ \A l \in InHand : cursor.off < l /\ l <= hi
  /\ \A k \in DOMAIN handed : handed[k] <= hi

Orderly ==
  /\ cursor.seq = cursor.off /\ watcher.seq = watcher.comm
  /\ Lined(pending, batch) /\ Placed(pending) /\ Placed(batch)
  /\ fate["acked"] \subseteq 1..cursor.off
  /\ \E hi \in Nat : KnownTo(hi)

CalmInv == gen = 0 /\ ~skewed => Orderly

TailInv == TailTyped /\ FileInv /\ CalmInv

LEMMA InitTail == TailInit => TailInv
<1> SUFFICES ASSUME TailInit PROVE TailInv
  OBVIOUS
<1>1. TailTyped
  BY TailInitTyped
<1>2. FileInv
  BY DEF TailInit, FileInv, Attached
<1>3. Orderly
  <2>1. DOMAIN <<>> = {}
    OBVIOUS
  <2>2. Lines(pending) = {} /\ Lines(batch) = {}
    BY <2>1 DEF TailInit, Lines
  <2>3. KnownTo(0)
    BY <2>1, <2>2 DEF TailInit, KnownTo, Attached, InHand
  <2> QED
    BY <2>1, <2>3 DEF TailInit, Orderly, Lined, Placed, Rising, Attached, Fates
<1> QED
  BY <1>1, <1>2, <1>3 DEF TailInv, CalmInv

(* Steps that leave the queue, the handler and the cursor alone.           *)
LEMMA CalmFrame ==
  ASSUME CalmInv, UNCHANGED <<gen, skewed, known, pending, batch, handed, cursor, fate>>,
         written \in Nat, written' \in Nat, written <= written',
         gen = 0 => watcher'.comm = watcher.comm /\ watcher'.seq = watcher.seq
  PROVE  CalmInv'
<1> SUFFICES ASSUME gen' = 0, ~skewed' PROVE Orderly'
  BY DEF CalmInv
<1>1. Orderly /\ watcher'.comm = watcher.comm /\ watcher'.seq = watcher.seq
  BY DEF CalmInv
<1>2. PICK hi \in Nat : KnownTo(hi)
  BY <1>1 DEF Orderly
<1>3. KnownTo(hi)'
  BY <1>1, <1>2 DEF KnownTo, Settled, InHand, Lines
<1> QED
  BY <1>1, <1>3 DEF Orderly, Lined, Placed, Rising

LEMMA AppendKeeps ==
  ASSUME TailInv, TailAppend
  PROVE  FileInv' /\ CalmInv'
<1> PICK w, f : w = written /\ f = file
  OBVIOUS
<1>0. w \in Nat /\ f \in Seq(1..w) /\ written' = w + 1 /\ file' = Append(f, w + 1)
  BY DEF TailInv, TailTyped, TailAppend
<1>1. Len(file') = Len(f) + 1 /\ (\A i \in 1..Len(f) : file'[i] = f[i]) /\ file'[Len(f) + 1] = w + 1
  <2>1. f \in Seq(Nat) /\ w + 1 \in Nat
    BY <1>0, SeqMonotonic
  <2> QED
    BY <1>0, <2>1, AppendProperties
<1>2. FileInv'
  <2> SUFFICES ASSUME gen' = 0 PROVE FileInv'
    BY DEF FileInv
  <2>1. /\ Len(f) = w /\ (\A i \in 1..w : f[i] = i) /\ watcher.gen \in {-1, 0}
        /\ reading # NoRead =>
             /\ reading.from + Len(reading.lines) <= w
             /\ \A i \in 1..Len(reading.lines) : reading.lines[i] = reading.from + i
    BY DEF TailAppend, TailInv, FileInv
  <2>2. reading # NoRead => reading.from + Len(reading.lines) <= w + 1
    <3>1. reading # NoRead => reading.from \in Nat /\ Len(reading.lines) \in Nat
      BY LenProperties DEF TailInv, TailTyped, TailReading
    <3> QED
      BY <1>0, <2>1, <3>1
  <2>3. UNCHANGED <<watcher, reading>>
    BY DEF TailAppend
  <2>4. \A i \in 1..w + 1 : file'[i] = i
    BY <1>0, <1>1, <2>1
  <2> QED
    BY <1>0, <1>1, <2>1, <2>2, <2>3, <2>4 DEF FileInv
<1>3. CalmInv'
  <2>1. UNCHANGED <<gen, watcher, skewed, known, pending, batch, handed, cursor, fate>>
    BY DEF TailAppend
  <2> QED
    BY <1>0, <2>1, CalmFrame DEF TailInv
<1> QED
  BY <1>2, <1>3

LEMMA ReadFromKeeps ==
  ASSUME TailInv, NEW limit \in Nat, ReadFrom(limit)
  PROVE  FileInv' /\ CalmInv'
<1>1. /\ reading = NoRead /\ watcher' = Probed
      /\ UNCHANGED <<file, written, gen, known, pending, batch, cursor, fate, handed, skewed>>
  BY DEF ReadFrom, envVars
<1>2. gen = 0 => /\ watcher'.read = watcher.read /\ watcher'.comm = watcher.comm
                 /\ watcher'.seq = watcher.seq /\ watcher'.gen = 0
  BY <1>1 DEF TailInv, FileInv, TailTyped, Probed
<1>3. FileInv'
  <2> SUFFICES ASSUME gen = 0 PROVE FileInv'
    BY <1>1 DEF FileInv
  <2> PICK f, w, m : f = file /\ w = written /\ m = watcher.read
    OBVIOUS
  <2>1. /\ Len(f) = w /\ (\A i \in 1..w : f[i] = i) /\ w \in Nat /\ m \in Nat /\ f \in Seq(1..w)
    <3>1. w \in Nat /\ m \in Nat /\ f \in Seq(1..w)
      BY DEF TailInv, TailTyped
    <3>2. Len(f) = w /\ (\A i \in 1..w : f[i] = i)
      BY DEF TailInv, FileInv
    <3> QED
      BY <3>1, <3>2
  <2>2. CASE reading' = reading
    BY <1>1, <1>2, <2>1, <2>2 DEF FileInv
  <2>3. CASE reading' # reading
    <3>1. PICK u \in m + 1 .. Len(f) :
            reading' = [from |-> m, limit |-> limit, lines |-> SubSeq(f, m + 1, u)]
      BY <1>2, <2>3 DEF ReadFrom
    <3> PICK s : s = SubSeq(f, m + 1, u)
      OBVIOUS
    <3>2. /\ Len(s) = u - m /\ \A i \in 1..u - m : s[i] = m + i
      <4>0. u \in Nat /\ m + 1 <= u /\ u <= w
        BY <2>1
      <4>k. PICK k : k = m + 1
        OBVIOUS
      <4>1. f \in Seq(1..w) /\ k \in Int /\ u \in Int /\ \A i \in k..u : f[i] \in 1..w
        BY <2>1, <4>0, <4>k
      <4>2. /\ Len(SubSeq(f, k, u)) = IF k <= u THEN u - k + 1 ELSE 0
            /\ \A i \in 1 .. u - k + 1 : SubSeq(f, k, u)[i] = f[k + i - 1]
        BY <4>1, SubSeqProperties
      <4>3. Len(s) = u - m
        BY <2>1, <4>0, <4>2, <4>k
      <4>4. ASSUME NEW i \in 1..u - m PROVE s[i] = m + i
        <5>0. m \in Nat /\ w \in Nat /\ u \in Nat /\ u <= w /\ i \in Nat /\ 1 <= i /\ i <= u - m
          BY <2>1, <4>0
        <5>1. i \in 1 .. u - k + 1
          BY <4>k, <5>0
        <5>3. k + i - 1 = m + i
          BY <4>k, <5>0
        <5>4. m + i \in 1..w
          BY <5>0
        <5>2. s[i] = f[k + i - 1]
          BY <4>2, <4>k, <5>1
        <5> QED
          BY <2>1, <5>2, <5>3, <5>4
      <4> QED
        BY <4>3, <4>4
    <3>3. m + (u - m) <= w
      BY <2>1
    <3>4. reading'.from = m /\ reading'.lines = s
      BY <3>1
    <3> QED
      BY <1>1, <1>2, <2>1, <3>2, <3>3, <3>4 DEF FileInv
  <2> QED
    BY <2>2, <2>3
<1>4. CalmInv'
  BY <1>1, <1>2, CalmFrame DEF TailInv, TailTyped
<1> QED
  BY <1>3, <1>4

LEMMA ThrowKeeps ==
  ASSUME TailInv, TailThrow
  PROVE  FileInv' /\ CalmInv'
<1>1. /\ fate' = [fate EXCEPT !["dead"] = @ \cup Lines(batch)] /\ batch' = <<>>
      /\ UNCHANGED <<file, written, gen, watcher, reading, known, pending, cursor, handed, skewed>>
  BY DEF TailThrow, envVars
<1>2. FileInv'
  BY <1>1 DEF TailInv, FileInv
<1>3. CalmInv'
  <2> SUFFICES ASSUME gen' = 0, ~skewed' PROVE Orderly'
    BY DEF CalmInv
  <2>1. Orderly
    BY <1>1 DEF TailInv, CalmInv
  <2>2. PICK hi \in Nat : KnownTo(hi)
    BY <2>1 DEF Orderly
  <2>3. Lines(pending)' = Lines(pending) /\ Lines(batch)' = {} /\ DOMAIN batch' = {}
    BY <1>1 DEF Lines
  <2>4. fate'["acked"] = fate["acked"] /\ Settled' = Settled \cup Lines(batch)
    BY <1>1 DEF TailInv, TailTyped, Settled, Fates
  <2>5. KnownTo(hi)'
    BY <1>1, <2>2, <2>3, <2>4 DEF KnownTo, InHand
  <2> QED
    BY <1>1, <2>1, <2>3, <2>4, <2>5 DEF Orderly, Lined, Placed, Rising
<1> QED
  BY <1>2, <1>3

LEMMA RestartKeeps ==
  ASSUME TailInv, TailRestart
  PROVE  FileInv' /\ CalmInv'
<1>1. /\ watcher' = Attached(cursor) /\ reading' = NoRead
      /\ known' = [texts |-> {}, places |-> {}] /\ pending' = <<>> /\ batch' = <<>> /\ handed' = <<>>
      /\ UNCHANGED <<file, written, gen, cursor, fate, skewed>>
  BY DEF TailRestart
<1>2. FileInv'
  BY <1>1 DEF TailInv, FileInv, Attached
<1>3. CalmInv'
  <2> SUFFICES ASSUME gen' = 0, ~skewed' PROVE Orderly'
    BY DEF CalmInv
  <2>1. Orderly
    BY <1>1 DEF TailInv, CalmInv
  <2>2. PICK hi \in Nat : KnownTo(hi)
    BY <2>1 DEF Orderly
  <2>3. DOMAIN pending' = {} /\ DOMAIN batch' = {} /\ DOMAIN handed' = {}
        /\ Lines(pending)' = {} /\ Lines(batch)' = {}
    BY <1>1 DEF Lines
  <2>4. 1..cursor.off \subseteq Settled
    <3> SUFFICES ASSUME NEW i \in 1..cursor.off PROVE i \in Settled
      OBVIOUS
    <3>1. cursor.off \in Nat /\ watcher.comm \in Nat /\ cursor.off <= hi
      BY <2>2 DEF TailInv, TailTyped, KnownTo
    <3>2. i \in 1..hi /\ ~(cursor.off < i)
      BY <3>1
    <3> QED
      BY <2>2, <3>2 DEF KnownTo
  <2>5. cursor.off \in Nat /\ cursor.off <= written /\ Settled' = Settled
    BY <1>1, <2>2 DEF TailInv, TailTyped, KnownTo, Settled
  <2>6. watcher'.comm = cursor.off /\ watcher'.seq = cursor.seq
    BY <1>1 DEF Attached
  <2>7. \E hi2 \in Nat : KnownTo(hi2)'
    <3> PICK c : c = cursor.off
      OBVIOUS
    <3>1. c \in Nat /\ c + 1 .. c = {}
      BY <2>5
    <3>2. KnownTo(c)'
      BY <1>1, <2>3, <2>4, <2>5, <2>6, <3>1 DEF KnownTo, InHand
    <3> QED
      BY <3>1, <3>2
  <2> QED
    BY <1>1, <2>1, <2>3, <2>6, <2>7 DEF Orderly, Lined, Placed, Rising
<1> QED
  BY <1>2, <1>3

LEMMA AckKeeps ==
  ASSUME TailInv, TailAck
  PROVE  FileInv' /\ CalmInv'
<1> PICK q, b, last : q = pending /\ b = batch /\ last = Last(batch)
  OBVIOUS
<1>1. b # <<>> /\ UNCHANGED <<file, written, gen, restarts, reading, known, skewed>>
  BY DEF TailAck, envVars
<1>2. /\ q \in Seq(TailRecord) /\ b \in Seq(TailRecord) /\ Len(b) \in DOMAIN b /\ Len(b) \in Nat
      /\ last = b[Len(b)] /\ last.off \in Nat /\ last.seq \in Nat /\ DOMAIN b = 1..Len(b)
      /\ \A i \in DOMAIN b : b[i] \in TailRecord
  BY <1>1, LastTyped, LinesTyped DEF TailInv, TailTyped
<1>3. FileInv'
  <2>1. watcher'.gen = watcher.gen
    BY <1>1 DEF TailAck, TailInv, TailTyped
  <2> QED
    BY <1>1, <2>1 DEF TailInv, FileInv
<1>4. CalmInv'
  <2> SUFFICES ASSUME gen' = 0, ~skewed' PROVE Orderly'
    BY DEF CalmInv
  <2>1. Orderly
    BY <1>1 DEF TailInv, CalmInv
  <2>2. PICK hi \in Nat : KnownTo(hi)
    BY <2>1 DEF Orderly
  <2>n. PICK l : l = last.line
    OBVIOUS
  <2>3. /\ last.off = l /\ last.seq = l /\ l \in Nat /\ l \in Lines(b)
        /\ cursor.off < l /\ cursor.seq < l /\ l <= hi /\ cursor.off \in Nat
    <3>1. last.off = l /\ last.seq = l /\ l \in Lines(b)
      BY <1>2, <2>1, <2>n DEF Orderly, Placed, Lines
    <3>2. cursor.off < l /\ l <= hi /\ cursor.seq = cursor.off /\ cursor.off \in Nat
      BY <2>1, <2>2, <3>1 DEF Orderly, KnownTo, InHand, TailInv, TailTyped
    <3> QED
      BY <1>2, <3>1, <3>2
  <2>4. /\ cursor' = [off |-> last.off, seq |-> last.seq]
        /\ watcher' = [watcher EXCEPT !.read = last.off, !.comm = last.off, !.seq = last.seq]
        /\ fate' = [fate EXCEPT !["acked"] = @ \cup Lines(b)]
        /\ Dispatch(q, <<>>)
    <3>1. ~(last.off < cursor.off) /\ ~(last.seq < cursor.seq)
      <4>1. cursor.off \in Nat /\ cursor.seq \in Nat
        BY DEF TailInv, TailTyped
      <4> QED
        BY <2>3, <4>1
    <3> QED
      BY <3>1 DEF TailAck
  <2>5. cursor'.off = l /\ cursor'.seq = l /\ watcher'.comm = l /\ watcher'.seq = l
    BY <2>3, <2>4 DEF TailInv, TailTyped
  <2>6. \A x \in Lines(b) : x \in 1..l
    <3> SUFFICES ASSUME NEW i \in DOMAIN b PROVE b[i].line \in 1..l
      BY DEF Lines
    <3>1. b[i].line \in Nat /\ 1 <= b[i].line
      BY <1>2, TailConstants DEF TailRecord
    <3>2. b[i].line <= l
      <4>1. CASE i = Len(b)
        BY <1>2, <2>n, <3>1, <4>1
      <4>2. CASE i < Len(b)
        BY <1>2, <2>1, <2>3, <2>n, <3>1, <4>2 DEF Orderly, Lined, Rising
      <4> QED
        BY <1>2, <4>1, <4>2
    <3> QED
      BY <2>3, <3>1, <3>2
  <2>7. \A x \in Lines(q) : l < x
    BY <1>2, <2>1, <2>n DEF Orderly, Lined, Lines
  <2>e. <<>> \in Seq(TailRecord) /\ DOMAIN <<>> = {} /\ handed \in Seq(1..MaxLines)
    BY EmptySeq DEF TailInv, TailTyped
  <2>8. PICK n \in Nat : Dispatched(q, <<>>, n)
    BY <1>2, <2>4, <2>e, DispatchSplits
  <2>9. Lined(q, <<>>) /\ Placed(q) /\ Placed(<<>>) /\ Lines(<<>>) = {}
    BY <2>1, <2>e DEF Orderly, Lined, Rising, Placed, Lines
  <2>10. /\ Lined(pending, batch)' /\ Placed(pending)' /\ Placed(batch)'
         /\ InHand' = Lines(q)
         /\ \A k \in DOMAIN handed' :
              handed'[k] \in Lines(q) \/ \E m \in DOMAIN handed : handed'[k] = handed[m]
    BY <1>2, <2>8, <2>9, <2>e, DispatchKeeps DEF InHand
  <2>11. fate'["acked"] = fate["acked"] \cup Lines(b) /\ Settled' = Settled \cup Lines(b)
    BY <2>4 DEF TailInv, TailTyped, Settled, Fates
  <2>12. KnownTo(hi)'
    <3>1. /\ l <= hi /\ hi <= written' /\ known'.texts \subseteq 1..hi
          /\ known'.places \subseteq {<<i, i>> : i \in 1..hi}
      BY <1>1, <2>2, <2>3 DEF KnownTo
    <3>2. l + 1 .. hi \subseteq known'.texts
      <4> SUFFICES ASSUME NEW x \in l + 1 .. hi PROVE x \in known'.texts
        OBVIOUS
      <4>1. x \in cursor.off + 1 .. hi
        BY <2>3
      <4> QED
        BY <1>1, <2>2, <4>1 DEF KnownTo
    <3>3. 1..hi \subseteq Settled' \cup InHand'
      BY <2>2, <2>10, <2>11 DEF KnownTo, InHand
    <3>4. \A x \in InHand' : l < x /\ x <= hi
      BY <2>2, <2>7, <2>10 DEF KnownTo, InHand
    <3>5. \A k \in DOMAIN handed' : handed'[k] <= hi
      BY <2>2, <2>10 DEF KnownTo, InHand
    <3>6. cursor'.off <= watcher'.comm /\ watcher'.comm <= hi
      BY <2>3, <2>5
    <3> QED
      BY <2>5, <3>1, <3>2, <3>3, <3>4, <3>5, <3>6 DEF KnownTo
  <2>13. fate'["acked"] \subseteq 1..l
    <3> SUFFICES ASSUME NEW x \in fate["acked"] PROVE x \in 1..l
      BY <2>6, <2>11
    <3>1. x \in 1..cursor.off
      BY <2>1 DEF Orderly
    <3> QED
      BY <2>3, <3>1
  <2> QED
    BY <2>5, <2>10, <2>12, <2>13 DEF Orderly
<1> QED
  BY <1>3, <1>4

(* New records go behind everything that is queued or handed out.          *)
UpTo(q, b, hi) ==
  /\ \A x \in Lines(q) \cup Lines(b) : x <= hi
  /\ \A k \in DOMAIN handed : handed[k] <= hi
Beyond(t, hi) == \A x \in Lines(t) : hi < x

LEMMA QueueGrows ==
  ASSUME NEW q \in Seq(TailRecord), NEW b \in Seq(TailRecord), NEW t \in Seq(TailRecord),
         NEW hi \in Nat, Lined(q, b), Placed(q), Placed(t), Rising(t),
         handed \in Seq(1..MaxLines),
         UpTo(q, b, hi), Beyond(t, hi)
  PROVE  /\ q \o t \in Seq(TailRecord) /\ Lined(q \o t, b) /\ Placed(q \o t)
         /\ Lines(q \o t) = Lines(q) \cup Lines(t)
<1> PICK c, m, n, g : c = q \o t /\ m = Len(q) /\ n = Len(t) /\ g = handed
  OBVIOUS
<1>1. /\ c \in Seq(TailRecord) /\ Len(c) = m + n
      /\ \A k \in 1..m : c[k] = q[k]
      /\ \A k \in 1..n : c[m + k] = t[k]
  BY ConcatParts
<1>2. /\ m \in Nat /\ n \in Nat /\ DOMAIN q = 1..m /\ DOMAIN t = 1..n /\ DOMAIN c = 1..m + n
      /\ g \in Seq(1..MaxLines)
  BY <1>1, LenProperties
<1>3. /\ \A i \in DOMAIN q : q[i].line \in Nat /\ q[i].line <= hi
      /\ \A i \in DOMAIN t : t[i].line \in Nat /\ hi < t[i].line
      /\ \A i \in DOMAIN b : b[i].line \in Nat /\ b[i].line <= hi
      /\ \A k \in DOMAIN g : g[k] \in Nat /\ g[k] <= hi
  <2>1. \A r \in TailRecord : r.line \in Nat
    BY TailConstants DEF TailRecord
  <2>2. /\ \A i \in DOMAIN q : q[i].line \in Nat
        /\ \A i \in DOMAIN t : t[i].line \in Nat
        /\ \A i \in DOMAIN b : b[i].line \in Nat
    BY <2>1, LinesTyped
  <2>3. \A k \in DOMAIN g : g[k] \in Nat
    BY <1>2, ElementOfSeq, LenProperties, TailConstants
  <2> QED
    BY <2>2, <2>3 DEF Lines, UpTo, Beyond
<1>4. \A j \in DOMAIN c : \/ j \in DOMAIN q /\ c[j] = q[j]
                          \/ j - m \in DOMAIN t /\ c[j] = t[j - m] /\ j \notin DOMAIN q
  <2> SUFFICES ASSUME NEW j \in DOMAIN c, j \notin DOMAIN q
               PROVE  j - m \in DOMAIN t /\ c[j] = t[j - m]
    BY <1>1, <1>2
  <2>0. j \in Nat /\ 1 <= j /\ j <= m + n /\ ~(j <= m)
    BY <1>2
  <2>1. j - m \in 1..n /\ m + (j - m) = j
    BY <1>2, <2>0
  <2> QED
    BY <1>1, <1>2, <2>1
<1>5. \A i \in DOMAIN t : m + i \in DOMAIN c /\ c[m + i] = t[i]
  <2> SUFFICES ASSUME NEW i \in 1..n PROVE m + i \in 1..m + n /\ c[m + i] = t[i]
    BY <1>2
  <2> QED
    BY <1>1, <1>2
<1>6. \A i \in DOMAIN q : i \in DOMAIN c /\ c[i] = q[i]
  BY <1>1, <1>2
<1>7. Lines(c) = Lines(q) \cup Lines(t)
  <2>1. Lines(c) \subseteq Lines(q) \cup Lines(t)
    BY <1>4 DEF Lines
  <2>2. Lines(q) \subseteq Lines(c)
    BY <1>6 DEF Lines
  <2>3. ASSUME NEW i \in DOMAIN t PROVE t[i].line \in Lines(c)
    <3> PICK j : j = m + i
      OBVIOUS
    <3>1. j \in DOMAIN c /\ c[j] = t[i]
      BY <1>5
    <3> QED
      BY <3>1 DEF Lines
  <2>4. Lines(t) \subseteq Lines(c)
    BY <2>3 DEF Lines
  <2> QED
    BY <2>1, <2>2, <2>4
<1>8. Placed(c)
  BY <1>4 DEF Placed
<1>9. Rising(c)
  <2> SUFFICES ASSUME NEW i \in DOMAIN c, NEW j \in DOMAIN c, i < j PROVE c[i].line < c[j].line
    BY DEF Rising
  <2>0. i \in Nat /\ j \in Nat
    BY <1>2
  <2>1. CASE j \in DOMAIN q
    <3>1. i \in DOMAIN q
      BY <1>2, <2>0, <2>1
    <3> QED
      BY <1>6, <2>1, <3>1 DEF Lined, Rising
  <2>2. CASE j \notin DOMAIN q /\ i \in DOMAIN q
    <3>1. j - m \in DOMAIN t /\ c[j] = t[j - m] /\ c[i] = q[i]
      BY <1>4, <1>6, <2>2
    <3> QED
      BY <1>3, <2>2, <3>1
  <2>3. CASE j \notin DOMAIN q /\ i \notin DOMAIN q
    <3>1. j - m \in DOMAIN t /\ c[j] = t[j - m] /\ i - m \in DOMAIN t /\ c[i] = t[i - m]
      BY <1>4, <2>3
    <3>2. i - m < j - m
      BY <1>2, <2>0
    <3> QED
      BY <3>1, <3>2 DEF Rising
  <2> QED
    BY <2>1, <2>2, <2>3
<1>10. /\ \A i \in DOMAIN b, j \in DOMAIN c : b[i].line < c[j].line
       /\ \A k \in DOMAIN g, j \in DOMAIN c : g[k] < c[j].line
  <2> SUFFICES ASSUME NEW j \in DOMAIN c
               PROVE  /\ \A i \in DOMAIN b : b[i].line < c[j].line
                      /\ \A k \in DOMAIN g : g[k] < c[j].line
    OBVIOUS
  <2>1. CASE j \in DOMAIN q
    BY <1>6, <2>1 DEF Lined
  <2>2. CASE j \notin DOMAIN q
    <3>1. j - m \in DOMAIN t /\ c[j] = t[j - m]
      BY <1>4, <2>2
    <3>l. PICK l : l = c[j].line
      OBVIOUS
    <3>2. l \in Nat /\ hi < l
      BY <1>3, <3>1, <3>l
    <3>3. \A x \in Nat : x <= hi => x < l
      BY <3>2
    <3> QED
      BY <1>3, <3>3, <3>l
  <2> QED
    BY <2>1, <2>2
<1> QED
  BY <1>1, <1>7, <1>8, <1>9, <1>10 DEF Lined

(* What a read adds when the file was not rotated and no seek overtook it: *)
(* the lines after hi up to the end of the read, in their order.           *)
LEMMA FreshLines ==
  ASSUME TailTyped, FileInv, gen = 0, reading # NoRead,
         reading.from = watcher.comm, watcher.seq = watcher.comm,
         NEW hi \in Nat, KnownTo(hi)
  PROVE  \E hi2 \in Nat :
           /\ hi <= hi2 /\ watcher.comm + Len(Records) <= hi2 /\ hi2 <= written
           /\ Fresh(Records) \in Seq(TailRecord)
           /\ Rising(Fresh(Records)) /\ Placed(Fresh(Records))
           /\ Lines(Fresh(Records)) = hi + 1 .. hi2
<1> PICK s, c, n, w : s = Records /\ c = watcher.comm /\ n = Len(Records) /\ w = written
  OBVIOUS
<1> PICK fresh : fresh = Fresh(s)
  OBVIOUS
<1>0. c \in Nat /\ n \in Nat /\ w \in Nat /\ cursor.off \in Nat /\ cursor.off <= c /\ c <= hi /\ hi <= w
  BY ReadRecordsTyped DEF TailTyped, KnownTo
<1>1. s \in Seq(TailRecord) /\ DOMAIN s = 1..n /\ c + n <= w
  <2>1. s \in Seq(TailRecord) /\ DOMAIN s = 1..n /\ n <= Len(reading.lines) /\ Len(reading.lines) \in Nat
    BY ReadRecordsTyped
  <2>2. c + Len(reading.lines) <= w
    BY DEF FileInv
  <2> QED
    BY <1>0, <2>1, <2>2
<1>2. \A i \in 1..n : s[i].line = c + i /\ s[i].off = c + i /\ s[i].seq = c + i
  <2> SUFFICES ASSUME NEW i \in 1..n PROVE s[i].line = c + i /\ s[i].off = c + i /\ s[i].seq = c + i
    OBVIOUS
  <2>1. s[i] = [line |-> reading.lines[i], off |-> c + i, seq |-> watcher.seq + i]
    BY ReadRecordsTyped
  <2>2. i \in 1..Len(reading.lines)
    BY <1>0, ReadRecordsTyped
  <2>3. reading.lines[i] = c + i /\ watcher.seq = c
    BY <2>2 DEF FileInv
  <2> QED
    BY <2>1, <2>3
<1>3. \A i \in 1..n : IsNew(s[i]) <=> hi < c + i
  <2> SUFFICES ASSUME NEW i \in 1..n PROVE IsNew(s[i]) <=> hi < c + i
    OBVIOUS
  <2> PICK x : x = c + i
    OBVIOUS
  <2>1. x \in Nat /\ cursor.off < x /\ s[i].line = x /\ s[i].off = x /\ s[i].seq = x
    BY <1>0, <1>2
  <2>2. CASE x <= hi
    <3>1. x \in cursor.off + 1 .. hi
      BY <1>0, <2>1, <2>2
    <3>2. x \in known.texts
      BY <3>1 DEF KnownTo
    <3> QED
      BY <2>1, <2>2, <3>2 DEF IsNew
  <2>3. CASE hi < x
    <3>1. x \notin 1..hi
      BY <2>1, <2>3
    <3>2. x \notin known.texts
      BY <3>1 DEF KnownTo
    <3>3. <<x, x>> \notin known.places
      BY <3>1 DEF KnownTo
    <3> QED
      BY <2>1, <2>3, <3>2, <3>3 DEF IsNew
  <2> QED
    BY <2>1, <2>2, <2>3
<1>4. /\ fresh \in Seq(TailRecord)
      /\ \A k \in DOMAIN fresh : \E i \in DOMAIN s : fresh[k] = s[i] /\ IsNew(s[i])
      /\ \A i \in DOMAIN s : IsNew(s[i]) => \E k \in DOMAIN fresh : fresh[k] = s[i]
      /\ \A k, l \in DOMAIN fresh : k < l =>
           \E i, j \in DOMAIN s : i < j /\ fresh[k] = s[i] /\ fresh[l] = s[j]
  <2>1. fresh \in Seq(TailRecord) /\ Filtered(fresh, s)
    BY <1>1, FreshInOrder
  <2> QED
    BY <2>1, Zenon DEF Filtered
<1>h. PICK hi2 : hi2 = IF hi < c + n THEN c + n ELSE hi
  OBVIOUS
<1>5. hi2 \in Nat /\ hi <= hi2 /\ c + n <= hi2 /\ hi2 <= w
  BY <1>0, <1>1, <1>h
<1>6. Rising(fresh)
  <2> SUFFICES ASSUME NEW k \in DOMAIN fresh, NEW l \in DOMAIN fresh, k < l
               PROVE  fresh[k].line < fresh[l].line
    BY DEF Rising
  <2> PICK i \in 1..n, j \in 1..n : i < j /\ fresh[k] = s[i] /\ fresh[l] = s[j]
    BY <1>1, <1>4
  <2>1. fresh[k].line = c + i /\ fresh[l].line = c + j
    BY <1>2
  <2>2. c + i < c + j
    BY <1>0
  <2> QED
    BY <2>1, <2>2
<1>7. \A k \in DOMAIN fresh : /\ fresh[k].off = fresh[k].line /\ fresh[k].seq = fresh[k].line
                              /\ fresh[k].line \in hi + 1 .. hi2
  <2> SUFFICES ASSUME NEW k \in DOMAIN fresh
               PROVE  /\ fresh[k].off = fresh[k].line /\ fresh[k].seq = fresh[k].line
                      /\ fresh[k].line \in hi + 1 .. hi2
    OBVIOUS
  <2> PICK i \in 1..n : fresh[k] = s[i] /\ IsNew(s[i])
    BY <1>1, <1>4
  <2> PICK x : x = c + i
    OBVIOUS
  <2>1. fresh[k].line = x /\ fresh[k].off = x /\ fresh[k].seq = x /\ hi < x
    BY <1>2, <1>3
  <2>2. x \in Nat /\ x <= hi2
    BY <1>0, <1>5
  <2> QED
    BY <1>5, <2>1, <2>2
<1>8. \A x \in hi + 1 .. hi2 : \E k \in DOMAIN fresh : fresh[k].line = x
  <2> SUFFICES ASSUME NEW x \in hi + 1 .. hi2 PROVE \E k \in DOMAIN fresh : fresh[k].line = x
    OBVIOUS
  <2>1. x \in Nat /\ hi < x /\ x <= hi2 /\ hi2 = c + n
    BY <1>5, <1>h
  <2> PICK i : i = x - c
    OBVIOUS
  <2>2. i \in 1..n /\ c + i = x
    BY <1>0, <2>1
  <2>3. IsNew(s[i]) /\ s[i].line = x
    BY <1>2, <1>3, <2>1, <2>2
  <2> QED
    BY <1>1, <1>4, <2>2, <2>3
<1>9. Lines(fresh) = hi + 1 .. hi2
  BY <1>7, <1>8 DEF Lines
<1> QED
  BY <1>4, <1>5, <1>6, <1>7, <1>9 DEF Placed

LEMMA ReadKeeps ==
  ASSUME TailInv, TailRead
  PROVE  FileInv' /\ CalmInv'
<1> PICK records : records = Records
  OBVIOUS
<1> PICK fresh : fresh = Fresh(records)
  OBVIOUS
<1> PICK q, b, taken : q = pending /\ b = batch /\ taken = Accepted(q, fresh)
  OBVIOUS
<1>0. /\ reading # NoRead /\ reading' = NoRead
      /\ UNCHANGED <<file, written, gen, restarts, cursor>>
      /\ watcher' = [watcher EXCEPT !.read = @ + Len(reading.lines),
                                    !.comm = @ + Len(records), !.seq = @ + Len(records)]
      /\ known' = [texts |-> known.texts \cup Lines(fresh),
                   places |-> known.places \cup {<<r.off, r.seq>> : r \in ToSet(fresh)}]
      /\ fate' = [fate EXCEPT !["refused"] = @ \cup (Lines(fresh) \ Lines(taken))]
      /\ IF fresh = <<>> THEN UNCHANGED <<pending, batch, handed, full, pump>>
         ELSE Dispatch(q \o taken, b)
      /\ skewed' = (skewed \/ reading.from # watcher.comm)
  BY DEF TailRead, envVars
<1>1. FileInv'
  <2>1. watcher'.gen = watcher.gen
    BY <1>0 DEF TailInv, TailTyped
  <2> QED
    BY <1>0, <2>1 DEF TailInv, FileInv
<1>2. CalmInv'
  <2> SUFFICES ASSUME gen' = 0, ~skewed' PROVE Orderly'
    BY DEF CalmInv
  <2>1. gen = 0 /\ ~skewed /\ reading.from = watcher.comm
    BY <1>0
  <2>2. Orderly
    BY <2>1 DEF TailInv, CalmInv
  <2>3. PICK hi \in Nat : KnownTo(hi)
    BY <2>2 DEF Orderly
  <2>c. PICK c, n : c = watcher.comm /\ n = Len(records)
    OBVIOUS
  <2>4. PICK hi2 \in Nat :
           /\ hi <= hi2 /\ c + n <= hi2 /\ hi2 <= written
           /\ fresh \in Seq(TailRecord) /\ Rising(fresh) /\ Placed(fresh)
           /\ Lines(fresh) = hi + 1 .. hi2
    BY <1>0, <2>1, <2>2, <2>3, <2>c, FreshLines DEF TailInv, Orderly
  <2>5. /\ c \in Nat /\ n \in Nat /\ c <= hi /\ cursor.off \in Nat /\ cursor.off <= c
        /\ q \in Seq(TailRecord) /\ Len(q) <= Capacity /\ b \in Seq(TailRecord)
        /\ handed \in Seq(1..MaxLines)
    BY <1>0, <2>3, <2>c, ReadRecordsTyped DEF TailInv, TailTyped, KnownTo
  <2>6. /\ watcher'.comm = c + n /\ watcher'.seq = c + n /\ cursor' = cursor
        /\ cursor.seq = cursor.off
    BY <1>0, <2>2, <2>c DEF TailInv, TailTyped, Orderly
  <2>7. PICK t \in 0..Len(fresh) :
           /\ taken \in Seq(TailRecord) /\ Len(taken) = t /\ \A k \in 1..t : taken[k] = fresh[k]
    <3>1. taken \in Seq(TailRecord) /\ StartOf(taken, fresh)
      BY <2>4, <2>5, AcceptedIsPrefix
    <3> QED
      BY <3>1 DEF StartOf
  <2>8. /\ DOMAIN taken \subseteq DOMAIN fresh /\ \A k \in DOMAIN taken : taken[k] = fresh[k]
        /\ Rising(taken) /\ Placed(taken) /\ Lines(taken) \subseteq Lines(fresh)
    <3>1. Len(fresh) \in Nat /\ DOMAIN fresh = 1..Len(fresh) /\ DOMAIN taken = 1..t
      BY <2>4, <2>7, LinesTyped
    <3>2. DOMAIN taken \subseteq DOMAIN fresh /\ \A k \in DOMAIN taken : taken[k] = fresh[k]
      BY <2>7, <3>1
    <3> QED
      BY <2>4, <3>2 DEF Rising, Placed, Lines
  <2>9. /\ Lined(q, b) /\ Placed(q) /\ Placed(b)
        /\ \A x \in Lines(q) \cup Lines(b) : x <= hi
        /\ \A k \in DOMAIN handed : handed[k] <= hi
    BY <2>2, <2>3 DEF Orderly, KnownTo, InHand
  <2>10. \A x \in Lines(fresh) : hi < x /\ x <= hi2
    BY <2>4
  <2>11. /\ Lined(pending, batch)' /\ Placed(pending)' /\ Placed(batch)'
         /\ Lines(pending)' \cup Lines(batch)' = Lines(q) \cup Lines(b) \cup Lines(taken)
         /\ \A k \in DOMAIN handed' :
              handed'[k] \in Lines(q) \cup Lines(taken) \/ \E m \in DOMAIN handed : handed'[k] = handed[m]
    <3>1. CASE fresh = <<>>
      <4>1. pending' = pending /\ batch' = batch /\ handed' = handed
        BY <1>0, <3>1
      <4>2. Lines(fresh) = {}
        BY <3>1 DEF Lines
      <4>3. Lines(taken) = {}
        BY <2>8, <4>2
      <4>4. Lined(pending, batch)' /\ Placed(pending)' /\ Placed(batch)'
        BY <2>2, <4>1 DEF Orderly, Lined, Rising, Placed
      <4>5. Lines(pending)' \cup Lines(batch)' = Lines(q) \cup Lines(b) \cup Lines(taken)
        BY <4>1, <4>3 DEF Lines
      <4> QED
        BY <4>1, <4>4, <4>5
    <3>2. CASE fresh # <<>>
      <4>p. PICK p : p = q \o taken
        OBVIOUS
      <4>1. /\ p \in Seq(TailRecord) /\ Lined(p, b) /\ Placed(p)
            /\ Lines(p) = Lines(q) \cup Lines(taken)
        <5>1. Beyond(taken, hi) /\ UpTo(q, b, hi)
          BY <2>8, <2>9, <2>10 DEF Beyond, UpTo
        <5>2. /\ q \o taken \in Seq(TailRecord) /\ Lined(q \o taken, b) /\ Placed(q \o taken)
              /\ Lines(q \o taken) = Lines(q) \cup Lines(taken)
          BY <2>5, <2>7, <2>8, <2>9, <5>1, QueueGrows
        <5> QED
          BY <4>p, <5>2
      <4>2. PICK k \in Nat : Dispatched(p, b, k)
        BY <1>0, <2>5, <3>2, <4>p, <4>1, DispatchSplits
      <4>3. /\ Lined(pending, batch)' /\ Placed(pending)' /\ Placed(batch)'
            /\ Lines(pending)' \cup Lines(batch)' = Lines(p) \cup Lines(b)
            /\ \A m \in DOMAIN handed' :
                 handed'[m] \in Lines(p) \/ \E l \in DOMAIN handed : handed'[m] = handed[l]
        BY <2>5, <2>9, <4>1, <4>2, DispatchKeeps
      <4> QED
        BY <4>1, <4>3
    <3> QED
      BY <3>1, <3>2
  <2>12. fate'["acked"] = fate["acked"] /\ Settled' = Settled \cup (Lines(fresh) \ Lines(taken))
    BY <1>0 DEF TailInv, TailTyped, Settled, Fates
  <2>13. KnownTo(hi2)'
    <3>1. /\ cursor'.off <= watcher'.comm /\ watcher'.comm <= hi2 /\ hi2 <= written'
      BY <1>0, <2>4, <2>5, <2>6
    <3>2. known'.texts \subseteq 1..hi2 /\ cursor'.off + 1 .. hi2 \subseteq known'.texts
      <4>1. known'.texts = known.texts \cup (hi + 1 .. hi2)
        BY <1>0, <2>4
      <4>2. 1..hi \subseteq 1..hi2 /\ hi + 1 .. hi2 \subseteq 1..hi2
        BY <2>4
      <4>3. cursor.off + 1 .. hi2 \subseteq (cursor.off + 1 .. hi) \cup (hi + 1 .. hi2)
        BY <2>4, <2>5
      <4> QED
        BY <2>3, <2>6, <4>1, <4>2, <4>3 DEF KnownTo
    <3>3. known'.places \subseteq {<<i, i>> : i \in 1..hi2}
      <4>1. \A r \in ToSet(fresh) : r.off = r.line /\ r.seq = r.line /\ r.line \in 1..hi2
        <5>1. \A k \in DOMAIN fresh : fresh[k].line \in Lines(fresh)
          BY DEF Lines
        <5>2. hi + 1 .. hi2 \subseteq 1..hi2
          BY <2>4
        <5> QED
          BY <2>4, <5>1, <5>2 DEF ToSet, Placed
      <4>2. {<<i, i>> : i \in 1..hi} \subseteq {<<i, i>> : i \in 1..hi2}
        BY <2>4
      <4>3. {<<r.off, r.seq>> : r \in ToSet(fresh)} \subseteq {<<i, i>> : i \in 1..hi2}
        BY <4>1
      <4>4. known.places \subseteq {<<i, i>> : i \in 1..hi}
        BY <2>3 DEF KnownTo
      <4>5. known'.places = known.places \cup {<<r.off, r.seq>> : r \in ToSet(fresh)}
        BY <1>0
      <4> QED
        BY <4>2, <4>3, <4>4, <4>5
    <3>4. 1..hi2 \subseteq Settled' \cup InHand'
      <4>1. 1..hi2 \subseteq 1..hi \cup Lines(fresh)
        BY <2>4
      <4>2. InHand' = InHand \cup Lines(taken)
        BY <2>11 DEF InHand
      <4> QED
        BY <2>3, <2>12, <4>1, <4>2 DEF KnownTo
    <3>5. \A x \in InHand' : cursor'.off < x /\ x <= hi2
      <4> SUFFICES ASSUME NEW x \in InHand' PROVE cursor.off < x /\ x <= hi2
        BY <2>6
      <4>1. CASE x \in InHand
        <5>1. cursor.off < x /\ x <= hi /\ x \in Nat
          BY <2>3, <2>5, <4>1, LinesTyped, TailConstants DEF KnownTo, InHand
        <5> QED
          BY <2>4, <5>1
      <4>2. CASE x \in Lines(taken)
        <5>1. x \in hi + 1 .. hi2
          BY <2>4, <2>8, <4>2
        <5> QED
          BY <2>5, <5>1
      <4> QED
        BY <2>11, <4>1, <4>2 DEF InHand
    <3>6. \A k \in DOMAIN handed' : handed'[k] <= hi2
      <4> SUFFICES ASSUME NEW x \in Nat,
                          \/ x \in Lines(q) \cup Lines(taken)
                          \/ \E m \in DOMAIN handed : x = handed[m]
                   PROVE  x <= hi2
        <5>1. handed' \in Seq(1..MaxLines)
          BY TailStepTyped DEF TailInv, TailNext, TailTyped
        <5>2. \A k \in DOMAIN handed' : handed'[k] \in Nat
          BY <5>1, ElementOfSeq, LenProperties, TailConstants
        <5> QED
          BY <2>11, <5>2
      <4>1. CASE x \in Lines(taken)
        BY <2>8, <2>10, <4>1
      <4>2. CASE x <= hi
        BY <2>4, <4>2
      <4> QED
        BY <2>9, <4>1, <4>2
    <3> QED
      BY <3>1, <3>2, <3>3, <3>4, <3>5, <3>6 DEF KnownTo
  <2> QED
    BY <2>2, <2>6, <2>11, <2>12, <2>13 DEF Orderly
<1> QED
  BY <1>1, <1>2

LEMMA StepTail == TailInv /\ [TailNext]_tailVars => TailInv'
<1> SUFFICES ASSUME TailInv, [TailNext]_tailVars PROVE TailInv'
  OBVIOUS
<1>1. TailTyped'
  BY TailStepTyped DEF TailInv
<1> SUFFICES FileInv' /\ CalmInv'
  BY <1>1 DEF TailInv
<1>2. CASE TailAppend
  BY <1>2, AppendKeeps
<1>3. CASE TailRotate
  <2>1. gen' # 0
    BY <1>3 DEF TailRotate, TailInv, TailTyped
  <2> QED
    BY <2>1 DEF FileInv, CalmInv
<1>4. CASE TailPoll
  BY <1>4, ReadFromKeeps, TailConstants DEF TailPoll
<1>5. CASE TailPump
  <2>1. CASE ReadFrom(BatchSize)
    BY <2>1, ReadFromKeeps, TailConstants
  <2>2. CASE UNCHANGED <<envVars, watcher, reading, known, pending, full, batch, cursor, fate,
                         handed, skewed>>
    <3>1. FileInv'
      BY <2>2 DEF TailInv, FileInv, envVars
    <3>2. CalmInv'
      BY <2>2, CalmFrame DEF TailInv, TailTyped, envVars
    <3> QED
      BY <3>1, <3>2
  <2> QED
    BY <1>5, <2>1, <2>2 DEF TailPump
<1>6. CASE TailRead
  BY <1>6, ReadKeeps
<1>7. CASE TailAck
  BY <1>7, AckKeeps
<1>8. CASE TailThrow
  BY <1>8, ThrowKeeps
<1>9. CASE TailRestart
  BY <1>9, RestartKeeps
<1>10. CASE UNCHANGED tailVars
  <2>1. FileInv'
    BY <1>10 DEF TailInv, FileInv, tailVars
  <2>2. CalmInv'
    BY <1>10, CalmFrame DEF TailInv, TailTyped, tailVars
  <2> QED
    BY <2>1, <2>2
<1> QED
  BY <1>2, <1>3, <1>4, <1>5, <1>6, <1>7, <1>8, <1>9, <1>10 DEF TailNext

(* While the file is the first one and no read was overtaken by a seek,    *)
(* one line hi separates the past of a session from its future: all up to  *)
(* hi is settled or on its way to the handler, in order, and the           *)
(* deduplicator knows everything between the cursor and hi.                *)
THEOREM TailIsSound == TailSpec => []TailInv
<1>1. TailInit => TailInv
  BY InitTail
<1>2. TailInv /\ [TailNext]_tailVars => TailInv'
  BY StepTail
<1> QED
  BY <1>1, <1>2, PTL DEF TailSpec

(* The variables of the session have their types, and the queue and the    *)
(* batch keep their limits (bounded-queue.ts).                             *)
THEOREM TailTypes == TailSpec => []TailTypeOK
<1>1. TailInv => TailTypeOK
  <2> SUFFICES ASSUME TailTyped PROVE TailTypeOK
    BY DEF TailInv
  <2>1. ToSet(file) \subseteq 1..written
    BY ElementOfSeq, LenProperties DEF TailTyped, ToSet
  <2>2. ToSet(pending) \subseteq TailRecord /\ ToSet(batch) \subseteq TailRecord
    BY LinesTyped DEF TailTyped, ToSet
  <2> QED
    BY <2>1, <2>2 DEF TailTyped, TailTypeOK, TailRecord
<1> QED
  BY <1>1, TailIsSound, PTL

(* The committed cursor passes only lines that were acknowledged,          *)
(* dead-lettered or refused (tailer.ts, handleAcknowledgement).            *)
THEOREM CursorPassesSettledLines == TailSpec => []TailNoSilentLoss
<1>1. TailInv => TailNoSilentLoss
  <2> SUFFICES ASSUME TailInv, gen = 0, ~skewed, NEW i \in 1..cursor.off
               PROVE  file[i] \in fate["acked"] \cup fate["dead"] \cup fate["refused"]
    BY DEF TailNoSilentLoss
  <2>1. Orderly
    BY DEF TailInv, CalmInv
  <2>2. PICK hi \in Nat : KnownTo(hi)
    BY <2>1 DEF Orderly
  <2>3. /\ cursor.off \in Nat /\ watcher.comm \in Nat /\ written \in Nat
        /\ cursor.off <= watcher.comm /\ watcher.comm <= hi /\ hi <= written
    BY <2>2 DEF TailInv, TailTyped, KnownTo
  <2>4. i \in 1..hi /\ i \in 1..written /\ ~(cursor.off < i)
    BY <2>3
  <2>5. file[i] = i
    BY <2>4 DEF TailInv, FileInv
  <2>6. i \in Settled
    BY <2>2, <2>4 DEF KnownTo
  <2> QED
    BY <2>5, <2>6 DEF Settled
<1> QED
  BY <1>1, TailIsSound, PTL

(* The cursor never goes back; without a rotation or an overtaken read an  *)
(* acknowledged line is not handed out again, and the handler gets each    *)
(* line once, in the order of the file.                                    *)
THEOREM SessionIsInOrder == TailSpec => TailInOrder
<1>1. TailInv /\ TailInv' /\ [TailNext]_tailVars =>
        [ /\ cursor'.off >= cursor.off /\ cursor'.seq >= cursor.seq
          /\ gen = 0 /\ ~skewed' =>
               /\ batch' # batch => Lines(batch') \cap fate["acked"] = {}
               /\ \A i, j \in DOMAIN handed' : i < j => handed'[i] < handed'[j]
        ]_tailVars
  <2> SUFFICES ASSUME TailInv, TailInv', TailNext
               PROVE  /\ cursor'.off >= cursor.off /\ cursor'.seq >= cursor.seq
                      /\ gen = 0 /\ ~skewed' =>
                           /\ batch' # batch => Lines(batch') \cap fate["acked"] = {}
                           /\ \A i, j \in DOMAIN handed' : i < j => handed'[i] < handed'[j]
    BY Zenon
  <2>1. cursor.off \in Nat /\ cursor.seq \in Nat
    BY DEF TailInv, TailTyped
  <2>2. cursor'.off >= cursor.off /\ cursor'.seq >= cursor.seq
    <3>1. CASE cursor' = cursor
      BY <2>1, <3>1
    <3>2. CASE TailAck
      BY <2>1, <3>2 DEF TailAck
    <3> QED
      BY <3>1, <3>2 DEF TailNext, TailAppend, TailRotate, TailPoll, TailPump, ReadFrom, TailRead,
                        TailThrow, TailRestart
  <2>3. ASSUME gen = 0, ~skewed', batch' # batch PROVE Lines(batch') \cap fate["acked"] = {}
    <3>1. CASE gen' = 0
      <4>1. ~skewed
        BY <2>3 DEF TailNext, TailAppend, TailRotate, TailPoll, TailPump, ReadFrom, TailRead,
                    TailAck, TailThrow, TailRestart
      <4>2. Orderly /\ Orderly'
        BY <2>3, <3>1, <4>1 DEF TailInv, CalmInv
      <4>3. \A x \in Lines(batch') : cursor'.off < x
        BY <4>2 DEF Orderly, KnownTo, InHand, Lines
      <4>4. \A x \in fate["acked"] : x \in Nat /\ x <= cursor.off
        BY <2>1, <4>2 DEF Orderly
      <4>5. cursor'.off \in Nat
        BY DEF TailInv, TailTyped
      <4>6. \A x \in fate["acked"] : ~(cursor'.off < x)
        BY <2>1, <2>2, <4>4, <4>5
      <4> QED
        BY <4>3, <4>6
    <3>2. CASE gen' # 0
      BY <2>3, <3>2 DEF TailNext, TailAppend, TailRotate, TailPoll, TailPump, ReadFrom, TailRead,
                        TailAck, TailThrow, TailRestart, envVars
    <3> QED
      BY <3>1, <3>2
  <2>4. ASSUME gen = 0, ~skewed' PROVE \A i, j \in DOMAIN handed' : i < j => handed'[i] < handed'[j]
    <3>1. CASE gen' = 0
      BY <2>4, <3>1 DEF TailInv, CalmInv, Orderly, Lined
    <3>2. CASE TailRotate
      <4>1. Orderly /\ handed' = handed
        BY <2>4, <3>2 DEF TailRotate, TailInv, CalmInv
      <4> QED
        BY <4>1 DEF Orderly, Lined
    <3> QED
      BY <2>4, <3>1, <3>2 DEF TailNext, TailAppend, TailPoll, TailPump, ReadFrom, TailRead,
                              TailAck, TailThrow, TailRestart, envVars
  <2> QED
    BY <2>2, <2>3, <2>4
<1> QED
  BY <1>1, TailIsSound, PTL DEF TailSpec, TailInOrder

-----------------------------------------------------------------------------
(* The catalog of the gateway. *)
Points == {"idle", "resolve", "controls", "apply", "record", "refreshing", "broadcast",
           "hydrating", "compute", "done"}
TaskRecords == [pc : Points, op : {"none", "pin", "unpin", "disable", "enable"},
                ws : Workspaces \cup {Absent}, arg : Slots, answer : Slots]
TaskOK(r) == r \in TaskRecords /\ (r.pc # "idle" => r.ws \in Workspaces)
TasksTyped == task \in [Tasks -> TaskRecords] /\ \A t \in Tasks : TaskOK(task[t])

CatalogTyped ==
  /\ sysActive \in Slots /\ wsActive \in [Workspaces -> Slots] /\ pinned \in [Workspaces -> Slots]
  /\ revisions \in [Workspaces -> Nat]
  /\ history \in [Workspaces -> [1..(MaxOps + 1) -> Slots \cup {None}]]
CacheTyped ==
  /\ cached \in [Workspaces -> [version : Slots, revision : Nat]]
  /\ hydration \in [at : {"none", "listing", "rows", "loaded_rows"}, ws : Workspaces \cup {Absent}]
  /\ hydration.at \in {"rows", "loaded_rows"} => hydration.ws \in Workspaces
  /\ bound \in Limits

CatalogInv == TasksTyped /\ CatalogTyped /\ CacheTyped /\ CacheIsCurrent

(* CacheIsCurrent of one workspace.                                        *)
Current(w) ==
  HasCatalog(w) /\ ~Changing(w) =>
    /\ cached[w].revision = Revision(w)
    /\ w \notin stale => cached[w].version = Visible(w)

LEMMA VisibleTyped ==
  ASSUME NEW w \in Workspaces
  PROVE  Visible(w) \in Slots
  BY DEF Visible, Candidate, Registered, Slots

(* What a workspace sees depends on its own layer and the shared one.      *)
LEMMA VisibleStays ==
  ASSUME NEW w \in Workspaces, UNCHANGED <<scopeOf, sysActive>>, wsActive'[w] = wsActive[w],
         pinned'[w] = pinned[w], w \in disabled' <=> w \in disabled
  PROVE  Visible(w)' = Visible(w)
<1>1. Registered' = Registered
  BY DEF Registered
<1>2. \A v : Candidate(w, v)' = Candidate(w, v)
  BY <1>1 DEF Candidate
<1> QED
  BY <1>2 DEF Visible

(* A workspace whose cached catalog and revision stay, and which sees what *)
(* it saw or is passed over.                                               *)
LEMMA StaysCurrent ==
  ASSUME CacheIsCurrent, NEW w \in Workspaces, cached'[w] = cached[w], revisions'[w] = revisions[w],
         Changing(w) => Changing(w)',
         \/ HasCatalog(w) => w \in stale'
         \/ Visible(w)' = Visible(w) /\ (w \in stale => w \in stale')
  PROVE  Current(w)'
<1>1. Current(w)
  BY DEF CacheIsCurrent, Current
<1> QED
  BY <1>1 DEF Current, HasCatalog, Revision

(* Nothing happens to the hydration, or one begins.                        *)
HydrationStays ==
  \/ hydration' = hydration
  \/ hydration = NoHydration /\ \E w \in Workspaces : hydration' = [at |-> "listing", ws |-> w]

(* A workspace is being changed as long as the operation that changes it   *)
(* is between its change and its invalidation.                             *)
LEMMA StaysChanging ==
  ASSUME TasksTyped, NEW t \in Tasks, NEW r, task' = [task EXCEPT ![t] = r], HydrationStays,
         NEW w \in Workspaces, task[t].ws = w => task[t].pc \notin {"apply", "record"}
  PROVE  Changing(w) => Changing(w)'
  BY DEF Changing, TasksTyped, Tasks, HydrationStays, NoHydration

LEMMA TasksStayTyped ==
  ASSUME TasksTyped, NEW t \in Tasks, NEW r, TaskOK(r), task' = [task EXCEPT ![t] = r]
  PROVE  TasksTyped'
  BY DEF TasksTyped, TaskOK

(* A step that changes a task only, in no way that ends a change.          *)
LEMMA OnlyATask ==
  ASSUME CatalogInv, NEW t \in Tasks, NEW r, TaskOK(r), task' = [task EXCEPT ![t] = r],
         task[t].pc \notin {"apply", "record"}, HydrationStays,
         UNCHANGED <<catalogVars, revisions, history, cached, bound, stale>>
  PROVE  CatalogInv'
<1>1. TasksTyped'
  BY TasksStayTyped DEF CatalogInv
<1>2. CatalogTyped'
  BY DEF CatalogInv, CatalogTyped, catalogVars
<1>5. CacheTyped'
  BY DEF CatalogInv, CacheTyped, HydrationStays, NoHydration
<1>3. ASSUME NEW w \in Workspaces PROVE Current(w)'
  <2>1. Changing(w) => Changing(w)'
    BY StaysChanging DEF CatalogInv
  <2>2. Visible(w)' = Visible(w)
    BY VisibleStays DEF catalogVars
  <2> QED
    BY <2>1, <2>2, StaysCurrent DEF CatalogInv
<1> QED
  BY <1>1, <1>2, <1>3, <1>5 DEF CatalogInv, CacheIsCurrent, Current

(* A step of a task that changes workspace w and drops its catalog.        *)
LEMMA DropsItsCatalog ==
  ASSUME CatalogInv, NEW t \in Tasks, NEW r, TaskOK(r), task' = [task EXCEPT ![t] = r],
         NEW w \in Workspaces, task[t].pc \in {"apply", "record"} => task[t].ws = w,
         sysActive' \in Slots, wsActive' \in [Workspaces -> Slots],
         \A u \in Workspaces \ {w} : wsActive'[u] = wsActive[u],
         revisions' \in [Workspaces -> Nat],
         \A u \in Workspaces \ {w} : revisions'[u] = revisions[u],
         Invalidate(w),
         UNCHANGED <<scopeOf, pinned, disabled, history, hydration, bound>>
  PROVE  CatalogInv'
<1>1. TasksTyped'
  BY TasksStayTyped DEF CatalogInv
<1>2. CatalogTyped'
  BY DEF CatalogInv, CatalogTyped
<1>3. CacheTyped'
  BY DEF CatalogInv, CacheTyped, Invalidate, Nothing, Slots
<1>4. ~HasCatalog(w)'
  BY DEF Invalidate, HasCatalog, CatalogInv, CacheTyped
<1>5. ASSUME NEW u \in Workspaces \ {w} PROVE Current(u)'
  <2>1. Changing(u) => Changing(u)'
    BY StaysChanging DEF CatalogInv, HydrationStays
  <2>2. cached'[u] = cached[u] /\ revisions'[u] = revisions[u]
    BY DEF Invalidate, CatalogInv, CacheTyped
  <2>3. CASE sysActive' = sysActive
    <3>1. Visible(u)' = Visible(u)
      BY <2>3, VisibleStays
    <3>2. u \in stale => u \in stale'
      BY DEF Invalidate
    <3> QED
      BY <2>1, <2>2, <3>1, <3>2, StaysCurrent DEF CatalogInv
  <2>4. CASE sysActive' # sysActive
    <3>1. HasCatalog(u) => u \in stale'
      BY <2>4 DEF Invalidate
    <3> QED
      BY <2>1, <2>2, <3>1, StaysCurrent DEF CatalogInv
  <2> QED
    BY <2>3, <2>4
<1> QED
  BY <1>1, <1>2, <1>3, <1>4, <1>5 DEF CatalogInv, CacheIsCurrent, Current

(* A step that registers a version: every cached catalog is passed over.   *)
LEMMA PassedOver ==
  ASSUME CatalogInv, TasksTyped', PassesOver, sysActive' \in Slots,
         \A w \in Workspaces : Changing(w) => Changing(w)',
         UNCHANGED <<wsActive, pinned, revisions, history, cached, hydration, bound>>
  PROVE  CatalogInv'
<1>1. CatalogTyped' /\ CacheTyped'
  BY DEF CatalogInv, CatalogTyped, CacheTyped
<1>2. ASSUME NEW w \in Workspaces PROVE Current(w)'
  <2>1. HasCatalog(w) => w \in stale'
    BY DEF PassesOver
  <2> QED
    BY <2>1, StaysCurrent DEF CatalogInv
<1> QED
  BY <1>1, <1>2 DEF CatalogInv, CacheIsCurrent, Current

(* The end of a hydration changes no task that is changing something.      *)
LEMMA EndKeepsTasks ==
  ASSUME TasksTyped, HydrationEnds
  PROVE  /\ TasksTyped'
         /\ \A t \in Tasks : task'[t].ws = task[t].ws /\
              (task[t].pc \in {"apply", "record"} => task'[t].pc = task[t].pc)
<1>1. \A t \in Tasks : TaskOK(task'[t]) /\ task'[t].ws = task[t].ws /\
              (task[t].pc \in {"apply", "record"} => task'[t].pc = task[t].pc)
  BY DEF HydrationEnds, TasksTyped, TaskOK, TaskRecords, Points
<1>2. task' \in [Tasks -> TaskRecords]
  BY <1>1 DEF HydrationEnds, TaskOK
<1> QED
  BY <1>1, <1>2 DEF TasksTyped

LEMMA Bumped ==
  ASSUME revisions \in [Workspaces -> Nat], NEW w \in Workspaces, NextRevision(w)
  PROVE  /\ revisions' \in [Workspaces -> Nat]
         /\ \A u \in Workspaces \ {w} : revisions'[u] = revisions[u]
<1>1. \A n \in Nat : n + 1 \in Nat
  OBVIOUS
<1> QED
  BY <1>1 DEF NextRevision

(* A task that begins or goes on with a change has its workspace passed    *)
(* over by the invariant.                                                  *)
LEMMA ChangesIt ==
  ASSUME TasksTyped, NEW p \in Requests, NEW r, task' = [task EXCEPT ![p] = r],
         r.pc \in {"apply", "record"}
  PROVE  Changing(r.ws)'
<1>1. task'[p] = r
  BY DEF TasksTyped, Tasks
<1> QED
  BY <1>1 DEF Changing

(* A hydration that ends and drops every cached catalog.                   *)
LEMMA EndsDropped ==
  ASSUME CatalogInv, CatalogTyped', HydrationEnds, NEW loaded, AllDropped(loaded), bound' = bound
  PROVE  CatalogInv'
<1>1. TasksTyped'
  BY EndKeepsTasks DEF CatalogInv
<1>2. CacheTyped'
  BY DEF CatalogInv, CacheTyped, AllDropped, HydrationEnds, NoHydration, Nothing, Slots
<1>3. \A w \in Workspaces : ~HasCatalog(w)'
  BY DEF AllDropped, HasCatalog
<1> QED
  BY <1>1, <1>2, <1>3 DEF CatalogInv, CacheIsCurrent

LEMMA InitCatalog == RegInit => CatalogInv
<1> SUFFICES ASSUME RegInit PROVE CatalogInv
  OBVIOUS
<1>1. TasksTyped
  BY DEF RegInit, TasksTyped, TaskOK, TaskRecords, NoTask, Points, Slots
<1>2. CatalogTyped
  BY RegistryAssumption DEF RegInit, CatalogTyped, Slots
<1>3. CacheTyped
  BY DEF RegInit, CacheTyped, Nothing, NoHydration, Slots
<1>4. CacheIsCurrent
  BY DEF RegInit, CacheIsCurrent, HasCatalog
<1> QED
  BY <1>1, <1>2, <1>3, <1>4 DEF CatalogInv

LEMMA StepCatalog == CatalogInv /\ [RegNext]_regVars => CatalogInv'
<1> SUFFICES ASSUME CatalogInv, [RegNext]_regVars PROVE CatalogInv'
  OBVIOUS
<1>0. /\ Requests \subseteq Tasks /\ Workspaces \subseteq Tasks
      /\ bound.used \subseteq Workspaces
      /\ bound.listed \subseteq Slots /\ bound.deployed \subseteq Slots
  BY RegistryAssumption DEF CatalogInv, CacheTyped, Tasks, Slots
<1>1. ASSUME NEW p \in Requests, NEW w \in bound.used, NEW v \in Versions, Activate(p, w, v)
      PROVE CatalogInv'
  <2>1. TaskOK(At(w, "resolve"))
    BY <1>0 DEF TaskOK, TaskRecords, At, NoTask, Points, Slots
  <2>2. /\ sysActive' \in Slots /\ wsActive' \in [Workspaces -> Slots]
        /\ \A u \in Workspaces \ {w} : wsActive'[u] = wsActive[u]
    BY <1>1 DEF Activate, CatalogInv, CatalogTyped, Slots
  <2>3. /\ revisions' \in [Workspaces -> Nat]
        /\ \A u \in Workspaces \ {w} : revisions'[u] = revisions[u]
    BY <1>0, <1>1, Bumped DEF Activate, CatalogInv, CatalogTyped
  <2> QED
    BY <1>0, <1>1, <2>1, <2>2, <2>3, DropsItsCatalog DEF Activate, Begin, Untouched
<1>2. ASSUME NEW p \in Requests, NEW w \in bound.used, Deactivate(p, w) PROVE CatalogInv'
  <2>1. TaskOK(At(w, "resolve"))
    BY <1>0 DEF TaskOK, TaskRecords, At, NoTask, Points, Slots
  <2>2. /\ sysActive' \in Slots /\ wsActive' \in [Workspaces -> Slots]
        /\ \A u \in Workspaces \ {w} : wsActive'[u] = wsActive[u]
    BY <1>2 DEF Deactivate, CatalogInv, CatalogTyped, Slots
  <2>3. /\ revisions' \in [Workspaces -> Nat]
        /\ \A u \in Workspaces \ {w} : revisions'[u] = revisions[u]
    BY <1>0, <1>2, Bumped DEF Deactivate, CatalogInv, CatalogTyped
  <2> QED
    BY <1>0, <1>2, <2>1, <2>2, <2>3, DropsItsCatalog DEF Deactivate, Begin, Untouched
<1>3. ASSUME NEW p \in Requests, NEW w \in bound.used, NEW op \in {"pin", "unpin", "disable", "enable"},
             NEW v \in Versions, Control(p, w, op, v)
      PROVE CatalogInv'
  <2> DEFINE r == [At(w, "controls") EXCEPT !.op = op, !.arg = IF op = "pin" THEN v ELSE Absent]
  <2>1. TaskOK(r)
    BY <1>0 DEF TaskOK, TaskRecords, At, NoTask, Points, Slots
  <2> HIDE DEF r
  <2>2. task' = [task EXCEPT ![p] = r] /\ task[p].pc = "idle"
    BY <1>3 DEF Control, Begin, r
  <2> QED
    BY <1>0, <1>3, <2>1, <2>2, OnlyATask DEF Control, Untouched, HydrationStays
<1>4. ASSUME NEW p \in Requests, WriteControls(p) PROVE CatalogInv'
  <2>1. PICK w, r : /\ w = task[p].ws /\ w \in Workspaces /\ task[p].arg \in Slots
                    /\ TaskOK(r) /\ r.pc = "apply" /\ r.ws = w /\ r = [task[p] EXCEPT !.pc = "apply"]
    BY <1>0, <1>4 DEF WriteControls, CatalogInv, TasksTyped, TaskOK, TaskRecords, Points
  <2>2. task' = [task EXCEPT ![p] = r] /\ task[p].pc = "controls"
    BY <1>0, <1>4, <2>1 DEF WriteControls, Goto, CatalogInv, TasksTyped
  <2>3. pinned' \in [Workspaces -> Slots] /\ \A u \in Workspaces \ {w} : pinned'[u] = pinned[u]
    BY <1>4, <2>1 DEF WriteControls, CatalogInv, CatalogTyped, Slots
  <2>4. \A u \in Workspaces \ {w} : u \in disabled' <=> u \in disabled
    BY <1>4, <2>1 DEF WriteControls
  <2>5. UNCHANGED <<scopeOf, sysActive, wsActive, revisions, cached, stale, history, hydration, bound>>
    BY <1>4 DEF WriteControls, Untouched
  <2>6. TasksTyped'
    BY <1>0, <2>1, <2>2, TasksStayTyped DEF CatalogInv
  <2>7. CatalogTyped' /\ CacheTyped'
    BY <2>3, <2>5 DEF CatalogInv, CatalogTyped, CacheTyped
  <2>8. Changing(w)'
    BY <2>1, <2>2, ChangesIt DEF CatalogInv
  <2>9. ASSUME NEW u \in Workspaces \ {w} PROVE Current(u)'
    <3>1. Changing(u) => Changing(u)'
      BY <1>0, <2>1, <2>2, <2>5, StaysChanging DEF CatalogInv, HydrationStays
    <3>2. Visible(u)' = Visible(u)
      BY <2>3, <2>4, <2>5, VisibleStays
    <3> QED
      BY <2>5, <3>1, <3>2, StaysCurrent DEF CatalogInv
  <2>10. \A u \in Workspaces : Current(u)'
    BY <2>8, <2>9 DEF Current
  <2> QED
    BY <2>6, <2>7, <2>10 DEF CatalogInv, CacheIsCurrent, Current
<1>5. ASSUME NEW p \in Requests, ApplyControls(p) PROVE CatalogInv'
  <2> DEFINE w == task[p].ws
  <2>1. w \in Workspaces /\ task[p].arg \in Slots
    BY <1>0, <1>5 DEF ApplyControls, CatalogInv, TasksTyped, TaskOK, TaskRecords
  <2>2. TaskOK(At(w, "resolve"))
    BY <2>1 DEF TaskOK, TaskRecords, At, NoTask, Points, Slots
  <2>3. /\ sysActive' \in Slots /\ wsActive' \in [Workspaces -> Slots]
        /\ \A u \in Workspaces \ {w} : wsActive'[u] = wsActive[u]
    BY <1>5, <2>1 DEF ApplyControls, CatalogInv, CatalogTyped
  <2>4. /\ revisions' \in [Workspaces -> Nat]
        /\ \A u \in Workspaces \ {w} : revisions'[u] = revisions[u]
    BY <1>5, <2>1, Bumped DEF ApplyControls, CatalogInv, CatalogTyped
  <2> QED
    BY <1>0, <1>5, <2>1, <2>2, <2>3, <2>4, DropsItsCatalog DEF ApplyControls, Untouched
<1>6. ASSUME NEW p \in Requests, NEW w \in bound.used, NEW q \in 1..MaxOps, RollbackCatalog(p, w, q)
      PROVE CatalogInv'
  <2> DEFINE r == At(w, "record")
  <2>1. TaskOK(r) /\ r.pc = "record" /\ r.ws = w
    BY <1>0 DEF TaskOK, TaskRecords, At, NoTask, Points, Slots
  <2> HIDE DEF r
  <2>2. task' = [task EXCEPT ![p] = r] /\ task[p].pc = "idle"
    BY <1>6 DEF RollbackCatalog, Begin, r
  <2>3. history[w][q] \in Slots
    BY <1>0, <1>6, RegistryAssumption DEF RollbackCatalog, CatalogInv, CatalogTyped
  <2>4. /\ wsActive' \in [Workspaces -> Slots]
        /\ \A u \in Workspaces \ {w} : wsActive'[u] = wsActive[u]
    BY <1>6, <2>3 DEF RollbackCatalog, CatalogInv, CatalogTyped
  <2>5. /\ revisions' \in [Workspaces -> Nat]
        /\ \A u \in Workspaces \ {w} : revisions'[u] = revisions[u]
    BY <1>0, <1>6, Bumped DEF RollbackCatalog, CatalogInv, CatalogTyped
  <2>6. UNCHANGED <<scopeOf, sysActive, pinned, disabled, cached, stale, history, hydration, bound>>
    BY <1>6 DEF RollbackCatalog, Untouched
  <2>7. TasksTyped'
    BY <1>0, <2>1, <2>2, TasksStayTyped DEF CatalogInv
  <2>8. CatalogTyped' /\ CacheTyped'
    BY <2>4, <2>5, <2>6 DEF CatalogInv, CatalogTyped, CacheTyped
  <2>9. Changing(w)'
    BY <2>1, <2>2, ChangesIt DEF CatalogInv
  <2>10. ASSUME NEW u \in Workspaces \ {w} PROVE Current(u)'
    <3>1. Changing(u) => Changing(u)'
      BY <1>0, <2>2, <2>6, StaysChanging DEF CatalogInv, HydrationStays
    <3>2. Visible(u)' = Visible(u)
      BY <2>4, <2>6, VisibleStays
    <3> QED
      BY <2>5, <2>6, <3>1, <3>2, StaysCurrent DEF CatalogInv
  <2>11. \A u \in Workspaces : Current(u)'
    BY <2>9, <2>10 DEF Current
  <2> QED
    BY <2>7, <2>8, <2>11 DEF CatalogInv, CacheIsCurrent, Current
<1>7. ASSUME NEW p \in Requests, RecordRollback(p) PROVE CatalogInv'
  <2> DEFINE w == task[p].ws
             r == [task[p] EXCEPT !.pc = "resolve"]
  <2>1. w \in Workspaces /\ TaskOK(r)
    BY <1>0, <1>7 DEF RecordRollback, CatalogInv, TasksTyped, TaskOK, TaskRecords, Points
  <2>2. task' = [task EXCEPT ![p] = r]
    BY <1>0, <1>7 DEF RecordRollback, Goto, CatalogInv, TasksTyped
  <2>3. UNCHANGED <<scopeOf, sysActive, wsActive, pinned, disabled, revisions, history, hydration, bound>>
    BY <1>7 DEF RecordRollback, Untouched
  <2>4. Invalidate(w)
    BY <1>7 DEF RecordRollback
  <2>5. /\ sysActive' \in Slots /\ wsActive' \in [Workspaces -> Slots] /\ revisions' \in [Workspaces -> Nat]
        /\ \A u \in Workspaces \ {w} : wsActive'[u] = wsActive[u] /\ revisions'[u] = revisions[u]
    BY <2>3 DEF CatalogInv, CatalogTyped
  <2>6. task[p].pc \in {"apply", "record"} => task[p].ws = w
    OBVIOUS
  <2> HIDE DEF w, r
  <2> QED
    BY <1>0, <2>1, <2>2, <2>3, <2>4, <2>5, <2>6, DropsItsCatalog
<1>8. ASSUME NEW v \in Versions, Stage(v) PROVE CatalogInv'
  <2>1. TasksTyped' /\ \A w \in Workspaces : Changing(w) => Changing(w)'
    BY <1>8 DEF Stage, Untouched, CatalogInv, TasksTyped, Changing
  <2>2. sysActive' \in Slots
    BY <1>8 DEF Stage, Register, CatalogInv, CatalogTyped, Slots
  <2> QED
    BY <1>8, <2>1, <2>2, PassedOver DEF Stage, Untouched
<1>9. ASSUME NEW p \in Requests, NEW w \in bound.used, NEW v \in Versions, CloudSync(p, w, v)
      PROVE CatalogInv'
  <2>1. TaskOK(At(w, "resolve"))
    BY <1>0 DEF TaskOK, TaskRecords, At, NoTask, Points, Slots
  <2>2. task' = [task EXCEPT ![p] = At(w, "resolve")] /\ task[p].pc = "idle"
    BY <1>9 DEF CloudSync, Begin
  <2>3. TasksTyped'
    BY <1>0, <2>1, <2>2, TasksStayTyped DEF CatalogInv
  <2>4. \A u \in Workspaces : Changing(u) => Changing(u)'
    BY <1>0, <1>9, <2>2, StaysChanging DEF CloudSync, Untouched, CatalogInv, HydrationStays
  <2>5. sysActive' \in Slots
    BY <1>9 DEF CloudSync, Register, CatalogInv, CatalogTyped, Slots
  <2> QED
    BY <1>9, <2>3, <2>4, <2>5, PassedOver DEF CloudSync, Untouched
<1>10. ASSUME NEW p \in Requests, NEW w \in bound.used, Refresh(p, w) PROVE CatalogInv'
  <2>1. TaskOK(At(w, "refreshing"))
    BY <1>0 DEF TaskOK, TaskRecords, At, NoTask, Points, Slots
  <2>2. task' = [task EXCEPT ![p] = At(w, "refreshing")] /\ task[p].pc = "idle"
    BY <1>10 DEF Refresh, Begin
  <2>3. HydrationStays
    BY <1>0, <1>10 DEF Refresh, Hydrate, HydrationStays
  <2> QED
    BY <1>0, <1>10, <2>1, <2>2, <2>3, OnlyATask DEF Refresh
<1>11. ASSUME NEW found \in bound.listed, HydrateTool(found) PROVE CatalogInv'
  <2>1. CatalogTyped'
    <3>1. CASE found = Absent
      BY <1>11, <3>1 DEF HydrateTool, catalogVars, CatalogInv, CatalogTyped
    <3>2. CASE found # Absent
      <4>1. sysActive' \in Slots /\ pinned' = pinned /\ revisions' = revisions /\ history' = history
        BY <1>0, <1>11, <3>2 DEF HydrateTool, CatalogInv, CatalogTyped
      <4>2. wsActive' \in [Workspaces -> Slots]
        BY <1>0, <1>11, <3>2 DEF HydrateTool, CatalogInv, CatalogTyped
      <4> QED
        BY <4>1, <4>2 DEF CatalogInv, CatalogTyped
    <3> QED
      BY <3>1, <3>2
  <2>2. CASE hydration.ws = Absent
    BY <1>11, <2>1, <2>2, EndsDropped DEF HydrateTool
  <2>3. CASE hydration.ws # Absent
    <3>1. /\ hydration' = [hydration EXCEPT !.at = IF found = Absent THEN "rows" ELSE "loaded_rows"]
          /\ UNCHANGED <<task, cached, bound>>
      BY <1>11, <2>3 DEF HydrateTool
    <3>2. TasksTyped'
      BY <3>1 DEF CatalogInv, TasksTyped
    <3>3. CacheTyped' /\ hydration'.at \in {"rows", "loaded_rows"}
      BY <2>3, <3>1 DEF CatalogInv, CacheTyped
    <3>4. \A w \in Workspaces : Changing(w)'
      BY <3>3 DEF Changing
    <3> QED
      BY <2>1, <3>2, <3>3, <3>4 DEF CatalogInv, CacheIsCurrent
  <2> QED
    BY <2>2, <2>3
<1>12. ASSUME NEW found \in bound.deployed, HydrateDeployment(found) PROVE CatalogInv'
  <2>1. wsActive' \in [Workspaces -> Slots]
    BY <1>0, <1>12 DEF HydrateDeployment, CatalogInv, CatalogTyped, CacheTyped
  <2>2. CatalogTyped'
    BY <1>12, <2>1 DEF HydrateDeployment, CatalogInv, CatalogTyped
  <2> QED
    BY <1>12, <2>2, EndsDropped DEF HydrateDeployment
<1>13. CASE HydrateFails
  <2>1. TasksTyped' /\ \A w \in Workspaces : Changing(w) => Changing(w)'
    <3>1. TasksTyped'
      BY <1>13, EndKeepsTasks DEF HydrateFails, CatalogInv
    <3>2. ASSUME NEW w \in Workspaces, Changing(w) PROVE Changing(w)'
      <4>1. PICK p \in Requests : task[p].ws = w /\ task[p].pc \in {"apply", "record"}
        BY <1>13, <3>2 DEF HydrateFails, Changing
      <4>2. task'[p].ws = w /\ task'[p].pc = task[p].pc
        BY <1>0, <1>13, <4>1, EndKeepsTasks DEF HydrateFails, CatalogInv
      <4> QED
        BY <4>1, <4>2 DEF Changing
    <3> QED
      BY <3>1, <3>2
  <2>2. CatalogTyped' /\ CacheTyped'
    BY <1>13 DEF HydrateFails, HydrationEnds, NoHydration, CatalogInv, CatalogTyped, CacheTyped, catalogVars
  <2>3. ASSUME NEW w \in Workspaces PROVE Current(w)'
    <3>1. Visible(w)' = Visible(w)
      BY <1>13, VisibleStays DEF HydrateFails, catalogVars
    <3> QED
      BY <1>13, <2>1, <3>1, StaysCurrent DEF HydrateFails, CatalogInv
  <2> QED
    BY <2>1, <2>2, <2>3 DEF CatalogInv, CacheIsCurrent, Current
<1>14. ASSUME NEW t \in Tasks, Resolve(t) PROVE CatalogInv'
  <2> DEFINE w == task[t].ws
  <2>1. /\ task[t] \in TaskRecords /\ w \in Workspaces /\ task[t].pc = "resolve"
        /\ cached[w].version \in Slots
    BY <1>14 DEF Resolve, CatalogInv, TasksTyped, TaskOK, CacheTyped
  <2>2. PICK r : task' = [task EXCEPT ![t] = r] /\ TaskOK(r)
    <3> DEFINE done == [task[t] EXCEPT !.pc = "done",
                                       !.answer = IF t = w THEN cached[w].version ELSE Absent]
               on(point) == [task[t] EXCEPT !.pc = point]
    <3>1. TaskOK(done) /\ TaskOK(on("compute")) /\ TaskOK(on("hydrating"))
      BY <2>1 DEF TaskOK, TaskRecords, Points, Slots
    <3>2. \/ task' = [task EXCEPT ![t] = done]
          \/ task' = [task EXCEPT ![t] = on("compute")]
          \/ task' = [task EXCEPT ![t] = on("hydrating")]
      BY <1>14 DEF Resolve, Goto, CatalogInv, TasksTyped
    <3> QED
      BY <3>1, <3>2
  <2>3. HydrationStays
    BY <1>14, <2>1 DEF Resolve, Hydrate, HydrationStays
  <2> QED
    BY <1>14, <2>1, <2>2, <2>3, OnlyATask DEF Resolve
<1>15. ASSUME NEW t \in Tasks, Compute(t) PROVE CatalogInv'
  <2> DEFINE w == task[t].ws
             catalog == [version |-> Visible(w), revision |-> Revision(w)]
             r == [task[t] EXCEPT !.pc = "done", !.answer = IF t = w THEN catalog.version ELSE Absent]
  <2>1. task[t] \in TaskRecords /\ w \in Workspaces /\ task[t].pc = "compute"
    BY <1>15 DEF Compute, CatalogInv, TasksTyped, TaskOK
  <2>2. Visible(w) \in Slots /\ Revision(w) \in Nat
    BY <2>1, VisibleTyped DEF Revision, CatalogInv, CatalogTyped
  <2>3. TaskOK(r)
    BY <2>1, <2>2 DEF TaskOK, TaskRecords, Points, Slots
  <2>4. task' = [task EXCEPT ![t] = r]
    BY <1>15 DEF Compute, CatalogInv, TasksTyped
  <2>5. /\ cached' = [cached EXCEPT ![w] = catalog] /\ stale' = stale \ {w}
        /\ history' = [history EXCEPT ![w][Revision(w)] = IF @ = None THEN Visible(w) ELSE @]
        /\ UNCHANGED <<catalogVars, revisions, hydration, bound>>
    BY <1>15 DEF Compute
  <2>6. TasksTyped'
    BY <2>3, <2>4, TasksStayTyped DEF CatalogInv
  <2>7. CatalogTyped'
    <3>1. history' \in [Workspaces -> [1..(MaxOps + 1) -> Slots \cup {None}]]
      BY <2>1, <2>2, <2>5 DEF CatalogInv, CatalogTyped
    <3> QED
      BY <2>5, <3>1 DEF CatalogInv, CatalogTyped, catalogVars
  <2>8. CacheTyped'
    BY <2>1, <2>2, <2>5 DEF CatalogInv, CacheTyped
  <2>9. ASSUME NEW u \in Workspaces PROVE Current(u)'
    <3>1. Visible(u)' = Visible(u)
      BY <2>5, VisibleStays DEF catalogVars
    <3>2. CASE u = w
      BY <2>1, <2>5, <3>1, <3>2 DEF Current, Revision, CatalogInv, CacheTyped
    <3>3. CASE u # w
      <4>1. Changing(u) => Changing(u)'
        BY <2>1, <2>4, <2>5, StaysChanging DEF CatalogInv, HydrationStays
      <4>2. cached'[u] = cached[u] /\ (u \in stale => u \in stale')
        BY <2>5, <3>3 DEF CatalogInv, CacheTyped
      <4> QED
        BY <2>5, <3>1, <4>1, <4>2, StaysCurrent DEF CatalogInv
    <3> QED
      BY <3>2, <3>3
  <2> QED
    BY <2>6, <2>7, <2>8, <2>9 DEF CatalogInv, CacheIsCurrent, Current
<1>16. ASSUME NEW t \in Tasks, task[t].pc \in {"done", "broadcast"}, task' = [task EXCEPT ![t] = NoTask],
              UNCHANGED <<catalogVars, revisions, history, cached, hydration, bound, stale>>
       PROVE CatalogInv'
  <2>1. TaskOK(NoTask)
    BY DEF TaskOK, TaskRecords, NoTask, Points, Slots
  <2> QED
    BY <1>16, <2>1, OnlyATask DEF HydrationStays
<1>17. ASSUME NEW p \in Requests, Announce(p) \/ Broadcast(p) PROVE CatalogInv'
  BY <1>0, <1>16, <1>17 DEF Announce, Broadcast
<1>18. ASSUME NEW w \in Workspaces, Answer(w) PROVE CatalogInv'
  BY <1>0, <1>16, <1>18 DEF Answer
<1>19. ASSUME NEW w \in Workspaces, List(w) PROVE CatalogInv'
  <2>1. TaskOK(At(w, "resolve"))
    BY DEF TaskOK, TaskRecords, At, NoTask, Points, Slots
  <2> QED
    BY <1>0, <1>19, <2>1, OnlyATask DEF List, HydrationStays
<1>20. ASSUME UNCHANGED <<catalogVars, revisions, history, cached, hydration, task, bound, stale>>
       PROVE CatalogInv'
  <2>1. TasksTyped' /\ CatalogTyped' /\ CacheTyped'
    BY <1>20 DEF CatalogInv, TasksTyped, CatalogTyped, CacheTyped, catalogVars
  <2>2. ASSUME NEW w \in Workspaces PROVE Current(w)'
    <3>1. Visible(w)' = Visible(w) /\ (Changing(w) => Changing(w)')
      BY <1>20, VisibleStays DEF catalogVars, Changing
    <3> QED
      BY <1>20, <3>1, StaysCurrent DEF CatalogInv
  <2> QED
    BY <2>1, <2>2 DEF CatalogInv, CacheIsCurrent, Current
<1>21. ASSUME NEW key, Flush(key) PROVE CatalogInv'
  BY <1>20, <1>21 DEF Flush
<1>22. CASE UNCHANGED regVars
  BY <1>20, <1>22 DEF regVars
<1>23. ASSUME NEW p \in Requests, Operate(p) PROVE CatalogInv'
  BY <1>1, <1>2, <1>3, <1>6, <1>9, <1>10, <1>23 DEF Operate
<1>24. ASSUME RegGoesOn PROVE CatalogInv'
  <2>1. ASSUME NEW p \in Requests, TaskGoesOn(p) \/ RequestGoesOn(p) PROVE CatalogInv'
    BY <1>0, <1>4, <1>5, <1>7, <1>14, <1>15, <1>17, <2>1 DEF TaskGoesOn, RequestGoesOn
  <2>2. ASSUME NEW w \in Workspaces, TaskGoesOn(w) \/ Answer(w) \/ List(w) PROVE CatalogInv'
    BY <1>0, <1>14, <1>15, <1>18, <1>19, <2>2 DEF TaskGoesOn
  <2>3. CASE HydrationGoesOn
    BY <1>11, <1>12, <1>13, <2>3 DEF HydrationGoesOn
  <2> QED
    BY <1>21, <1>24, <2>1, <2>2, <2>3 DEF RegGoesOn
<1> QED
  BY <1>8, <1>22, <1>23, <1>24 DEF RegNext

(* Revisions and operations.  *)
(* An operation brings one revision at most: a request that is about to    *)
(* write or apply controls has one to come.                                *)
Controlling == {"controls", "apply"}
Pending == {p \in Requests : task[p].pc \in Controlling}

Budget ==
  /\ ops \in 0..bound.ops
  /\ IsFiniteSet(Pending)
  /\ \A w \in Workspaces : revisions[w] + Cardinality(Pending) <= ops

RestTyped ==
  /\ scopeOf \in [Versions -> {"none", "workspace", "global"}]
  /\ disabled \subseteq Workspaces /\ hydrated \in BOOLEAN
  /\ \A w \in Workspaces : cached[w].revision \in 0..(MaxOps + 1)
  /\ view \in [Workspaces -> Slots]
  /\ events \subseteq Workspaces \cup {Absent}
  /\ notified \subseteq Workspaces /\ stale \subseteq Workspaces

LEMMA LimitTyped ==
  ASSUME CacheTyped
  PROVE  /\ bound.ops \in 0..MaxOps /\ bound.ops \in Nat /\ MaxOps \in Nat
         /\ bound.used \subseteq Workspaces /\ bound.clients \subseteq Workspaces
  BY RegistryAssumption DEF CacheTyped

LEMMA RevisionBound ==
  ASSUME CatalogTyped, CacheTyped, Budget
  PROVE  revisions \in [Workspaces -> 0..MaxOps]
<1>1. Cardinality(Pending) \in Nat
  BY FS_CardinalityType DEF Budget
<1>2. ASSUME NEW w \in Workspaces PROVE revisions[w] \in 0..MaxOps
  <2>1. revisions[w] \in Nat /\ ops \in Nat /\ ops <= MaxOps
    BY LimitTyped DEF CatalogTyped, Budget
  <2>2. revisions[w] + Cardinality(Pending) <= ops
    BY DEF Budget
  <2> QED  BY <1>1, <2>1, <2>2, LimitTyped
<1> QED  BY <1>2 DEF CatalogTyped

(* What a step may do to the number of requests and of revisions.          *)
Bumps == revisions' = revisions \/ \E w \in Workspaces : NextRevision(w)
NothingBegins == Pending' = Pending /\ UNCHANGED <<ops, revisions, bound>>
OneBegins == ops < bound.ops /\ ops' = ops + 1 /\ bound' = bound
BeginsAndBumps == OneBegins /\ Pending' = Pending /\ Bumps
BeginsControl == OneBegins /\ revisions' = revisions /\ \E p \in Requests \ Pending : Pending' = Pending \cup {p}
ControlBumps ==
  /\ \E p \in Pending : Pending' = Pending \ {p}
  /\ \E w \in Workspaces : NextRevision(w)
  /\ UNCHANGED <<ops, bound>>

LEMMA BudgetIsKept ==
  ASSUME CatalogTyped, CacheTyped, Budget,
         NothingBegins \/ BeginsAndBumps \/ BeginsControl \/ ControlBumps
  PROVE  Budget'
<1>0. /\ IsFiniteSet(Pending) /\ Cardinality(Pending) \in Nat /\ ops \in Nat /\ bound.ops \in Nat
      /\ ops \in 0..bound.ops
      /\ \A w \in Workspaces : revisions[w] \in Nat /\ revisions[w] + Cardinality(Pending) <= ops
  BY LimitTyped, FS_CardinalityType DEF Budget, CatalogTyped
<1>1. ASSUME NEW w \in Workspaces, NextRevision(w)
      PROVE  \A u \in Workspaces : revisions'[u] \in Nat /\ revisions'[u] <= revisions[u] + 1
  BY <1>0, <1>1 DEF NextRevision, CatalogTyped
<1>2. CASE NothingBegins
  BY <1>2 DEF NothingBegins, Budget
<1>3. CASE BeginsAndBumps
  <2>1. \A u \in Workspaces : revisions'[u] \in Nat /\ revisions'[u] <= revisions[u] + 1
    BY <1>0, <1>1, <1>3 DEF BeginsAndBumps, Bumps
  <2>2. ops' \in 0..bound'.ops
    BY <1>0, <1>3 DEF BeginsAndBumps, OneBegins
  <2>3. \A u \in Workspaces : revisions'[u] + Cardinality(Pending) <= ops'
    BY <1>0, <1>3, <2>1 DEF BeginsAndBumps, OneBegins
  <2> QED  BY <1>0, <1>3, <2>2, <2>3 DEF BeginsAndBumps, Budget
<1>4. CASE BeginsControl
  <2>1. PICK p \in Requests \ Pending : Pending' = Pending \cup {p}
    BY <1>4 DEF BeginsControl
  <2>2. IsFiniteSet(Pending') /\ Cardinality(Pending') = Cardinality(Pending) + 1
    BY <1>0, <2>1, FS_AddElement
  <2>3. ops' \in 0..bound'.ops
    BY <1>0, <1>4 DEF BeginsControl, OneBegins
  <2>4. \A u \in Workspaces : revisions'[u] + Cardinality(Pending') <= ops'
    BY <1>0, <1>4, <2>2 DEF BeginsControl, OneBegins
  <2> QED  BY <2>2, <2>3, <2>4 DEF Budget
<1>5. CASE ControlBumps
  <2>1. PICK p \in Pending : Pending' = Pending \ {p}
    BY <1>5 DEF ControlBumps
  <2>2. IsFiniteSet(Pending') /\ Cardinality(Pending') = Cardinality(Pending) - 1
    BY <1>0, <2>1, FS_RemoveElement
  <2>3. \A u \in Workspaces : revisions'[u] \in Nat /\ revisions'[u] <= revisions[u] + 1
    BY <1>1, <1>5 DEF ControlBumps
  <2>4. ops' \in 0..bound'.ops
    BY <1>0, <1>5 DEF ControlBumps
  <2>5. \A u \in Workspaces : revisions'[u] + Cardinality(Pending') <= ops'
    BY <1>0, <1>5, <2>2, <2>3 DEF ControlBumps
  <2> QED  BY <2>2, <2>4, <2>5 DEF Budget
<1> QED  BY <1>2, <1>3, <1>4, <1>5

(* A task that goes on outside the controls, and one that enters them.     *)
LEMMA PendingStays ==
  ASSUME TasksTyped, NEW t \in Tasks, NEW r, task' = [task EXCEPT ![t] = r],
         t \in Requests => (r.pc \in Controlling <=> task[t].pc \in Controlling)
  PROVE  Pending' = Pending
  BY DEF Pending, TasksTyped, Tasks

LEMMA PendingChanges ==
  ASSUME TasksTyped, NEW p \in Requests, NEW r, task' = [task EXCEPT ![p] = r]
  PROVE  /\ r.pc \in Controlling => Pending' = Pending \cup {p}
         /\ r.pc \notin Controlling => Pending' = Pending \ {p}
  BY DEF Pending, TasksTyped, Tasks

LEMMA PendingOutlasts ==
  ASSUME TasksTyped, HydrationEnds
  PROVE  Pending' = Pending
<1>1. \A p \in Requests : task'[p].pc \in Controlling <=> task[p].pc \in Controlling
  BY DEF HydrationEnds, TasksTyped, TaskRecords, Points, Tasks, Controlling
<1> QED  BY <1>1 DEF Pending

(* Each action has one of the effects above.                               *)
BudgetStep == NothingBegins \/ BeginsAndBumps \/ BeginsControl \/ ControlBumps

LEMMA StepBudget == CatalogInv /\ [RegNext]_regVars => BudgetStep
<1> SUFFICES ASSUME CatalogInv, [RegNext]_regVars PROVE BudgetStep
  OBVIOUS
<1>0. /\ TasksTyped /\ Requests \subseteq Tasks /\ Workspaces \subseteq Tasks
      /\ Requests \cap Workspaces = {} /\ bound.used \subseteq Workspaces
  BY RegistryAssumption, LimitTyped DEF CatalogInv, Tasks
<1>1. ASSUME NEW p \in Requests, NEW w \in Workspaces, NEW v,
             Activate(p, w, v) \/ CloudSync(p, w, v) \/ Deactivate(p, w)
      PROVE  BeginsAndBumps
  <2>1. Begin(p, At(w, "resolve")) /\ bound' = bound /\ Bumps
    BY <1>1 DEF Activate, CloudSync, Deactivate, Untouched, Bumps
  <2>2. Pending' = Pending
    BY <1>0, <2>1, PendingStays DEF Begin, At, NoTask, Controlling
  <2> QED  BY <2>1, <2>2 DEF BeginsAndBumps, OneBegins, Begin
<1>2. ASSUME NEW p \in Requests, NEW w \in Workspaces, Refresh(p, w) PROVE BeginsAndBumps
  <2>1. Begin(p, At(w, "refreshing")) /\ bound' = bound /\ Bumps
    BY <1>2 DEF Refresh, Bumps
  <2>2. Pending' = Pending
    BY <1>0, <2>1, PendingStays DEF Begin, At, NoTask, Controlling
  <2> QED  BY <2>1, <2>2 DEF BeginsAndBumps, OneBegins, Begin
<1>3. ASSUME NEW p \in Requests, NEW w \in Workspaces, NEW r, RollbackCatalog(p, w, r)
      PROVE  BeginsAndBumps
  <2>1. Begin(p, At(w, "record")) /\ bound' = bound /\ Bumps
    BY <1>3 DEF RollbackCatalog, Untouched, Bumps
  <2>2. Pending' = Pending
    BY <1>0, <2>1, PendingStays DEF Begin, At, NoTask, Controlling
  <2> QED  BY <2>1, <2>2 DEF BeginsAndBumps, OneBegins, Begin
<1>4. ASSUME NEW p \in Requests, NEW w, NEW op, NEW v, Control(p, w, op, v) PROVE BeginsControl
  <2>1. PICK r : /\ Begin(p, r) /\ r.pc = "controls" /\ bound' = bound /\ revisions' = revisions
    BY <1>4 DEF Control, Untouched, At, NoTask
  <2>2. Pending' = Pending \cup {p}
    BY <1>0, <2>1, PendingChanges DEF Begin, Controlling
  <2>3. p \notin Pending
    BY <2>1 DEF Begin, Pending, Controlling
  <2> QED  BY <2>1, <2>2, <2>3 DEF BeginsControl, OneBegins, Begin
<1>5. ASSUME NEW p \in Requests, ApplyControls(p) PROVE ControlBumps
  <2>1. p \in Pending /\ task[p].ws \in Workspaces
    BY <1>0, <1>5 DEF ApplyControls, Pending, Controlling, TasksTyped, TaskOK
  <2>2. /\ task' = [task EXCEPT ![p] = At(task[p].ws, "resolve")]
        /\ NextRevision(task[p].ws) /\ ops' = ops /\ bound' = bound
    BY <1>5 DEF ApplyControls, Untouched
  <2>3. Pending' = Pending \ {p}
    <3>1. At(task[p].ws, "resolve").pc \notin Controlling
      BY DEF At, NoTask, Controlling
    <3> QED  BY <1>0, <2>2, <3>1, PendingChanges
  <2> QED  BY <2>1, <2>2, <2>3 DEF ControlBumps
<1>6. ASSUME NEW p \in Requests, WriteControls(p) PROVE NothingBegins
  <2>1. /\ task' = [task EXCEPT ![p] = [task[p] EXCEPT !.pc = "apply"]] /\ task[p].pc = "controls"
        /\ UNCHANGED <<ops, revisions, bound>>
    BY <1>0, <1>6 DEF WriteControls, Goto, Untouched, TasksTyped
  <2>2. [task[p] EXCEPT !.pc = "apply"].pc = "apply"
    BY <1>0 DEF TasksTyped, TaskRecords
  <2>3. Pending' = Pending
    BY <1>0, <2>1, <2>2, PendingStays DEF Controlling
  <2> QED  BY <2>1, <2>3 DEF NothingBegins
<1>7. ASSUME NEW t \in Tasks, NEW r, task' = [task EXCEPT ![t] = r],
             r.pc \notin Controlling, task[t].pc \notin Controlling,
             UNCHANGED <<ops, revisions, bound>>
      PROVE  NothingBegins
  BY <1>0, <1>7, PendingStays DEF NothingBegins
<1>8. ASSUME NEW t \in Tasks, NEW point, Goto(t, point), point \notin Controlling,
             task[t].pc \notin Controlling, UNCHANGED <<ops, revisions, bound>>
      PROVE  NothingBegins
  <2>1. task' = [task EXCEPT ![t] = [task[t] EXCEPT !.pc = point]]
    BY <1>0, <1>8 DEF Goto, TasksTyped
  <2>2. [task[t] EXCEPT !.pc = point].pc = point
    BY <1>0 DEF TasksTyped, TaskRecords
  <2> QED  BY <1>7, <1>8, <2>1, <2>2
<1>9. ASSUME NEW p \in Requests, RecordRollback(p) \/ Announce(p) \/ Broadcast(p) PROVE NothingBegins
  <2>1. CASE RecordRollback(p)
    BY <1>0, <1>8, <2>1 DEF RecordRollback, Untouched, Controlling
  <2>2. CASE Announce(p) \/ Broadcast(p)
    BY <1>0, <1>7, <2>2 DEF Announce, Broadcast, NoTask, Controlling
  <2> QED  BY <1>9, <2>1, <2>2
<1>10. ASSUME NEW t \in Tasks, TaskGoesOn(t) PROVE NothingBegins
  <2>1. UNCHANGED <<ops, revisions, bound>> /\ task[t].pc \notin Controlling
    BY <1>10 DEF TaskGoesOn, Resolve, Compute, Controlling
  <2>2. PICK point \in {"done", "compute", "hydrating"} :
          \/ Goto(t, point)
          \/ \E answer : task' = [task EXCEPT ![t].pc = point, ![t].answer = answer]
    BY <1>10 DEF TaskGoesOn, Resolve, Compute
  <2>3. CASE Goto(t, point)
    BY <1>8, <2>1, <2>3 DEF Controlling
  <2>4. ASSUME NEW answer, task' = [task EXCEPT ![t].pc = point, ![t].answer = answer]
        PROVE  NothingBegins
    <3>1. task' = [task EXCEPT ![t] = [task[t] EXCEPT !.pc = point, !.answer = answer]]
      BY <1>0, <2>4 DEF TasksTyped
    <3>2. [task[t] EXCEPT !.pc = point, !.answer = answer].pc = point
      BY <1>0 DEF TasksTyped, TaskRecords
    <3> QED  BY <1>7, <2>1, <3>1, <3>2 DEF Controlling
  <2> QED  BY <2>2, <2>3, <2>4
<1>11. ASSUME NEW w \in Workspaces, Answer(w) \/ List(w) PROVE NothingBegins
  BY <1>0, <1>7, <1>11 DEF Answer, List, At, NoTask, Controlling
<1>12. ASSUME HydrationGoesOn PROVE NothingBegins
  <2>1. UNCHANGED <<ops, revisions, bound>> /\ (HydrationEnds \/ task' = task)
    BY <1>12 DEF HydrationGoesOn, HydrateFails, HydrateTool, HydrateDeployment
  <2>2. Pending' = Pending
    BY <1>0, <2>1, PendingOutlasts DEF Pending
  <2> QED  BY <2>1, <2>2 DEF NothingBegins
<1>13. ASSUME NEW v, Stage(v) PROVE BeginsAndBumps
  BY <1>13 DEF Stage, Untouched, BeginsAndBumps, OneBegins, Bumps, Pending
<1>14. ASSUME (\E key : Flush(key)) \/ UNCHANGED regVars PROVE NothingBegins
  BY <1>14 DEF Flush, regVars, NothingBegins, Pending
<1>15. CASE RegGoesOn
  BY <1>0, <1>5, <1>6, <1>9, <1>10, <1>11, <1>12, <1>14, <1>15 DEF RegGoesOn, RequestGoesOn, BudgetStep
<1>16. ASSUME NEW p \in Requests, Operate(p) PROVE BudgetStep
  <2>1. PICK w \in Workspaces :
          \/ \E v \in Versions : Activate(p, w, v) \/ CloudSync(p, w, v)
          \/ Deactivate(p, w) \/ Refresh(p, w)
          \/ \E op, v : Control(p, w, op, v)
          \/ \E r : RollbackCatalog(p, w, r)
    BY <1>0, <1>16 DEF Operate
  <2>2. CASE \E v \in Versions : Activate(p, w, v) \/ CloudSync(p, w, v)
    BY <1>1, <2>2 DEF BudgetStep
  <2>3. CASE Deactivate(p, w) \/ Refresh(p, w)
    BY <1>1, <1>2, <2>3 DEF BudgetStep
  <2>4. CASE \E op, v : Control(p, w, op, v)
    BY <1>4, <2>4 DEF BudgetStep
  <2>5. CASE \E r : RollbackCatalog(p, w, r)
    BY <1>3, <2>5 DEF BudgetStep
  <2> QED  BY <2>1, <2>2, <2>3, <2>4, <2>5
<1> QED
  BY <1>13, <1>14, <1>15, <1>16 DEF RegNext, BudgetStep

(* The rest of the types, one variable at a time.                          *)
LEMMA StepRest == CatalogInv /\ Budget /\ RestTyped /\ [RegNext]_regVars => RestTyped'
<1> SUFFICES ASSUME CatalogInv, Budget, RestTyped, [RegNext]_regVars PROVE RestTyped'
  OBVIOUS
<1>0. /\ TasksTyped /\ CatalogTyped /\ CacheTyped /\ Requests \subseteq Tasks /\ Workspaces \subseteq Tasks
      /\ bound.used \subseteq Workspaces /\ bound.clients \subseteq Workspaces /\ MaxOps \in Nat
      /\ bound.listed \subseteq Slots
  BY RegistryAssumption, LimitTyped DEF CatalogInv, CacheTyped, Tasks, Slots
<1>1. ASSUME NEW w, Invalidate(w)
      PROVE  /\ \A u \in Workspaces : cached'[u].revision \in 0..(MaxOps + 1)
             /\ stale' \subseteq Workspaces
  BY <1>0, <1>1 DEF Invalidate, Nothing, RestTyped, CacheTyped
<1>2. \A v, scope : scope \in {"workspace", "global"} /\ scopeOf' = [scopeOf EXCEPT ![v] = scope]
         => scopeOf' \in [Versions -> {"none", "workspace", "global"}]
  BY DEF RestTyped
<1>3. \A v : ManifestScope(v) \in {"workspace", "global"}
  BY DEF ManifestScope
<1>4. ASSUME NEW p \in Requests, NEW w \in Workspaces, NEW v,
             Activate(p, w, v) \/ Deactivate(p, w) \/ RollbackCatalog(p, w, v)
      PROVE  RestTyped'
  BY <1>1, <1>4 DEF Activate, Deactivate, RollbackCatalog, Untouched, RestTyped
<1>5. ASSUME NEW p \in Requests, NEW w \in Workspaces, NEW op, NEW v, Control(p, w, op, v)
      PROVE  RestTyped'
  BY <1>5 DEF Control, Untouched, catalogVars, RestTyped
<1>6. ASSUME NEW p \in Requests, NEW w \in Workspaces, NEW v \in Versions, CloudSync(p, w, v)
      PROVE  RestTyped'
  BY <1>2, <1>3, <1>6 DEF CloudSync, Register, PassesOver, Untouched, RestTyped
<1>6a. ASSUME NEW v \in Versions, Stage(v) PROVE RestTyped'
  BY <1>2, <1>3, <1>6a DEF Stage, Register, PassesOver, Untouched, RestTyped
<1>7. ASSUME NEW p \in Requests, NEW w \in Workspaces, Refresh(p, w) PROVE RestTyped'
  BY <1>7 DEF Refresh, catalogVars, RestTyped
<1>8. ASSUME NEW p \in Requests, WriteControls(p) PROVE RestTyped'
  <2>1. task[p].ws \in Workspaces
    BY <1>0, <1>8 DEF WriteControls, TasksTyped, TaskOK
  <2>2. disabled' \subseteq Workspaces
    BY <1>8, <2>1 DEF WriteControls, RestTyped
  <2> QED  BY <1>8, <2>2 DEF WriteControls, Untouched, RestTyped
<1>9. ASSUME NEW p \in Requests, ApplyControls(p) \/ RecordRollback(p) PROVE RestTyped'
  BY <1>1, <1>9 DEF ApplyControls, RecordRollback, Untouched, RestTyped
<1>10. ASSUME NEW loaded, AllDropped(loaded)
       PROVE  /\ \A u \in Workspaces : cached'[u].revision \in 0..(MaxOps + 1)
              /\ stale' \subseteq Workspaces /\ events' \subseteq Workspaces \cup {Absent}
  BY <1>0, <1>10 DEF AllDropped, Nothing, RestTyped, CacheTyped
<1>11. ASSUME NEW found \in bound.listed, HydrateTool(found) PROVE RestTyped'
  <2>1. scopeOf' \in [Versions -> {"none", "workspace", "global"}] /\ disabled' = disabled
    BY <1>2, <1>3, <1>11 DEF HydrateTool, catalogVars, RestTyped
  <2>2. UNCHANGED <<view, notified>>
    BY <1>11 DEF HydrateTool
  <2>3. /\ hydrated' \in BOOLEAN
        /\ \A u \in Workspaces : cached'[u].revision \in 0..(MaxOps + 1)
        /\ stale' \subseteq Workspaces /\ events' \subseteq Workspaces \cup {Absent}
    BY <1>10, <1>11 DEF HydrateTool, HydrationEnds, RestTyped
  <2> QED  BY <2>1, <2>2, <2>3 DEF RestTyped
<1>12. ASSUME NEW found, HydrateDeployment(found) \/ HydrateFails PROVE RestTyped'
  BY <1>10, <1>12 DEF HydrateDeployment, HydrateFails, HydrationEnds, catalogVars, RestTyped
<1>13. ASSUME NEW t \in Tasks, Resolve(t) PROVE RestTyped'
  BY <1>13 DEF Resolve, catalogVars, RestTyped
<1>14. ASSUME NEW t \in Tasks, Compute(t) PROVE RestTyped'
  <2>1. task[t].ws \in Workspaces
    BY <1>0, <1>14 DEF Compute, TasksTyped, TaskOK
  <2>2. Revision(task[t].ws) \in 0..(MaxOps + 1)
    BY <1>0, <2>1, RevisionBound DEF Revision
  <2>3. /\ stale' = stale \ {task[t].ws}
        /\ cached' = [cached EXCEPT ![task[t].ws] = [version |-> Visible(task[t].ws),
                                                       revision |-> Revision(task[t].ws)]]
    BY <1>14 DEF Compute
  <2>4. \A u \in Workspaces : cached'[u].revision \in 0..(MaxOps + 1)
    BY <1>0, <2>2, <2>3 DEF RestTyped, CacheTyped
  <2> QED  BY <1>14, <2>3, <2>4 DEF Compute, catalogVars, RestTyped
<1>15. ASSUME NEW p \in Requests, Announce(p) \/ Broadcast(p) PROVE RestTyped'
  <2>1. task[p].pc # "idle" => task[p].ws \in Workspaces
    BY <1>0 DEF TasksTyped, TaskOK
  <2> QED  BY <1>0, <1>15, <2>1 DEF Announce, Broadcast, catalogVars, RestTyped
<1>16. ASSUME NEW w \in Workspaces, Answer(w) \/ List(w) PROVE RestTyped'
  <2>1. task[w].answer \in Slots
    BY <1>0 DEF TasksTyped, TaskRecords
  <2> QED  BY <1>16, <2>1 DEF Answer, List, catalogVars, RestTyped
<1>17. ASSUME NEW key, Flush(key) PROVE RestTyped'
  BY <1>0, <1>17 DEF Flush, catalogVars, RestTyped
<1>18. CASE UNCHANGED regVars
  BY <1>18 DEF regVars, catalogVars, RestTyped
<1>19. CASE RegGoesOn
  <2>1. ASSUME NEW p \in Requests, TaskGoesOn(p) \/ RequestGoesOn(p) PROVE RestTyped'
    BY <1>0, <1>8, <1>9, <1>13, <1>14, <1>15, <2>1 DEF TaskGoesOn, RequestGoesOn
  <2>2. ASSUME NEW w \in Workspaces, TaskGoesOn(w) \/ Answer(w) \/ List(w) PROVE RestTyped'
    BY <1>0, <1>13, <1>14, <1>16, <2>2 DEF TaskGoesOn
  <2>3. CASE HydrationGoesOn
    BY <1>11, <1>12, <2>3 DEF HydrationGoesOn
  <2> QED  BY <1>17, <1>19, <2>1, <2>2, <2>3 DEF RegGoesOn
<1>20. ASSUME NEW p \in Requests, Operate(p) PROVE RestTyped'
  BY <1>0, <1>4, <1>5, <1>6, <1>7, <1>20 DEF Operate
<1> QED  BY <1>6a, <1>18, <1>19, <1>20 DEF RegNext

LEMMA InitRest == RegInit => Budget /\ RestTyped
<1> SUFFICES ASSUME RegInit PROVE Budget /\ RestTyped
  OBVIOUS
<1>1. CacheTyped
  BY InitCatalog DEF CatalogInv
<1>2. bound.ops \in Nat /\ MaxOps \in Nat /\ bound.clients \subseteq Workspaces
  BY <1>1, LimitTyped
<1>3. Pending = {}
  BY DEF RegInit, Pending, Controlling, NoTask, Tasks
<1>4. IsFiniteSet(Pending) /\ Cardinality(Pending) = 0
  BY <1>3, FS_EmptySet
<1>5. Budget
  BY <1>2, <1>4 DEF RegInit, Budget
<1>6. RestTyped
  <2>1. scopeOf \in [Versions -> {"none", "workspace", "global"}] /\ disabled \subseteq Workspaces
    BY DEF RegInit
  <2>2. \A w \in Workspaces : cached[w].revision \in 0..(MaxOps + 1)
    BY <1>2 DEF RegInit, Nothing
  <2>3. /\ view \in [Workspaces -> Slots] /\ events = {} /\ notified \subseteq Workspaces
        /\ stale = {} /\ hydrated \in BOOLEAN
    BY <1>2 DEF RegInit, Slots
  <2> QED  BY <2>1, <2>2, <2>3 DEF RestTyped
<1> QED  BY <1>5, <1>6

(* The catalog, the budget and the types hold always, whether or not       *)
(* promises and timers go on.                                              *)
CatalogSafe == CatalogInv /\ Budget /\ RestTyped

LEMMA CatalogIsSafe == RegInit /\ [][RegNext]_regVars => []CatalogSafe
<1>1. RegInit => CatalogSafe
  BY InitCatalog, InitRest DEF CatalogSafe
<1>2. CatalogSafe /\ [RegNext]_regVars => CatalogSafe'
  <2> SUFFICES ASSUME CatalogSafe, [RegNext]_regVars PROVE CatalogInv' /\ Budget' /\ RestTyped'
    BY DEF CatalogSafe
  <2>1. Budget'
    BY StepBudget, BudgetIsKept DEF BudgetStep, CatalogInv, CatalogSafe
  <2> QED  BY <2>1, StepCatalog, StepRest DEF CatalogSafe
<1> HIDE DEF RegInit, RegNext, regVars, CatalogSafe
<1> QED  BY <1>1, <1>2, PTL

LEMMA CatalogIsTyped == RegInit /\ [][RegNext]_regVars => []RegTypeOK
<1>1. CatalogSafe => RegTypeOK
  <2> SUFFICES ASSUME CatalogInv, Budget, RestTyped PROVE RegTypeOK
    BY DEF CatalogSafe
  <2>1. CatalogTyped /\ CacheTyped
    BY DEF CatalogInv
  <2>2. revisions \in [Workspaces -> 0..MaxOps]
    BY <2>1, RevisionBound
  <2>3. cached \in [Workspaces -> Catalogs]
    BY <2>1 DEF CacheTyped, RestTyped, Catalogs
  <2> QED  BY <2>1, <2>2, <2>3 DEF RegTypeOK, CatalogTyped, CacheTyped, RestTyped, Budget
<1> HIDE DEF RegInit, RegNext, regVars, CatalogSafe, RegTypeOK
<1> QED  BY <1>1, CatalogIsSafe, PTL

(* A cached catalog is what resolveCatalog would compute and carries the   *)
(* current revision, however operations, hydrations and clients' requests  *)
(* interleave, except where a shared version passed over it.               *)
THEOREM CacheStaysCurrent == RegSpec => []CacheIsCurrent
<1>1. CatalogSafe => CacheIsCurrent
  BY DEF CatalogSafe, CatalogInv
<1> HIDE DEF RegInit, RegNext, regVars, CatalogSafe, CacheIsCurrent
<1> QED  BY <1>1, CatalogIsSafe, PTL DEF RegSpec

(* Every variable of the registry keeps its type: a workspace has no more  *)
(* revisions than operations were begun, however they interleave, and the  *)
(* snapshot history a place for each of them (registry.ts 806).            *)
THEOREM RegistryTyped == RegSpec => []RegTypeOK
<1> HIDE DEF RegInit, RegNext, regVars, RegTypeOK
<1> QED  BY CatalogIsTyped, PTL DEF RegSpec

-----------------------------------------------------------------------------
(* Beside each other.  *)
(* A behaviour of the instance that MCTailing gives TLC is one of each of  *)
(* its components: the others stand still.                                 *)
THEOREM TailingComposes ==
  MCSpec => Spec /\ TailSpec /\ LockSpec /\ RegInit /\ [][RegNext]_regVars
<1>1. MCInit => Init /\ TailInit /\ LockInit /\ RegInit
  BY DEF MCInit
<1>2. [MCNext]_MCVars =>
        [Next]_vars /\ [TailNext]_tailVars /\ [LockNext]_lockVars /\ [RegNext]_regVars
  BY DEF MCNext, MCVars, InTransactions, InTail, InLock, InCatalog
<1> HIDE DEF MCInit, Init, TailInit, LockInit, RegInit, MCNext, Next, TailNext, LockNext,
             RegNext, MCVars, vars, tailVars, lockVars, regVars, InTransactions, InTail, InLock,
             InCatalog
<1> QED  BY <1>1, <1>2, PTL DEF MCSpec, Spec, TailSpec, LockSpec

(* Every variable keeps its type in that instance.                         *)
THEOREM AllTyped == MCSpec => []TypesOK
<1>1. TailTypeOK /\ LockTypeOK /\ RegTypeOK => TypesOK
  BY DEF TypesOK
<1> HIDE DEF MCSpec, Spec, TailSpec, LockSpec, RegInit, RegNext, regVars, TailTypeOK, LockTypeOK,
             RegTypeOK, TypesOK
<1> QED  BY <1>1, TailingComposes, TailTypes, LockTypeCorrect, CatalogIsTyped, PTL
=============================================================================
