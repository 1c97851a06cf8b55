--------------------------- MODULE Rollouts_proofs ---------------------------
(* Proofs about both halves of a staged rollout: the gateway's router and  *)
(* the cloud's rollouts, each for every value of its constants.            *)
EXTENDS MCRollouts, OrderFacts, SequenceTheorems, FiniteSetTheorems, TLAPS

(***************************************************************************)
(* The canary router: every set of versions, sessions and calls in flight, *)
(* every threshold, and SQLite writes that may fail.                       *)
(***************************************************************************)
(* A version quarantined while it is being registered is known as raced.   *)
RacingKnown ==
  \A p \in Procs : task[p].pc = "register" /\ task[p].version \in quarantined
                    => task[p].version \in raced

(* Every quarantined version is in the table or its write failed. *)
QuarantineWritten == quarantined \subseteq dbQuarantine \cup unwritten

RaceInv == OnlyRacingRegistrationRevives /\ RacingKnown /\ QuarantineWritten

LEMMA EmptyIsHealthy == ~Breach(EmptyMetrics)
  BY CanaryAssumption DEF Breach, EmptyMetrics

(* A recorded outcome keeps the counters in proportion. *)
LEMMA RecordedCounts ==
  ASSUME MetricsOK, metrics.total < MaxCalls, NEW o,
         "violation" \in o => "failed" \in o, metrics' = Recorded(metrics, o)
  PROVE  MetricsOK'
  BY CanaryAssumption DEF MetricsOK, MetricsType, Recorded, Count

LEMMA InitInv == Init => TypeOK /\ RaceInv /\ BreachIsHandled
<1> SUFFICES ASSUME Init PROVE TypeOK /\ RaceInv /\ BreachIsHandled
  OBVIOUS
<1>1. EntriesOK
  BY DEF Init, EntriesOK, EntryOK, CanaryType, NoCanary, Versions
<1>2. MetricsOK
  BY CanaryAssumption DEF Init, MetricsOK, MetricsType, EmptyMetrics
<1>3. QuarantineOK /\ TasksOK
  BY DEF Init, QuarantineOK, TasksOK, TaskType, Pcs, Carrying, Idle
<1>4. RaceInv /\ BreachIsHandled
  BY DEF Init, RaceInv, OnlyRacingRegistrationRevives, RacingKnown,
     QuarantineWritten, BreachIsHandled, Active, NoCanary, Idle
<1> QED
  BY <1>1, <1>2, <1>3, <1>4 DEF TypeOK

LEMMA StepTypeOK == TypeOK /\ [Next]_vars => TypeOK'
<1> SUFFICES ASSUME TypeOK, [Next]_vars PROVE TypeOK'
  OBVIOUS
<1> USE DEF TypeOK
<1>1. ASSUME NEW p \in Procs, NEW v \in Candidates, NEW s \in StableChoices, RegisterCheck(p, v, s) PROVE TypeOK'
  <2>1. (EntriesOK /\ MetricsOK /\ QuarantineOK)'
    BY <1>1 DEF RegisterCheck, quarantineVars, EntriesOK, MetricsOK,
       QuarantineOK
  <2>2. TasksOK'
    BY <1>1 DEF RegisterCheck, Goto, StableChoices, TasksOK, TaskType, Pcs,
       Carrying, Idle, EntriesOK
  <2> QED
    BY <2>1, <2>2
<1>2. ASSUME NEW p \in Procs, CallStart(p) PROVE TypeOK'
  <2>1. (EntriesOK /\ MetricsOK /\ QuarantineOK)'
    BY <1>2 DEF CallStart, quarantineVars, EntriesOK, MetricsOK,
       QuarantineOK
  <2>2. TasksOK'
    BY <1>2 DEF CallStart, Goto, TasksOK, TaskType, Pcs, Carrying, Idle
  <2> QED
    BY <2>1, <2>2
<1>3. ASSUME NEW p \in Procs, Promote(p) PROVE TypeOK'
  <2>1. EntriesOK'
    BY <1>3 DEF Promote, EntriesOK, EntryOK, CanaryType, Versions, Active
  <2>2. MetricsOK'
    BY <1>3 DEF Promote, MetricsOK
  <2>3. QuarantineOK'
    BY <1>3 DEF Promote, QuarantineOK, quarantineVars
  <2>4. TasksOK'
    BY <1>3 DEF Promote, Goto, TasksOK, TaskType, Pcs, Carrying, Idle,
       EntriesOK, EntryOK, CanaryType
  <2> QED
    BY <2>1, <2>2, <2>3, <2>4
<1>4. ASSUME NEW p \in Procs, RegisterRefused(p) PROVE TypeOK'
  <2>1. (EntriesOK /\ MetricsOK /\ QuarantineOK)'
    BY <1>4 DEF RegisterRefused, quarantineVars, EntriesOK, MetricsOK,
       QuarantineOK
  <2>2. TasksOK'
    BY <1>4 DEF RegisterRefused, Return, TasksOK, TaskType, Pcs, Carrying,
       Idle
  <2> QED
    BY <2>1, <2>2
<1>5. ASSUME NEW p \in Procs, NEW strategy \in Strategies, RegisterCommit(p, strategy) PROVE TypeOK'
  <2>1. EntriesOK'
    BY <1>5 DEF RegisterCommit, WriteRow, EntriesOK, EntryOK, CanaryType,
       Versions, TasksOK, TaskType, Carrying
  <2>2. MetricsOK'
    BY <1>5, CanaryAssumption DEF RegisterCommit, MetricsOK, MetricsType,
       EmptyMetrics
  <2>3. QuarantineOK'
    BY <1>5 DEF RegisterCommit, QuarantineOK, quarantineVars
  <2>4. TasksOK'
    BY <1>5 DEF RegisterCommit, Return, WriteRow, TasksOK, TaskType, Pcs,
       Carrying, Idle
  <2> QED
    BY <2>1, <2>2, <2>3, <2>4
<1>6. ASSUME NEW p \in Procs, NEW session \in Sessions, RouteCandidate(p, session) PROVE TypeOK'
  <2>1. (EntriesOK /\ MetricsOK /\ QuarantineOK)'
    BY <1>6 DEF RouteCandidate, quarantineVars, EntriesOK, MetricsOK,
       QuarantineOK
  <2>2. TasksOK'
    BY <1>6 DEF RouteCandidate, Goto, TasksOK, TaskType, Pcs, Carrying,
       Idle, EntriesOK, EntryOK, Active
  <2> QED
    BY <2>1, <2>2
<1>7. ASSUME NEW p \in Procs, NEW session \in Sessions, RouteStable(p, session) PROVE TypeOK'
  <2>1. (EntriesOK /\ MetricsOK /\ QuarantineOK)'
    BY <1>7 DEF RouteStable, quarantineVars, EntriesOK, MetricsOK,
       QuarantineOK
  <2>2. TasksOK'
    BY <1>7 DEF RouteStable, Return, TasksOK, TaskType, Pcs, Carrying, Idle
  <2> QED
    BY <2>1, <2>2
<1>8. ASSUME NEW p \in Procs, Dispatch(p) PROVE TypeOK'
  <2>1. (EntriesOK /\ MetricsOK /\ QuarantineOK)'
    BY <1>8 DEF Dispatch, quarantineVars, EntriesOK, MetricsOK, QuarantineOK
  <2>2. TasksOK'
    BY <1>8 DEF Dispatch, Goto, Return, TasksOK, TaskType, Pcs, Carrying,
       Idle
  <2> QED
    BY <2>1, <2>2
<1>9. ASSUME NEW p \in Procs, ShadowStart(p) PROVE TypeOK'
  <2>1. (EntriesOK /\ MetricsOK /\ QuarantineOK)'
    BY <1>9 DEF ShadowStart, quarantineVars, EntriesOK, MetricsOK,
       QuarantineOK
  <2>2. TasksOK'
    BY <1>9 DEF ShadowStart, Goto, Return, TasksOK, TaskType, Pcs, Carrying,
       Idle
  <2> QED
    BY <2>1, <2>2
<1>10. ASSUME NEW p \in Procs, UntrackedEnd(p) PROVE TypeOK'
  <2>1. (EntriesOK /\ MetricsOK /\ QuarantineOK)'
    BY <1>10 DEF UntrackedEnd, quarantineVars, EntriesOK, MetricsOK,
       QuarantineOK
  <2>2. TasksOK'
    BY <1>10 DEF UntrackedEnd, Return, TasksOK, TaskType, Pcs, Carrying,
       Idle
  <2> QED
    BY <2>1, <2>2
<1>11. ASSUME NEW p \in Procs, NEW outcome \in Outcomes(task[p].pc), Record(p, outcome) PROVE TypeOK'
  <2>1. EntriesOK'
    BY <1>11 DEF Record, EntriesOK, EntryOK, CanaryType, Versions
  <2>2. MetricsOK'
    BY <1>11, RecordedCounts DEF Record, Outcomes
  <2>3. QuarantineOK'
    BY <1>11 DEF Record, QuarantineOK, quarantineVars, TasksOK, Carrying
  <2>4. TasksOK'
    BY <1>11 DEF Record, Goto, Return, TasksOK, TaskType, Pcs, Carrying,
       Idle
  <2> QED
    BY <2>1, <2>2, <2>3, <2>4
<1>12. ASSUME NEW p \in Procs, RollbackBegin(p) PROVE TypeOK'
  <2>1. EntriesOK'
    BY <1>12 DEF RollbackBegin, SetQuarantine, WriteQuarantine,
       BeingRegistered, EntriesOK, EntryOK, CanaryType, Versions
  <2>2. MetricsOK'
    BY <1>12 DEF RollbackBegin, MetricsOK
  <2>3. QuarantineOK'
    BY <1>12 DEF RollbackBegin, SetQuarantine, WriteQuarantine,
       BeingRegistered, QuarantineOK, quarantineVars, EntriesOK, EntryOK
  <2>4. TasksOK'
    BY <1>12 DEF RollbackBegin, Goto, TasksOK, TaskType, Pcs, Carrying,
       Idle, EntriesOK, EntryOK, CanaryType
  <2> QED
    BY <2>1, <2>2, <2>3, <2>4
<1>13. ASSUME NEW p \in Procs, RollbackRestore(p) PROVE TypeOK'
  <2>1. EntriesOK'
    BY <1>13 DEF RollbackRestore, EntriesOK, EntryOK, CanaryType, Versions,
       TasksOK, TaskType
  <2>2. MetricsOK'
    BY <1>13 DEF RollbackRestore, MetricsOK
  <2>3. QuarantineOK'
    BY <1>13 DEF RollbackRestore, QuarantineOK, quarantineVars
  <2>4. TasksOK'
    BY <1>13 DEF RollbackRestore, Goto, TasksOK, TaskType, Pcs, Carrying,
       Idle
  <2> QED
    BY <2>1, <2>2, <2>3, <2>4
<1>14. ASSUME NEW p \in Procs, RollbackPersist(p) PROVE TypeOK'
  <2>1. EntriesOK'
    BY <1>14 DEF RollbackPersist, WriteRow, EntriesOK, EntryOK, CanaryType,
       Versions
  <2>2. MetricsOK'
    BY <1>14 DEF RollbackPersist, MetricsOK
  <2>3. QuarantineOK'
    BY <1>14 DEF RollbackPersist, QuarantineOK, quarantineVars
  <2>4. TasksOK'
    BY <1>14 DEF RollbackPersist, Return, WriteRow, TasksOK, TaskType, Pcs,
       Carrying, Idle
  <2> QED
    BY <2>1, <2>2, <2>3, <2>4
<1>15. ASSUME NEW p \in Procs, PromotePersist(p) PROVE TypeOK'
  <2>1. EntriesOK'
    BY <1>15 DEF PromotePersist, WriteRow, EntriesOK, EntryOK, CanaryType,
       Versions
  <2>2. MetricsOK'
    BY <1>15 DEF PromotePersist, MetricsOK
  <2>3. QuarantineOK'
    BY <1>15 DEF PromotePersist, QuarantineOK, quarantineVars
  <2>4. TasksOK'
    BY <1>15 DEF PromotePersist, Return, WriteRow, TasksOK, TaskType, Pcs,
       Carrying, Idle
  <2> QED
    BY <2>1, <2>2, <2>3, <2>4
<1>16. ASSUME NEW v \in Candidates, Quarantine(v) PROVE TypeOK'
  <2>1. EntriesOK'
    BY <1>16 DEF Quarantine, SetQuarantine, WriteQuarantine,
       BeingRegistered, EntriesOK, EntryOK, CanaryType, Versions
  <2>2. MetricsOK'
    BY <1>16 DEF Quarantine, MetricsOK
  <2>3. QuarantineOK'
    BY <1>16 DEF Quarantine, SetQuarantine, WriteQuarantine,
       BeingRegistered, QuarantineOK, quarantineVars
  <2>4. TasksOK'
    BY <1>16 DEF Quarantine, SetQuarantine, WriteQuarantine,
       BeingRegistered, TasksOK, TaskType, Pcs, Carrying, Idle
  <2> QED
    BY <2>1, <2>2, <2>3, <2>4
<1>17. ASSUME Restart PROVE TypeOK'
  <2>1. EntriesOK'
    BY <1>17 DEF Restart, EntriesOK, EntryOK, CanaryType, Versions,
       NoCanary, Reactivated
  <2>2. MetricsOK'
    BY <1>17, CanaryAssumption DEF Restart, MetricsOK, MetricsType,
       EmptyMetrics
  <2>3. QuarantineOK'
    BY <1>17 DEF Restart, QuarantineOK, quarantineVars
  <2>4. TasksOK'
    BY <1>17 DEF Restart, TasksOK, TaskType, Pcs, Carrying, Idle
  <2> QED
    BY <2>1, <2>2, <2>3, <2>4
<1>18. CASE UNCHANGED vars
  BY <1>18 DEF EntriesOK, MetricsOK, QuarantineOK, TasksOK, vars,
     quarantineVars
<1> QED
  BY <1>1, <1>2, <1>3, <1>4, <1>5, <1>6, <1>7, <1>8, <1>9, <1>10, <1>11,
     <1>12, <1>13, <1>14, <1>15, <1>16, <1>17, <1>18 DEF Next, Resume

LEMMA StepRaceInv == TypeOK /\ RaceInv /\ [Next]_vars => RaceInv'
<1> SUFFICES ASSUME TypeOK, RaceInv, [Next]_vars PROVE RaceInv'
  OBVIOUS
<1>0. task \in [Procs -> TaskType]
  BY DEF TypeOK, TasksOK
<1> USE DEF RaceInv
<1>1. ASSUME NEW p \in Procs, NEW v \in Candidates, NEW s \in StableChoices, RegisterCheck(p, v, s) PROVE RaceInv'
  <2>1. (OnlyRacingRegistrationRevives /\ QuarantineWritten)'
    BY <1>1 DEF RegisterCheck, quarantineVars,
       OnlyRacingRegistrationRevives, Active, QuarantineWritten
  <2>2. RacingKnown'
    BY <1>0, <1>1 DEF RegisterCheck, Goto, StableChoices, RacingKnown,
       TaskType, Idle, quarantineVars, RegisterAllowed
  <2> QED
    BY <2>1, <2>2
<1>2. ASSUME NEW p \in Procs, CallStart(p) PROVE RaceInv'
  <2>1. (OnlyRacingRegistrationRevives /\ QuarantineWritten)'
    BY <1>2 DEF CallStart, quarantineVars, OnlyRacingRegistrationRevives,
       Active, QuarantineWritten
  <2>2. RacingKnown'
    BY <1>0, <1>2 DEF CallStart, Goto, RacingKnown, TaskType, Idle,
       quarantineVars
  <2> QED
    BY <2>1, <2>2
<1>3. ASSUME NEW p \in Procs, Promote(p) PROVE RaceInv'
  <2>1. OnlyRacingRegistrationRevives'
    BY <1>3 DEF Promote, OnlyRacingRegistrationRevives, Active,
       quarantineVars
  <2>2. RacingKnown'
    BY <1>0, <1>3 DEF Promote, Goto, RacingKnown, Idle, quarantineVars,
       TaskType
  <2>3. QuarantineWritten'
    BY <1>3 DEF Promote, QuarantineWritten, quarantineVars
  <2> QED
    BY <2>1, <2>2, <2>3
<1>4. ASSUME NEW p \in Procs, RegisterRefused(p) PROVE RaceInv'
  <2>1. (OnlyRacingRegistrationRevives /\ QuarantineWritten)'
    BY <1>4 DEF RegisterRefused, quarantineVars,
       OnlyRacingRegistrationRevives, Active, QuarantineWritten
  <2>2. RacingKnown'
    BY <1>0, <1>4 DEF RegisterRefused, Return, RacingKnown, TaskType, Idle,
       quarantineVars
  <2> QED
    BY <2>1, <2>2
<1>5. ASSUME NEW p \in Procs, NEW strategy \in Strategies, RegisterCommit(p, strategy) PROVE RaceInv'
  <2>1. OnlyRacingRegistrationRevives'
    BY <1>5 DEF RegisterCommit, OnlyRacingRegistrationRevives, Active,
       quarantineVars, RacingKnown
  <2>2. RacingKnown'
    BY <1>0, <1>5 DEF RegisterCommit, Return, WriteRow, RacingKnown, Idle,
       quarantineVars, TaskType
  <2>3. QuarantineWritten'
    BY <1>5 DEF RegisterCommit, QuarantineWritten, quarantineVars
  <2> QED
    BY <2>1, <2>2, <2>3
<1>6. ASSUME NEW p \in Procs, NEW session \in Sessions, RouteCandidate(p, session) PROVE RaceInv'
  <2>1. (OnlyRacingRegistrationRevives /\ QuarantineWritten)'
    BY <1>6 DEF RouteCandidate, quarantineVars,
       OnlyRacingRegistrationRevives, Active, QuarantineWritten
  <2>2. RacingKnown'
    BY <1>0, <1>6 DEF RouteCandidate, Goto, RacingKnown, TaskType, Idle,
       quarantineVars
  <2> QED
    BY <2>1, <2>2
<1>7. ASSUME NEW p \in Procs, NEW session \in Sessions, RouteStable(p, session) PROVE RaceInv'
  <2>1. (OnlyRacingRegistrationRevives /\ QuarantineWritten)'
    BY <1>7 DEF RouteStable, quarantineVars, OnlyRacingRegistrationRevives,
       Active, QuarantineWritten
  <2>2. RacingKnown'
    BY <1>0, <1>7 DEF RouteStable, Return, RacingKnown, TaskType, Idle,
       quarantineVars
  <2> QED
    BY <2>1, <2>2
<1>8. ASSUME NEW p \in Procs, Dispatch(p) PROVE RaceInv'
  <2>1. (OnlyRacingRegistrationRevives /\ QuarantineWritten)'
    BY <1>8 DEF Dispatch, quarantineVars, OnlyRacingRegistrationRevives,
       Active, QuarantineWritten
  <2>2. RacingKnown'
    BY <1>0, <1>8 DEF Dispatch, Goto, Return, RacingKnown, TaskType, Idle,
       quarantineVars
  <2> QED
    BY <2>1, <2>2
<1>9. ASSUME NEW p \in Procs, ShadowStart(p) PROVE RaceInv'
  <2>1. (OnlyRacingRegistrationRevives /\ QuarantineWritten)'
    BY <1>9 DEF ShadowStart, quarantineVars, OnlyRacingRegistrationRevives,
       Active, QuarantineWritten
  <2>2. RacingKnown'
    BY <1>0, <1>9 DEF ShadowStart, Goto, Return, RacingKnown, TaskType,
       Idle, quarantineVars
  <2> QED
    BY <2>1, <2>2
<1>10. ASSUME NEW p \in Procs, UntrackedEnd(p) PROVE RaceInv'
  <2>1. (OnlyRacingRegistrationRevives /\ QuarantineWritten)'
    BY <1>10 DEF UntrackedEnd, quarantineVars,
       OnlyRacingRegistrationRevives, Active, QuarantineWritten
  <2>2. RacingKnown'
    BY <1>0, <1>10 DEF UntrackedEnd, Return, RacingKnown, TaskType, Idle,
       quarantineVars
  <2> QED
    BY <2>1, <2>2
<1>11. ASSUME NEW p \in Procs, NEW outcome \in Outcomes(task[p].pc), Record(p, outcome) PROVE RaceInv'
  <2>1. OnlyRacingRegistrationRevives'
    BY <1>11 DEF Record, OnlyRacingRegistrationRevives, Active,
       quarantineVars
  <2>2. RacingKnown'
    BY <1>0, <1>11 DEF Record, Goto, Return, RacingKnown, Idle,
       quarantineVars, TaskType
  <2>3. QuarantineWritten'
    BY <1>11 DEF Record, QuarantineWritten, quarantineVars
  <2> QED
    BY <2>1, <2>2, <2>3
<1>12. ASSUME NEW p \in Procs, RollbackBegin(p) PROVE RaceInv'
  <2>0. UNCHANGED <<canary, quarantineVars>> \/ canary'.status = "quarantined"
    BY <1>12 DEF RollbackBegin, SetQuarantine, TypeOK, EntriesOK, EntryOK, CanaryType
  <2>1. OnlyRacingRegistrationRevives'
    BY <2>0 DEF OnlyRacingRegistrationRevives, Active, quarantineVars
  <2>2. RacingKnown'
    BY <1>0, <1>12 DEF RollbackBegin, Goto, SetQuarantine, WriteQuarantine,
       BeingRegistered, RacingKnown, Idle, quarantineVars, TaskType
  <2>3. QuarantineWritten'
    BY <1>12 DEF RollbackBegin, SetQuarantine, WriteQuarantine,
       BeingRegistered, QuarantineWritten, quarantineVars
  <2> QED
    BY <2>1, <2>2, <2>3
<1>13. ASSUME NEW p \in Procs, RollbackRestore(p) PROVE RaceInv'
  <2>1. OnlyRacingRegistrationRevives'
    BY <1>13 DEF RollbackRestore, OnlyRacingRegistrationRevives, Active,
       quarantineVars
  <2>2. RacingKnown'
    BY <1>0, <1>13 DEF RollbackRestore, Goto, RacingKnown, Idle,
       quarantineVars, TaskType
  <2>3. QuarantineWritten'
    BY <1>13 DEF RollbackRestore, QuarantineWritten, quarantineVars
  <2> QED
    BY <2>1, <2>2, <2>3
<1>14. ASSUME NEW p \in Procs, RollbackPersist(p) PROVE RaceInv'
  <2>1. OnlyRacingRegistrationRevives'
    BY <1>14 DEF RollbackPersist, OnlyRacingRegistrationRevives, Active,
       quarantineVars
  <2>2. RacingKnown'
    BY <1>0, <1>14 DEF RollbackPersist, Return, WriteRow, RacingKnown, Idle,
       quarantineVars, TaskType
  <2>3. QuarantineWritten'
    BY <1>14 DEF RollbackPersist, QuarantineWritten, quarantineVars
  <2> QED
    BY <2>1, <2>2, <2>3
<1>15. ASSUME NEW p \in Procs, PromotePersist(p) PROVE RaceInv'
  <2>1. OnlyRacingRegistrationRevives'
    BY <1>15 DEF PromotePersist, OnlyRacingRegistrationRevives, Active,
       quarantineVars
  <2>2. RacingKnown'
    BY <1>0, <1>15 DEF PromotePersist, Return, WriteRow, RacingKnown, Idle,
       quarantineVars, TaskType
  <2>3. QuarantineWritten'
    BY <1>15 DEF PromotePersist, QuarantineWritten, quarantineVars
  <2> QED
    BY <2>1, <2>2, <2>3
<1>16. ASSUME NEW v \in Candidates, Quarantine(v) PROVE RaceInv'
  <2>1. OnlyRacingRegistrationRevives'
    BY <1>16 DEF Quarantine, SetQuarantine, WriteQuarantine,
       BeingRegistered, OnlyRacingRegistrationRevives, Active,
       quarantineVars
  <2>2. RacingKnown'
    BY <1>0, <1>16 DEF Quarantine, SetQuarantine, WriteQuarantine,
       BeingRegistered, RacingKnown, Idle, quarantineVars, TaskType
  <2>3. QuarantineWritten'
    BY <1>16 DEF Quarantine, SetQuarantine, WriteQuarantine,
       BeingRegistered, QuarantineWritten, quarantineVars
  <2> QED
    BY <2>1, <2>2, <2>3
<1>17. ASSUME Restart PROVE RaceInv'
  <2>1. OnlyRacingRegistrationRevives'
    BY <1>17 DEF Restart, OnlyRacingRegistrationRevives, Active,
       quarantineVars, Reactivated, NoCanary
  <2>2. RacingKnown'
    BY <1>0, <1>17 DEF Restart, RacingKnown, Idle, quarantineVars, TaskType
  <2>3. QuarantineWritten'
    BY <1>17 DEF Restart, QuarantineWritten, quarantineVars
  <2> QED
    BY <2>1, <2>2, <2>3
<1>18. CASE UNCHANGED vars
  BY <1>18 DEF OnlyRacingRegistrationRevives, Active, RacingKnown,
     QuarantineWritten, vars, quarantineVars
<1> QED
  BY <1>1, <1>2, <1>3, <1>4, <1>5, <1>6, <1>7, <1>8, <1>9, <1>10, <1>11,
     <1>12, <1>13, <1>14, <1>15, <1>16, <1>17, <1>18 DEF Next, Resume

LEMMA StepBreach == TypeOK /\ BreachIsHandled /\ [Next]_vars => BreachIsHandled'
<1> SUFFICES ASSUME TypeOK, BreachIsHandled, [Next]_vars PROVE BreachIsHandled'
  OBVIOUS
<1>0. task \in [Procs -> TaskType]
  BY DEF TypeOK, TasksOK
<1> USE DEF BreachIsHandled, Active
<1>1. ASSUME NEW p \in Procs, NEW v \in Candidates, NEW s \in StableChoices, RegisterCheck(p, v, s) PROVE BreachIsHandled'
  BY <1>0, <1>1 DEF RegisterCheck, Goto, StableChoices, TaskType
<1>2. ASSUME NEW p \in Procs, CallStart(p) PROVE BreachIsHandled'
  BY <1>0, <1>2 DEF CallStart, Goto, TaskType
<1>3. ASSUME NEW p \in Procs, Promote(p) PROVE BreachIsHandled'
  BY <1>3 DEF Promote
<1>4. ASSUME NEW p \in Procs, RegisterRefused(p) PROVE BreachIsHandled'
  BY <1>0, <1>4 DEF RegisterRefused, Return, TaskType
<1>5. ASSUME NEW p \in Procs, NEW strategy \in Strategies, RegisterCommit(p, strategy) PROVE BreachIsHandled'
  BY <1>5, EmptyIsHealthy DEF RegisterCommit
<1>6. ASSUME NEW p \in Procs, NEW session \in Sessions, RouteCandidate(p, session) PROVE BreachIsHandled'
  BY <1>0, <1>6 DEF RouteCandidate, Goto, TaskType
<1>7. ASSUME NEW p \in Procs, NEW session \in Sessions, RouteStable(p, session) PROVE BreachIsHandled'
  BY <1>0, <1>7 DEF RouteStable, Return, TaskType
<1>8. ASSUME NEW p \in Procs, Dispatch(p) PROVE BreachIsHandled'
  BY <1>0, <1>8 DEF Dispatch, Goto, Return, TaskType
<1>9. ASSUME NEW p \in Procs, ShadowStart(p) PROVE BreachIsHandled'
  BY <1>0, <1>9 DEF ShadowStart, Goto, Return, TaskType
<1>10. ASSUME NEW p \in Procs, UntrackedEnd(p) PROVE BreachIsHandled'
  BY <1>0, <1>10 DEF UntrackedEnd, Return, TaskType
<1>11. ASSUME NEW p \in Procs, NEW outcome \in Outcomes(task[p].pc), Record(p, outcome) PROVE BreachIsHandled'
  BY <1>0, <1>11 DEF Record, Goto, Return, BreachFound, TaskType
<1>12. ASSUME NEW p \in Procs, RollbackBegin(p) PROVE BreachIsHandled'
  <2>1. CASE canary.status = "none"
    BY <1>0, <1>12, <2>1 DEF RollbackBegin, Goto, TaskType
  <2>2. CASE canary.status # "none"
    <3>1. canary'.status = "quarantined"
      BY <1>12, <2>2 DEF RollbackBegin, SetQuarantine, TypeOK, EntriesOK, EntryOK, CanaryType
    <3> QED
      BY <3>1
  <2> QED
    BY <2>1, <2>2
<1>13. ASSUME NEW p \in Procs, RollbackRestore(p) PROVE BreachIsHandled'
  BY <1>0, <1>13 DEF RollbackRestore, Goto, TaskType
<1>14. ASSUME NEW p \in Procs, RollbackPersist(p) PROVE BreachIsHandled'
  BY <1>0, <1>14 DEF RollbackPersist, Return, WriteRow, TaskType
<1>15. ASSUME NEW p \in Procs, PromotePersist(p) PROVE BreachIsHandled'
  BY <1>0, <1>15 DEF PromotePersist, Return, WriteRow, TaskType
<1>16. ASSUME NEW v \in Candidates, Quarantine(v) PROVE BreachIsHandled'
  BY <1>0, <1>16 DEF Quarantine, SetQuarantine, TaskType
<1>17. ASSUME Restart PROVE BreachIsHandled'
  BY <1>17, EmptyIsHealthy DEF Restart
<1>18. CASE UNCHANGED vars
  BY <1>18 DEF vars, quarantineVars
<1> QED
  BY <1>1, <1>2, <1>3, <1>4, <1>5, <1>6, <1>7, <1>8, <1>9, <1>10, <1>11,
     <1>12, <1>13, <1>14, <1>15, <1>16, <1>17, <1>18 DEF Next, Resume

(* The router's state keeps its types: counters in proportion, entries and *)
(* rows that name candidates (CanaryRouter's maps and tables).             *)
THEOREM TypeCorrect == Spec => []TypeOK
<1>1. Init => TypeOK
  BY InitInv
<1>2. TypeOK /\ [Next]_vars => TypeOK'
  BY StepTypeOK
<1> QED
  BY <1>1, <1>2, PTL DEF Spec

LEMMA RaceInvariant == Spec => [](TypeOK /\ RaceInv)
<1>1. Init => TypeOK /\ RaceInv
  BY InitInv
<1>2. TypeOK /\ RaceInv /\ [Next]_vars => (TypeOK /\ RaceInv)'
  BY StepTypeOK, StepRaceInv
<1> QED
  BY <1>1, <1>2, PTL DEF Spec

(* A quarantined version is active again only if it was quarantined        *)
(* between the check and the commit of its registration (registerCanary    *)
(* 334, loadPersistedState 269).                                           *)
THEOREM RevivalNeedsRace == Spec => []OnlyRacingRegistrationRevives
<1>1. TypeOK /\ RaceInv => OnlyRacingRegistrationRevives
  BY DEF RaceInv
<1> QED
  BY <1>1, RaceInvariant, PTL

(* No step, a restart included, takes a version out of quarantine unless   *)
(* the write of its row failed (quarantineCandidate, loadPersistedState).  *)
THEOREM QuarantineIsKept == Spec => QuarantineGrows
<1>1. TypeOK /\ RaceInv /\ [Next]_vars => [quarantined \ unwritten \subseteq quarantined']_vars
  <2> SUFFICES ASSUME RaceInv, Next
               PROVE  quarantined \ unwritten \subseteq quarantined'
    OBVIOUS
  <2>1. CASE Restart
    BY <2>1 DEF Restart, RaceInv, QuarantineWritten
  <2>2. ASSUME NEW v, SetQuarantine(v) PROVE quarantined \subseteq quarantined'
    BY <2>2 DEF SetQuarantine
  <2>3. CASE \E v \in Candidates : Quarantine(v)
    BY <2>2, <2>3 DEF Quarantine
  <2>4. ASSUME NEW p \in Procs, RollbackBegin(p) PROVE quarantined \subseteq quarantined'
    BY <2>2, <2>4 DEF RollbackBegin, quarantineVars
  <2>5. ASSUME NEW p \in Procs, ~RollbackBegin(p), Resume(p)
        PROVE  UNCHANGED quarantined
    BY <2>5 DEF Resume, RegisterRefused, RegisterCommit, RouteCandidate, RouteStable,
       Dispatch, ShadowStart, UntrackedEnd, Record, RollbackRestore,
       RollbackPersist, PromotePersist, quarantineVars
  <2> QED
    BY <2>1, <2>3, <2>4, <2>5 DEF Next, RegisterCheck, CallStart, Promote, quarantineVars
<1> QED
  BY <1>1, RaceInvariant, PTL DEF Spec, QuarantineGrows

(* Whatever runs and registrations interleave, an active canary in breach  *)
(* has a call about to roll it back (recordInvocation 750-755).            *)
THEOREM BreachAlwaysHandled == Spec => []BreachIsHandled
<1>1. Init => TypeOK /\ BreachIsHandled
  BY InitInv
<1>2. TypeOK /\ BreachIsHandled /\ [Next]_vars => (TypeOK /\ BreachIsHandled)'
  BY StepTypeOK, StepBreach
<1> QED
  BY <1>1, <1>2, PTL DEF Spec

(***************************************************************************)
(* The cloud's rollouts: every set of workers, versions and bounds and     *)
(* every policy.                                                           *)
(***************************************************************************)
Steps == {"idle", "create", "look", "metrics", "update", "write", "serve", "list", "next"}
Minds == [step : Steps, goal : Goals, id : Nat, base : Rows, copy : Rows,
          todo : SUBSET [id : Nat, row : Rows], sort : Sorts, ver : RolloutVersions]

(* A row that was read is one of rollout i: what is never written again.   *)
OfRollout(row, i) ==
  i \in RolloutIds /\ row.ver = rollouts[i].ver /\ row.prev = rollouts[i].prev

(* What a row says of the evidence for it is true, now and later.          *)
Seen(i) == Total(telemetry[i]) >= MinInvocations
Warranted(row, i) ==
  /\ row.state = "canary" => row.clean = 0
  /\ row.state = "observing" => Seen(i)

(* A worker is about to write a decision into its row.                     *)
Acts(me) == me.step \in {"update", "write"} /\ me.goal # "keep"

(* What a worker has read belongs together, and what it decided was        *)
(* justified when it decided.                                              *)
Coherent(me) ==
  /\ me.step = "create" => me.ver \in Releases
  /\ me.step \in {"metrics", "update", "write", "serve"} => me.id \in RolloutIds
  /\ me.step \in {"metrics", "serve"} \/ Acts(me) => OfRollout(me.base, me.id)
  /\ me.step = "write" => OfRollout(me.copy, me.id) /\ Warranted(me.copy, me.id)
  /\ me.step = "serve" => me.goal \in {"rollback", "promote"}
  /\ \A o \in me.todo : OfRollout(o.row, o.id) /\ o.row.state \notin Terminal
  /\ me.todo # {} => me.goal = "supersede"
Justified(me) ==
  /\ me.step = "metrics" => Warranted(me.base, me.id) /\ me.base.state \notin Terminal
  /\ Acts(me) /\ me.goal = "observe" =>
       me.base.state \in Exposed /\ me.base.clean < RequiredClean /\ Seen(me.id)
  /\ Acts(me) /\ me.id \notin manual => me.base.state \notin Terminal
  /\ Acts(me) /\ me.goal = "promote" /\ me.id \notin manual =>
       me.base.clean + 1 >= RequiredClean /\ Seen(me.id)

Tables ==
  /\ rollouts \in Seq(Rows) /\ telemetry \in Seq([Sorts -> 0..limit.events])
  /\ Len(telemetry) = Len(rollouts)
  /\ promotions \in Seq(Nat) /\ \A k \in DOMAIN promotions : promotions[k] \in RolloutIds
  /\ userPin \in RolloutVersions \cup {NoOverride, Disabled}
  /\ serving \in RolloutVersions /\ failed \subseteq Releases /\ manual \subseteq Nat
  /\ limit \in [rollouts : Nat, events : Nat, disturbances : Nat]
RowsSound == \A i \in RolloutIds : rollouts[i].ver \in Releases /\ Warranted(rollouts[i], i)
MindsSound ==
  /\ worker \in [Workers -> Minds]
  /\ \A w \in Workers : Coherent(worker[w]) /\ Justified(worker[w])

(* A version that failed is in cooldown.                                   *)
FailedCools == ~rowRaced => \A v \in failed : Cooling(v)

(* Without the operator: what is in cooldown was rolled back, a rollout    *)
(* whose version is about to be served is promoted, and what is served or  *)
(* fallen back to is the first version or a promoted one.                  *)
Quiet == ~rowRaced /\ manual = {}
GoodVersion(v) ==
  v = FirstVersion \/ \E i \in RolloutIds : rollouts[i].ver = v /\ rollouts[i].state = "promoted"
CoolIsRolledBack == \A i \in RolloutIds : rollouts[i].cool => rollouts[i].state = "rolled_back"
ServesPromoted ==
  \A w \in Workers : worker[w].step = "serve" /\ worker[w].goal = "promote" =>
    rollouts[worker[w].id].state = "promoted"
FallsBackWell == GoodVersion(serving) /\ \A i \in RolloutIds : GoodVersion(rollouts[i].prev)
QuietInv == Quiet => CoolIsRolledBack /\ ServesPromoted /\ FallsBackWell

RolloutInv == Tables /\ RowsSound /\ MindsSound /\ FailedCools /\ QuietInv

-----------------------------------------------------------------------------
(* Facts about the operators. *)

LEMMA GoalsAndStates ==
  /\ Exposed \cap Terminal = {} /\ "suspended" \notin Exposed \cup Terminal
  /\ \A s \in Exposed : s \in {"canary", "observing"}
  BY DEF Exposed, Terminal

(* What a decision changes in a row. *)
StateAfter(goal, copy) ==
  CASE goal = "keep" -> copy.state [] goal = "observe" -> "observing"
    [] goal = "suspend" -> "suspended" [] goal = "rollback" -> "rolled_back"
    [] goal = "promote" -> "promoted" [] OTHER -> "superseded"

(* What a worker knows stays true as long as rows keep what is written     *)
(* once and evidence and manual decisions only grow.                       *)
Grows ==
  /\ manual \subseteq manual'
  /\ \A i \in RolloutIds : /\ i \in RolloutIds'
                           /\ rollouts'[i].ver = rollouts[i].ver
                           /\ rollouts'[i].prev = rollouts[i].prev
                           /\ Seen(i) => Seen(i)'

LEMMA KnowledgeLasts ==
  ASSUME NEW me \in Minds, Coherent(me), Justified(me), Grows
  PROVE  Coherent(me)' /\ Justified(me)'
<1>1. ASSUME NEW row, NEW i, OfRollout(row, i) PROVE OfRollout(row, i)'
  BY <1>1 DEF OfRollout, Grows
<1>2. ASSUME NEW row, NEW i \in RolloutIds, Warranted(row, i) PROVE Warranted(row, i)'
  BY <1>2 DEF Warranted, Grows
<1>3. me.step = "metrics" \/ Acts(me) => me.id \in RolloutIds
  BY DEF Coherent, Acts
<1>4. Coherent(me)'
  BY <1>1, <1>2 DEF Coherent, Acts, Grows
<1>5. Justified(me)'
  BY <1>2, <1>3 DEF Justified, Acts, Grows
<1> QED
  BY <1>4, <1>5

LEMMA SameTablesGrow ==
  ASSUME UNCHANGED <<rollouts, telemetry>>, manual \subseteq manual'
  PROVE  Grows
  BY DEF Grows, RolloutIds, Seen

LEMMA MindsLast ==
  ASSUME MindsSound, Grows, NEW u \in Workers, worker'[u] = worker[u]
  PROVE  Coherent(worker[u])' /\ Justified(worker[u])'
<1>1. PICK me \in Minds : me = worker[u]
  BY DEF MindsSound
<1>2. Coherent(me) /\ Justified(me)
  BY <1>1 DEF MindsSound
<1>3. Coherent(me)' /\ Justified(me)'
  BY <1>2, KnowledgeLasts
<1>4. worker'[u] = me
  BY <1>1
<1> QED
  BY <1>3, <1>4 DEF Coherent, Justified, Acts

(* One worker makes up its mind, the others keep theirs. *)
LEMMA OneMindChanges ==
  ASSUME MindsSound, Grows, NEW w \in Workers, NEW r \in Minds, Become(w, r),
         Coherent(r)', Justified(r)'
  PROVE  MindsSound' /\ worker'[w] = r /\ \A u \in Workers \ {w} : worker'[u] = worker[u]
<1>1. worker' \in [Workers -> Minds] /\ worker'[w] = r
      /\ \A u \in Workers \ {w} : worker'[u] = worker[u]
  BY DEF MindsSound, Become
<1>2. \A u \in Workers \ {w} : Coherent(worker[u])' /\ Justified(worker[u])'
  BY <1>1, MindsLast
<1>3. Coherent(worker[w])' /\ Justified(worker[w])'
  BY <1>1 DEF Coherent, Justified, Acts
<1> QED
  BY <1>1, <1>2, <1>3 DEF MindsSound

LEMMA OneMind ==
  ASSUME RolloutInv, NEW w \in Workers, NEW r \in Minds, Become(w, r), r.step # "serve",
         UNCHANGED <<rollouts, telemetry, promotions, userPin, serving, failed, rowRaced, limit>>,
         manual \subseteq manual', manual' \subseteq Nat,
         Coherent(r)', Justified(r)'
  PROVE  RolloutInv'
<1>1. Tables'
  BY DEF RolloutInv, Tables, RolloutIds
<1>2. RowsSound'
  BY DEF RolloutInv, RowsSound, RolloutIds, Warranted, Seen
<1>3. /\ MindsSound' /\ worker'[w] = r
      /\ \A u \in Workers \ {w} : worker'[u] = worker[u]
  BY SameTablesGrow, OneMindChanges DEF RolloutInv
<1>4. FailedCools'
  BY DEF RolloutInv, FailedCools, Cooling, RolloutIds
<1>5. QuietInv'
  <2>1. Quiet' => Quiet
    BY DEF Quiet
  <2>2. ServesPromoted => ServesPromoted'
    BY <1>3 DEF ServesPromoted
  <2>3. CoolIsRolledBack => CoolIsRolledBack'
    BY DEF CoolIsRolledBack, RolloutIds
  <2>4. FallsBackWell => FallsBackWell'
    BY DEF FallsBackWell, GoodVersion, RolloutIds
  <2> QED
    BY <2>1, <2>2, <2>3, <2>4 DEF RolloutInv, QuietInv
<1> QED
  BY <1>1, <1>2, <1>3, <1>4, <1>5 DEF RolloutInv

LEMMA RestingIsSound ==
  /\ Resting \in Minds /\ Coherent(Resting)' /\ Justified(Resting)'
  /\ \A s \in Sorts, v \in RolloutVersions :
       LET r == [Resting EXCEPT !.step = "look", !.sort = s, !.ver = v]
       IN r \in Minds /\ Coherent(r)' /\ Justified(r)'
  /\ \A v \in Releases :
       LET r == [Resting EXCEPT !.step = "create", !.ver = v]
       IN r \in Minds /\ Coherent(r)' /\ Justified(r)'
<1>1. NoRow \in Rows
  BY RolloutAssumption DEF NoRow, Rows, RolloutVersions
<1>2. Resting \in Minds
  BY <1>1 DEF Resting, Minds, Steps, Goals, Sorts, RolloutVersions
<1>3. Coherent(Resting)' /\ Justified(Resting)'
  BY DEF Resting, Coherent, Justified, Acts
<1>4. ASSUME NEW s \in Sorts, NEW v \in RolloutVersions
      PROVE  LET r == [Resting EXCEPT !.step = "look", !.sort = s, !.ver = v]
             IN r \in Minds /\ Coherent(r)' /\ Justified(r)'
  BY <1>1 DEF Resting, Minds, Steps, Goals, Sorts, Coherent, Justified, Acts
<1>5. ASSUME NEW v \in Releases
      PROVE  LET r == [Resting EXCEPT !.step = "create", !.ver = v]
             IN r \in Minds /\ Coherent(r)' /\ Justified(r)'
  BY <1>1 DEF Resting, Minds, Steps, Goals, Sorts, RolloutVersions, Coherent, Justified, Acts
<1> QED
  BY <1>2, <1>3, <1>4, <1>5

LEMMA Known ==
  ASSUME RolloutInv
  PROVE  /\ \A w \in Workers : /\ worker[w] \in Minds
                               /\ Coherent(worker[w]) /\ Justified(worker[w])
         /\ \A i \in RolloutIds : /\ i \in Nat /\ i \in DOMAIN telemetry
                                  /\ rollouts[i] \in Rows /\ rollouts[i].ver \in Releases
                                  /\ OfRollout(rollouts[i], i) /\ Warranted(rollouts[i], i)
                                  /\ telemetry[i] \in [Sorts -> 0..limit.events]
         /\ Len(rollouts) \in Nat /\ RolloutIds = 1..Len(rollouts)
<1>1. \A w \in Workers : worker[w] \in Minds /\ Coherent(worker[w]) /\ Justified(worker[w])
  BY DEF RolloutInv, MindsSound
<1>2. /\ rollouts \in Seq(Rows) /\ Len(telemetry) = Len(rollouts)
      /\ telemetry \in Seq([Sorts -> 0..limit.events])
  BY DEF RolloutInv, Tables
<1>3. RolloutIds = 1..Len(rollouts) /\ DOMAIN telemetry = RolloutIds /\ Len(rollouts) \in Nat
  BY <1>2 DEF RolloutIds
<1>4. \A i \in RolloutIds : i \in Nat /\ rollouts[i] \in Rows
                            /\ telemetry[i] \in [Sorts -> 0..limit.events]
  BY <1>2, <1>3
<1> QED
  BY <1>1, <1>3, <1>4 DEF RolloutInv, RowsSound, OfRollout

(* Of the exposed rollouts one is the newest. *)
LEMMA NewestIsExposed ==
  ASSUME RolloutInv, ExposedIds # {}
  PROVE  NewestExposed \in ExposedIds /\ \A j \in ExposedIds : j <= NewestExposed
<1>1. ExposedIds \subseteq 1..Len(rollouts) /\ Len(rollouts) \in Nat
  BY Known DEF ExposedIds
<1> QED
  BY <1>1, GreatestElement DEF NewestExposed

-----------------------------------------------------------------------------
(* The steps in which a worker only reads and thinks. *)

LEMMA CreateCheckKeeps ==
  ASSUME RolloutInv, NEW w \in Workers, NEW v \in Releases, CreateCheck(w, v)
  PROVE  RolloutInv'
<1> DEFINE r == [Resting EXCEPT !.step = "create", !.ver = v]
<1>1. r \in Minds /\ Coherent(r)' /\ Justified(r)'
  BY RestingIsSound
<1>2. r.step # "serve"
  BY DEF Resting
<1>3. manual' = manual /\ manual \subseteq Nat
  BY DEF CreateCheck, RolloutInv, Tables
<1> HIDE DEF r
<1> QED
  BY <1>1, <1>2, <1>3, OneMind DEF CreateCheck, r

LEMMA RestKeeps ==
  ASSUME RolloutInv, NEW w \in Workers, Become(w, Resting),
         UNCHANGED <<rollouts, telemetry, promotions, userPin, serving, failed, rowRaced, limit,
                     manual>>
  PROVE  RolloutInv'
<1>1. Resting \in Minds /\ Coherent(Resting)' /\ Justified(Resting)'
  BY RestingIsSound
<1>2. Resting.step # "serve" /\ manual \subseteq Nat
  BY DEF Resting, RolloutInv, Tables
<1> QED
  BY <1>1, <1>2, OneMind

(* A decision that is justified by the row it was taken on. *)
LEMMA DecidedKeeps ==
  ASSUME RolloutInv, NEW w \in Workers, NEW goal \in Goals, NEW i \in RolloutIds,
         NEW row \in Rows, OfRollout(row, i), Decided(w, goal, i, row),
         UNCHANGED <<rollouts, telemetry, promotions, userPin, serving, failed, rowRaced, limit>>,
         manual \subseteq manual', manual' \subseteq Nat,
         goal = "observe" => row.state \in Exposed /\ row.clean < RequiredClean /\ Seen(i),
         goal # "keep" /\ i \notin manual' => row.state \notin Terminal,
         goal = "promote" /\ i \notin manual' => row.clean + 1 >= RequiredClean /\ Seen(i)
  PROVE  RolloutInv'
<1> DEFINE r == [Resting EXCEPT !.step = "update", !.goal = goal, !.id = i,
                                !.base = IF goal = "keep" THEN NoRow ELSE row]
<1>1. Resting \in Minds /\ NoRow \in Rows /\ i \in Nat
  BY RestingIsSound, Known DEF Minds, Resting
<1>2. r \in Minds
  BY <1>1 DEF Minds, Steps, Resting
<1>3. /\ r.step = "update" /\ r.goal = goal /\ r.id = i /\ r.todo = {}
      /\ goal # "keep" => r.base = row
  BY DEF Resting
<1>4. RolloutIds' = RolloutIds /\ rollouts' = rollouts /\ Seen(i)' = Seen(i)
  BY DEF RolloutIds, Seen
<1> HIDE DEF r
<1>5. Coherent(r)'
  BY <1>3, <1>4 DEF Coherent, Acts, OfRollout
<1>6. Justified(r)'
  BY <1>3, <1>4 DEF Justified, Acts
<1>7. Become(w, r)
  BY DEF Decided, r
<1> QED
  BY <1>2, <1>3, <1>5, <1>6, <1>7, OneMind

LEMMA EventLookKeeps ==
  ASSUME RolloutInv, NEW w \in Workers, EventLook(w)
  PROVE  RolloutInv'
<1>1. CASE ExposedIds = {} \/ rollouts[NewestExposed].ver # worker[w].ver
  BY <1>1, RestKeeps DEF EventLook
<1>2. CASE ~(ExposedIds = {} \/ rollouts[NewestExposed].ver # worker[w].ver)
  <2> DEFINE goal == IF worker[w].sort = "hard" THEN "rollback" ELSE "keep"
  <2>1. NewestExposed \in ExposedIds
    BY <1>2, NewestIsExposed
  <2> DEFINE i == NewestExposed
  <2>2. i \in RolloutIds /\ rollouts[i].state \in Exposed
    BY <2>1 DEF ExposedIds
  <2>3. /\ rollouts[i] \in Rows /\ OfRollout(rollouts[i], i) /\ rollouts[i].state \notin Terminal
        /\ goal \in Goals /\ goal \notin {"observe", "promote"}
    BY <2>2, Known, GoalsAndStates DEF Goals
  <2>4. /\ Decided(w, goal, i, rollouts[i]) /\ manual' = manual /\ manual \subseteq Nat
        /\ UNCHANGED <<rollouts, telemetry, promotions, userPin, serving, failed, rowRaced, limit>>
    BY <1>2 DEF EventLook, RolloutInv, Tables
  <2> HIDE DEF i, goal
  <2> QED
    BY <2>2, <2>3, <2>4, DecidedKeeps
<1> QED
  BY <1>1, <1>2

LEMMA EvaluateReadKeeps ==
  ASSUME RolloutInv, NEW w \in Workers, NEW i \in RolloutIds, EvaluateRead(w, i)
  PROVE  RolloutInv'
<1>1. PICK row \in Rows : row = rollouts[i]
  BY Known
<1> DEFINE r == [Resting EXCEPT !.step = "metrics", !.id = i, !.base = row]
<1>2. Resting \in Minds /\ i \in Nat
  BY RestingIsSound, Known
<1>3. r \in Minds
  BY <1>2 DEF Minds, Steps, Resting
<1>4. r.step = "metrics" /\ r.id = i /\ r.base = row /\ r.todo = {} /\ r.goal = "keep"
  BY DEF Resting
<1>5. /\ rollouts' = rollouts /\ telemetry' = telemetry /\ manual' = manual
      /\ UNCHANGED <<promotions, userPin, serving, failed, rowRaced, limit>>
      /\ manual \subseteq Nat /\ row.state \notin Terminal /\ Become(w, r)
  BY <1>1 DEF EvaluateRead, RolloutInv, Tables
<1>6. OfRollout(row, i) /\ Warranted(row, i)
  BY <1>1, Known
<1> HIDE DEF r
<1>7. Coherent(r)'
  BY <1>4, <1>5, <1>6 DEF Coherent, Acts, OfRollout, RolloutIds
<1>8. Justified(r)'
  BY <1>4, <1>5, <1>6 DEF Justified, Acts, Warranted, Seen
<1> QED
  BY <1>3, <1>4, <1>5, <1>7, <1>8, OneMind

(* What the evaluator may decide, and on which evidence. *)
LEMMA VerdictsAreJustified ==
  ASSUME NEW row \in Rows, NEW m, Total(m) \in Nat, row.state \notin Terminal,
         row.state = "observing" => Total(m) >= MinInvocations,
         row.state = "canary" => row.clean = 0,
         NEW goal \in Verdicts(row, m)
  PROVE  /\ goal \in Goals
         /\ goal = "observe" => /\ row.state \in Exposed /\ row.clean < RequiredClean
                                /\ Total(m) >= MinInvocations
         /\ goal = "promote" => /\ row.clean + 1 >= RequiredClean
                                /\ Total(m) >= MinInvocations
<1>1. RequiredClean \in Nat \ {0} /\ row.clean \in 0..RequiredClean
  BY RolloutAssumption DEF Rows
<1>2. goal \in {"rollback", "suspend"} \/ goal = Advance(row, Total(m))
  BY DEF Verdicts
<1>3. CASE goal \in {"rollback", "suspend"}
  BY <1>3 DEF Goals
<1>4. CASE goal = Advance(row, Total(m))
  <2> DEFINE t == Total(m)
  <2>1. t \in Nat /\ MinInvocations \in Nat /\ goal = Advance(row, t)
        /\ (row.state = "observing" => t >= MinInvocations)
    BY <1>4, RolloutAssumption
  <2> HIDE DEF t
  <2>2. CASE row.state \notin Exposed \/ (row.state = "canary" /\ t < MinInvocations)
    BY <2>1, <2>2 DEF Advance, Goals
  <2>3. CASE row.state \in Exposed /\ ~(row.state = "canary" /\ t < MinInvocations)
    <3>1. row.state \in {"canary", "observing"} /\ t >= MinInvocations
      BY <2>1, <2>3 DEF Exposed
    <3>2. goal = IF row.state = "canary" \/ row.clean + 1 < RequiredClean THEN "observe"
                 ELSE IF AutoPromotion THEN "promote" ELSE "keep"
      BY <2>1, <2>3 DEF Advance
    <3>3. CASE row.state = "canary" \/ row.clean + 1 < RequiredClean
      <4>1. goal = "observe" /\ row.clean < RequiredClean
        BY <1>1, <3>2, <3>3
      <4> QED
        BY <2>3, <3>1, <4>1 DEF Goals, t
    <3>4. CASE ~(row.state = "canary" \/ row.clean + 1 < RequiredClean)
      <4>1. goal \in {"promote", "keep"} /\ row.clean + 1 >= RequiredClean
        BY <1>1, <3>2, <3>4
      <4> QED
        BY <3>1, <4>1 DEF Goals, t
    <3> QED
      BY <3>3, <3>4
  <2> QED
    BY <2>2, <2>3
<1> QED
  BY <1>2, <1>3, <1>4

LEMMA TotalIsNat ==
  ASSUME NEW n \in Nat, NEW m \in [Sorts -> 0..n]
  PROVE  Total(m) \in Nat
  BY DEF Total, Sorts

LEMMA EvaluateDecideKeeps ==
  ASSUME RolloutInv, NEW w \in Workers, EvaluateDecide(w)
  PROVE  RolloutInv'
<1> DEFINE i == worker[w].id
           row == worker[w].base
<1>1. /\ worker[w] \in Minds /\ Coherent(worker[w]) /\ Justified(worker[w])
      /\ worker[w].step = "metrics"
  BY Known DEF EvaluateDecide
<1>2. /\ i \in RolloutIds /\ OfRollout(row, i) /\ Warranted(row, i) /\ row \in Rows
      /\ row.state \notin Terminal
  BY <1>1 DEF Coherent, Justified, Minds
<1>3. PICK goal \in Verdicts(row, telemetry[i]) : Decided(w, goal, i, row)
  BY DEF EvaluateDecide
<1>4. Total(telemetry[i]) \in Nat
  BY <1>2, Known, TotalIsNat DEF RolloutInv, Tables
<1>5. /\ row.state = "observing" => Total(telemetry[i]) >= MinInvocations
      /\ row.state = "canary" => row.clean = 0
  BY <1>2 DEF Warranted, Seen
<1> HIDE DEF i, row
<1>6. /\ goal \in Goals
      /\ goal = "observe" => row.state \in Exposed /\ row.clean < RequiredClean /\ Seen(i)
      /\ goal = "promote" => row.clean + 1 >= RequiredClean /\ Seen(i)
  BY <1>2, <1>4, <1>5, VerdictsAreJustified DEF Seen
<1>7. /\ UNCHANGED <<rollouts, telemetry, promotions, userPin, serving, failed, rowRaced, limit>>
      /\ manual' = manual /\ manual \subseteq Nat
  BY DEF EvaluateDecide, RolloutInv, Tables
<1> QED
  BY <1>2, <1>3, <1>6, <1>7, DecidedKeeps

LEMMA ManualDecideKeeps ==
  ASSUME RolloutInv, NEW w \in Workers, NEW i \in RolloutIds, NEW goal \in {"rollback", "promote"},
         ManualDecide(w, i, goal)
  PROVE  RolloutInv'
<1>1. /\ i \in Nat /\ rollouts[i] \in Rows /\ OfRollout(rollouts[i], i) /\ goal \in Goals
  BY Known DEF Goals
<1>2. /\ UNCHANGED <<rollouts, telemetry, promotions, userPin, serving, failed, rowRaced, limit>>
      /\ manual' = manual \cup {i} /\ Decided(w, goal, i, rollouts[i])
  BY DEF ManualDecide
<1>3. manual' \subseteq Nat /\ manual \subseteq manual' /\ i \in manual'
  BY <1>1, <1>2 DEF RolloutInv, Tables
<1> QED
  BY <1>1, <1>2, <1>3, DecidedKeeps

LEMMA UpdateReadKeeps ==
  ASSUME RolloutInv, NEW w \in Workers, UpdateRead(w)
  PROVE  RolloutInv'
<1>1. PICK me \in Minds : me = worker[w]
  BY Known
<1>2. Coherent(me) /\ Justified(me) /\ me.step = "update" /\ me.id \in RolloutIds
  BY <1>1, Known DEF UpdateRead, Coherent
<1>3. PICK row \in Rows : row = rollouts[me.id]
  BY <1>2, Known
<1> DEFINE r == [me EXCEPT !.step = "write", !.copy = row]
<1>4. /\ r \in Minds /\ r.step = "write" /\ r.copy = row /\ r.goal = me.goal /\ r.id = me.id
      /\ r.base = me.base /\ r.todo = me.todo
  BY DEF Minds, Steps
<1>5. /\ rollouts' = rollouts /\ telemetry' = telemetry /\ manual' = manual
      /\ UNCHANGED <<promotions, userPin, serving, failed, rowRaced, limit>>
      /\ manual \subseteq Nat /\ Become(w, r)
  BY <1>1, <1>3 DEF UpdateRead, RolloutInv, Tables
<1>6. OfRollout(row, me.id) /\ Warranted(row, me.id)
  BY <1>2, <1>3, Known
<1> HIDE DEF r
<1>7. Coherent(r)'
  BY <1>2, <1>4, <1>5, <1>6 DEF Coherent, Acts, OfRollout, RolloutIds, Warranted, Seen
<1>8. Justified(r)'
  BY <1>2, <1>4, <1>5 DEF Justified, Acts, Seen
<1> QED
  BY <1>4, <1>5, <1>7, <1>8, OneMind

LEMMA SupersedeListKeeps ==
  ASSUME RolloutInv, NEW w \in Workers, SupersedeList(w)
  PROVE  RolloutInv'
<1> DEFINE others == {[id |-> j, row |-> rollouts[j]] : j \in Others(worker[w].id)}
<1>1. CASE others = {}
  BY <1>1, RestKeeps DEF SupersedeList
<1>2. CASE others # {}
  <2>1. PICK me \in Minds : me = worker[w]
    BY Known
  <2>2. Coherent(me) /\ me.step = "list"
    BY <2>1, Known DEF SupersedeList
  <2>3. \A o \in others : /\ o \in [id : Nat, row : Rows] /\ OfRollout(o.row, o.id)
                          /\ o.row.state \notin Terminal
    BY Known, GoalsAndStates DEF Others
  <2>4. PICK todo \in SUBSET [id : Nat, row : Rows] : todo = others
    BY <2>3
  <2> DEFINE r == [me EXCEPT !.step = "next", !.goal = "supersede", !.todo = todo]
  <2>5. r \in Minds /\ r.step = "next" /\ r.goal = "supersede" /\ r.todo = todo
    BY DEF Minds, Steps, Goals
  <2>6. /\ rollouts' = rollouts /\ telemetry' = telemetry /\ manual' = manual
        /\ UNCHANGED <<promotions, userPin, serving, failed, rowRaced, limit>>
        /\ manual \subseteq Nat /\ Become(w, r)
    BY <1>2, <2>1, <2>4 DEF SupersedeList, RolloutInv, Tables
  <2>7. \A o \in todo : OfRollout(o.row, o.id) /\ o.row.state \notin Terminal
    BY <2>3, <2>4
  <2> HIDE DEF r, others
  <2>8. Coherent(r)'
    BY <2>5, <2>6, <2>7 DEF Coherent, Acts, OfRollout, RolloutIds
  <2>9. Justified(r)'
    BY <2>5 DEF Justified, Acts
  <2> QED
    BY <2>5, <2>6, <2>8, <2>9, OneMind
<1> QED
  BY <1>1, <1>2

LEMMA SupersedeNextKeeps ==
  ASSUME RolloutInv, NEW w \in Workers, SupersedeNext(w)
  PROVE  RolloutInv'
<1>1. PICK me \in Minds : me = worker[w]
  BY Known
<1>2. Coherent(me) /\ Justified(me) /\ me.step = "next"
  BY <1>1, Known DEF SupersedeNext
<1>3. PICK o \in me.todo : Become(w, [me EXCEPT !.step = "update", !.id = o.id, !.base = o.row,
                                                !.todo = @ \ {o}])
  BY <1>1 DEF SupersedeNext
<1> DEFINE r == [me EXCEPT !.step = "update", !.id = o.id, !.base = o.row, !.todo = @ \ {o}]
<1>4. o \in [id : Nat, row : Rows] /\ me.goal = "supersede"
  BY <1>2, <1>3 DEF Minds, Coherent
<1>5. /\ r \in Minds /\ r.step = "update" /\ r.id = o.id /\ r.base = o.row
      /\ r.todo \subseteq me.todo /\ r.goal = "supersede"
  BY <1>4 DEF Minds, Steps
<1>6. /\ rollouts' = rollouts /\ telemetry' = telemetry /\ manual' = manual
      /\ UNCHANGED <<promotions, userPin, serving, failed, rowRaced, limit>>
      /\ manual \subseteq Nat /\ Become(w, r)
  BY <1>3 DEF SupersedeNext, RolloutInv, Tables
<1>7. \A p \in me.todo : OfRollout(p.row, p.id) /\ p.row.state \notin Terminal
  BY <1>2 DEF Coherent
<1> HIDE DEF r
<1>8. Coherent(r)'
  BY <1>5, <1>6, <1>7 DEF Coherent, Acts, OfRollout, RolloutIds
<1>9. Justified(r)'
  BY <1>5, <1>7 DEF Justified, Acts
<1> QED
  BY <1>5, <1>6, <1>8, <1>9, OneMind

-----------------------------------------------------------------------------
(* The steps that write. *)

(* A worker writes: what it knows afterwards and what it leaves behind.    *)
LEMMA WriterKeeps ==
  ASSUME RolloutInv, Grows, NEW w \in Workers, NEW r \in Minds, Become(w, r),
         Coherent(r)', Justified(r)', Tables', RowsSound', FailedCools',
         Quiet' => Quiet /\ CoolIsRolledBack' /\ FallsBackWell',
         Quiet' => \A u \in Workers : worker[u].step = "serve" /\ worker[u].goal = "promote" =>
                     rollouts'[worker[u].id].state = "promoted",
         r.step = "serve" /\ r.goal = "promote" => rollouts'[r.id].state = "promoted"
  PROVE  RolloutInv'
<1>1. /\ MindsSound' /\ worker'[w] = r
      /\ \A u \in Workers \ {w} : worker'[u] = worker[u]
  BY OneMindChanges DEF RolloutInv
<1>2. Quiet' => ServesPromoted'
  BY <1>1 DEF ServesPromoted
<1> QED
  BY <1>1, <1>2 DEF RolloutInv, QuietInv

LEMMA KnownGoodIsGood ==
  ASSUME RolloutInv
  PROVE  /\ KnownGood \in RolloutVersions
         /\ FallsBackWell => GoodVersion(KnownGood)
<1>1. CASE Promoted = {}
  BY <1>1 DEF KnownGood, RolloutInv, Tables, FallsBackWell
<1>2. CASE Promoted # {}
  <2> DEFINE last == CHOOSE k \in Promoted : \A l \in Promoted : l <= k
  <2>1. promotions \in Seq(Nat) /\ \A k \in DOMAIN promotions : promotions[k] \in RolloutIds
    BY DEF RolloutInv, Tables
  <2>2. Len(promotions) \in Nat /\ Promoted \subseteq 1..Len(promotions)
    BY <2>1 DEF Promoted
  <2>3. last \in Promoted
    BY <1>2, <2>2, GreatestElement
  <2>4. KnownGood = rollouts[promotions[last]].ver
    BY <1>2 DEF KnownGood
  <2>5. promotions[last] \in RolloutIds /\ rollouts[promotions[last]].state = "promoted"
    BY <2>1, <2>3 DEF Promoted
  <2> HIDE DEF last
  <2>6. rollouts[promotions[last]].ver \in Releases
    BY <2>5, Known
  <2> QED
    BY <2>4, <2>5, <2>6 DEF GoodVersion, RolloutVersions
<1> QED
  BY <1>1, <1>2

LEMMA CreateInsertKeeps ==
  ASSUME RolloutInv, NEW w \in Workers, CreateInsert(w)
  PROVE  RolloutInv'
<1>1. PICK prev \in RolloutVersions : prev = KnownGood
  BY KnownGoodIsGood
<1>2. PICK v \in Releases : v = worker[w].ver
  BY Known DEF CreateInsert, Creating, Coherent
<1> DEFINE row == [NoRow EXCEPT !.ver = v, !.prev = prev, !.state = "canary"]
           zero == [s \in Sorts |-> 0]
<1>3. /\ rollouts' = Append(rollouts, row) /\ telemetry' = Append(telemetry, zero)
      /\ UNCHANGED <<promotions, userPin, serving, failed, manual, limit>> /\ Become(w, Resting)
  BY <1>1, <1>2 DEF CreateInsert
<1>4. /\ row \in Rows /\ row.ver = v /\ row.prev = prev /\ row.state = "canary"
      /\ row.clean = 0 /\ ~row.cool
  BY RolloutAssumption, 0 \in 0..RequiredClean DEF NoRow, Rows, Exposed, RolloutVersions
<1>5. Total(zero) \in Nat /\ zero \in [Sorts -> 0..limit.events]
  BY DEF RolloutInv, Tables, Total, Sorts
<1> HIDE DEF row, zero
<1>0. PICK n \in Nat : n = Len(rollouts)
  BY Known
<1>6. /\ rollouts \in Seq(Rows) /\ telemetry \in Seq([Sorts -> 0..limit.events])
      /\ Len(telemetry) = n /\ Len(rollouts) = n /\ RolloutIds = 1..n
  BY <1>0, Known DEF RolloutInv, Tables
<1>7. /\ rollouts' \in Seq(Rows) /\ telemetry' \in Seq([Sorts -> 0..limit.events])
      /\ Len(rollouts') = n + 1 /\ Len(telemetry') = n + 1 /\ RolloutIds' = 1..(n + 1)
      /\ \A i \in 1..n : rollouts'[i] = rollouts[i] /\ telemetry'[i] = telemetry[i]
      /\ rollouts'[n + 1] = row
  BY <1>3, <1>4, <1>5, <1>6 DEF RolloutIds
<1>8. RolloutIds' = RolloutIds \cup {n + 1} /\ n + 1 \notin RolloutIds
  BY <1>6, <1>7
<1>9. Grows
  BY <1>3, <1>6, <1>7, <1>8 DEF Grows, Seen
<1>10. Tables'
  BY <1>3, <1>7, <1>8 DEF RolloutInv, Tables
<1>11. RowsSound'
  <2>1. \A i \in RolloutIds : rollouts[i].ver \in Releases /\ Warranted(rollouts[i], i)
    BY DEF RolloutInv, RowsSound
  <2>2. \A i \in RolloutIds : rollouts'[i].ver \in Releases /\ Warranted(rollouts[i], i)'
    BY <1>6, <1>7, <2>1 DEF Warranted, Seen
  <2>3. row.ver \in Releases /\ Warranted(rollouts[n + 1], n + 1)'
    BY <1>4, <1>7 DEF Warranted
  <2> QED
    BY <1>7, <1>8, <2>2, <2>3 DEF RowsSound
<1>12. ~rowRaced' => ~rowRaced
  BY Zenon DEF CreateInsert
<1>13. FailedCools'
  <2>1. \A u : Cooling(u) => Cooling(u)'
    BY <1>6, <1>7, <1>8 DEF Cooling
  <2> QED
    BY <1>3, <1>12, <2>1 DEF FailedCools, RolloutInv
<1>14. Quiet' => Quiet
  BY <1>3, <1>12 DEF Quiet
<1>15. ASSUME Quiet PROVE CoolIsRolledBack' /\ FallsBackWell'
  <2>1. CoolIsRolledBack /\ FallsBackWell
    BY <1>15 DEF RolloutInv, QuietInv
  <2>2. CoolIsRolledBack'
    BY <1>4, <1>6, <1>7, <1>8, <2>1 DEF CoolIsRolledBack
  <2>3. \A u : GoodVersion(u) => GoodVersion(u)'
    BY <1>6, <1>7, <1>8 DEF GoodVersion
  <2>4. GoodVersion(row.prev)'
    BY <1>1, <1>4, <2>1, <2>3, KnownGoodIsGood DEF GoodVersion
  <2>5. GoodVersion(serving)'
    BY <1>3, <2>1, <2>3 DEF FallsBackWell, GoodVersion
  <2>6. ASSUME NEW i \in RolloutIds PROVE GoodVersion(rollouts[i].prev)'
    <3>1. PICK p : p = rollouts[i].prev /\ p = rollouts'[i].prev
      BY <1>6, <1>7
    <3>2. GoodVersion(p)'
      BY <2>1, <2>3, <3>1 DEF FallsBackWell
    <3> QED
      BY <3>1, <3>2 DEF GoodVersion
  <2> QED
    BY <1>7, <1>8, <2>2, <2>4, <2>5, <2>6 DEF FallsBackWell, GoodVersion
<1>16. Quiet => \A u \in Workers : worker[u].step = "serve" /\ worker[u].goal = "promote" =>
                   rollouts'[worker[u].id].state = "promoted"
  BY <1>6, <1>7, Known DEF RolloutInv, QuietInv, ServesPromoted, Coherent
<1>17. Resting \in Minds /\ Coherent(Resting)' /\ Justified(Resting)' /\ Resting.step # "serve"
  BY RestingIsSound DEF Resting
<1> QED
  BY <1>3, <1>9, <1>10, <1>11, <1>13, <1>14, <1>15, <1>16, <1>17, WriterKeeps

LEMMA EventSaveKeeps ==
  ASSUME RolloutInv, NEW w \in Workers, NEW v \in Releases, NEW s \in Sorts, EventSave(w, v, s)
  PROVE  RolloutInv'
<1>1. /\ UNCHANGED <<rollouts, userPin, serving, promotions, failed, rowRaced, manual, limit>>
      /\ RolloutIds' = RolloutIds
  BY DEF EventSave, RolloutIds
<1>2. /\ telemetry \in Seq([Sorts -> 0..limit.events]) /\ Len(telemetry) = Len(rollouts)
      /\ limit.events \in Nat /\ Len(rollouts) \in Nat /\ RolloutIds = 1..Len(rollouts)
  BY Known DEF RolloutInv, Tables
<1>3. telemetry' = [i \in RolloutIds |-> IF rollouts[i].ver # v THEN telemetry[i]
                                         ELSE [telemetry[i] EXCEPT ![s] = @ + 1]]
  BY DEF EventSave
<1>4. ASSUME NEW i \in RolloutIds
      PROVE  telemetry'[i] \in [Sorts -> 0..limit.events] /\ Total(telemetry'[i]) >= Total(telemetry[i])
  <2>1. PICK m \in [Sorts -> 0..limit.events] : m = telemetry[i]
    BY <1>2
  <2>2. PICK n \in Nat : n = limit.events
    BY <1>2
  <2>3. CASE rollouts[i].ver # v
    <3>1. telemetry'[i] = m /\ Total(m) \in Nat /\ m \in [Sorts -> 0..limit.events]
      BY <1>2, <1>3, <2>1, <2>3, TotalIsNat
    <3> QED
      BY <2>1, <3>1
  <2>4. CASE rollouts[i].ver = v
    <3>1. telemetry'[i] = [m EXCEPT ![s] = @ + 1] /\ Total(m) < n
      BY <1>3, <2>1, <2>2, <2>4 DEF EventSave
    <3>2. /\ m["clean"] \in 0..n /\ m["failure"] \in 0..n /\ m["hard"] \in 0..n /\ m[s] \in Nat
      BY <2>1, <2>2 DEF Sorts
    <3>3. m[s] < n
      BY <3>1, <3>2 DEF Total, Sorts
    <3>4. [m EXCEPT ![s] = @ + 1] \in [Sorts -> 0..n]
      BY <2>1, <2>2, <3>2, <3>3
    <3>5. Total([m EXCEPT ![s] = @ + 1]) >= Total(m)
      BY <2>1, <2>2, <3>2 DEF Total, Sorts
    <3> QED
      BY <2>1, <2>2, <3>1, <3>4, <3>5
  <2> QED
    BY <2>3, <2>4
<1>5. telemetry' \in Seq([Sorts -> 0..limit.events]) /\ Len(telemetry') = Len(rollouts)
  <2> DEFINE e(i) == IF rollouts[i].ver # v THEN telemetry[i] ELSE [telemetry[i] EXCEPT ![s] = @ + 1]
  <2>1. telemetry' = [i \in 1..Len(rollouts) |-> e(i)]
    BY <1>2, <1>3
  <2>2. \A i \in 1..Len(rollouts) : e(i) \in [Sorts -> 0..limit.events]
    BY <1>2, <1>4, <2>1
  <2> HIDE DEF e
  <2> QED
    BY <1>2, <2>1, <2>2
<1>6. \A i \in RolloutIds : Seen(i) => Seen(i)'
  <2> SUFFICES ASSUME NEW i \in RolloutIds, Total(telemetry[i]) >= MinInvocations
               PROVE  Total(telemetry'[i]) >= MinInvocations
    BY DEF Seen
  <2>1. PICK n \in Nat : n = limit.events
    BY <1>2
  <2>2. telemetry[i] \in [Sorts -> 0..n] /\ telemetry'[i] \in [Sorts -> 0..n]
    BY <1>2, <1>4, <2>1
  <2>3. Total(telemetry[i]) \in Nat /\ Total(telemetry'[i]) \in Nat /\ MinInvocations \in Nat
    BY <2>2, TotalIsNat, RolloutAssumption
  <2> QED
    BY <1>4, <2>3
<1>7. Grows
  BY <1>1, <1>6 DEF Grows
<1>8. Tables'
  BY <1>1, <1>5 DEF RolloutInv, Tables
<1>9. RowsSound'
  BY <1>1, <1>6 DEF RolloutInv, RowsSound, Warranted
<1>10. FailedCools'
  BY <1>1 DEF FailedCools, Cooling, RolloutInv
<1>11. (Quiet' => Quiet) /\ (CoolIsRolledBack => CoolIsRolledBack') /\ (FallsBackWell => FallsBackWell')
  BY <1>1 DEF Quiet, CoolIsRolledBack, FallsBackWell, GoodVersion
<1>12. Quiet => \A u \in Workers : worker[u].step = "serve" /\ worker[u].goal = "promote" =>
                   rollouts'[worker[u].id].state = "promoted"
  BY <1>1 DEF RolloutInv, QuietInv, ServesPromoted
<1> DEFINE r == [Resting EXCEPT !.step = "look", !.sort = s, !.ver = v]
<1>13. /\ r \in Minds /\ Coherent(r)' /\ Justified(r)' /\ r.step # "serve" /\ Become(w, r)
  BY RestingIsSound DEF Resting, RolloutVersions, EventSave
<1> HIDE DEF r
<1>14. Quiet' => Quiet /\ CoolIsRolledBack' /\ FallsBackWell'
  BY <1>11 DEF RolloutInv, QuietInv
<1> QED
  BY <1>7, <1>8, <1>9, <1>10, <1>11, <1>12, <1>13, <1>14, WriterKeeps

LEMMA RegistrySetKeeps ==
  ASSUME RolloutInv, NEW w \in Workers, RegistrySet(w)
  PROVE  RolloutInv'
<1>1. PICK me \in Minds : me = worker[w]
  BY Known
<1>2. /\ Coherent(me) /\ me.step = "serve" /\ me.goal \in {"rollback", "promote"} /\ me.id \in RolloutIds
      /\ OfRollout(me.base, me.id)
  BY <1>1, Known DEF RegistrySet, Coherent
<1> DEFINE r == IF me.goal = "promote" THEN [me EXCEPT !.step = "list"] ELSE Resting
<1>3. /\ UNCHANGED <<rollouts, telemetry, userPin, promotions, failed, rowRaced, manual, limit>>
      /\ serving' = (IF me.goal = "promote" THEN me.base.ver ELSE me.base.prev)
      /\ Become(w, r) /\ RolloutIds' = RolloutIds
  BY <1>1 DEF RegistrySet, RolloutIds
<1>4. r \in Minds /\ r.step # "serve" /\ Coherent(r)' /\ Justified(r)'
  <2>1. CASE me.goal = "promote"
    <3>1. /\ r \in Minds /\ r.step = "list" /\ r.todo = me.todo /\ r.goal = me.goal
      BY <2>1 DEF Minds, Steps
    <3>2. Coherent(r)'
      BY <1>2, <1>3, <3>1 DEF Coherent, Acts, OfRollout
    <3> QED
      BY <3>1, <3>2 DEF Justified, Acts
  <2>2. CASE me.goal # "promote"
    BY <2>2, RestingIsSound DEF Resting
  <2> QED
    BY <2>1, <2>2
<1>5. Tables'
  <2>1. serving' \in RolloutVersions
    BY <1>3 DEF Minds, Rows
  <2> QED
    BY <1>3, <2>1 DEF RolloutInv, Tables
<1>6. Grows
  BY <1>3, SameTablesGrow
<1>7. RowsSound' /\ FailedCools'
  BY <1>3 DEF RolloutInv, RowsSound, FailedCools, Cooling, Warranted, Seen
<1>8. (Quiet' => Quiet) /\ (CoolIsRolledBack => CoolIsRolledBack')
  BY <1>3 DEF Quiet, CoolIsRolledBack
<1>9. ASSUME Quiet PROVE FallsBackWell'
  <2>1. ServesPromoted /\ FallsBackWell
    BY <1>9 DEF RolloutInv, QuietInv
  <2>2. GoodVersion(me.base.ver) \/ me.goal # "promote"
    BY <1>1, <1>2, <2>1 DEF ServesPromoted, OfRollout, GoodVersion
  <2>3. GoodVersion(me.base.prev)
    BY <1>2, <2>1 DEF FallsBackWell, OfRollout
  <2>4. PICK v : v = serving' /\ GoodVersion(v)
    BY <1>3, <2>2, <2>3
  <2>5. GoodVersion(serving)'
    BY <1>3, <2>4 DEF GoodVersion
  <2>6. \A i \in RolloutIds : GoodVersion(rollouts[i].prev)'
    BY <1>3, <2>1 DEF FallsBackWell, GoodVersion
  <2> QED
    BY <1>3, <2>5, <2>6 DEF FallsBackWell
<1>10. Quiet => \A u \in Workers : worker[u].step = "serve" /\ worker[u].goal = "promote" =>
                   rollouts'[worker[u].id].state = "promoted"
  BY <1>3 DEF RolloutInv, QuietInv, ServesPromoted
<1> HIDE DEF r
<1>11. Quiet' => Quiet /\ CoolIsRolledBack' /\ FallsBackWell'
  BY <1>8, <1>9 DEF RolloutInv, QuietInv
<1> QED
  BY <1>3, <1>4, <1>5, <1>6, <1>7, <1>8, <1>10, <1>11, WriterKeeps

(* A write on a row that is still the one that was read.                   *)
LEMMA FreshWrite ==
  ASSUME NEW me \in Minds, me.step = "write", ~Outdated(me), NEW row, row = rollouts[me.id]
  PROVE  /\ row.state = me.copy.state /\ (row.cool <=> me.copy.cool)
         /\ me.goal # "keep" => row.state = me.base.state /\ row.clean = me.base.clean
  BY DEF Outdated, Progress

LEMMA UpdateWriteKeeps ==
  ASSUME RolloutInv, NEW w \in Workers, UpdateWrite(w)
  PROVE  RolloutInv'
<1>1. PICK me \in Minds : me = worker[w]
  BY Known
<1>2. Coherent(me) /\ Justified(me) /\ me.step = "write"
  BY <1>1, Known DEF UpdateWrite
<1>3. PICK i \in RolloutIds : i = me.id
  BY <1>2 DEF Coherent
<1>4. PICK new : new = Updated(me.goal, me.copy, me.base)
  OBVIOUS
<1> DEFINE r == IF me.goal \in {"rollback", "promote"} THEN [me EXCEPT !.step = "serve", !.copy = NoRow]
                ELSE IF me.todo # {} THEN [me EXCEPT !.step = "next", !.copy = NoRow]
                ELSE Resting
<1>5. /\ rollouts' = [rollouts EXCEPT ![i] = new]
      /\ promotions' = (IF me.goal = "promote" THEN Append(promotions, i) ELSE promotions)
      /\ failed' = (IF me.goal = "rollback" THEN failed \cup {me.base.ver} ELSE failed)
      /\ UNCHANGED <<telemetry, userPin, serving, manual, limit>> /\ Become(w, r)
  BY <1>1, <1>3, <1>4 DEF UpdateWrite
<1>6. ~rowRaced' => ~rowRaced /\ ~Outdated(me)
  BY <1>1, Zenon DEF UpdateWrite
<1>7. PICK row \in Rows : row = rollouts[i]
  BY Known
<1>8. /\ OfRollout(me.copy, i) /\ Warranted(me.copy, i) /\ row.ver \in Releases /\ i \in Nat
      /\ me.goal # "keep" => OfRollout(me.base, i)
  BY <1>2, <1>3, <1>7, Known DEF Coherent, Acts
<1>9. me.goal = "observe" => me.base.clean < RequiredClean /\ Seen(i)
  BY <1>2, <1>3 DEF Justified, Acts
<1>10. /\ new \in Rows /\ new.ver = row.ver /\ new.prev = row.prev
       /\ new.state = StateAfter(me.goal, me.copy)
       /\ me.goal = "rollback" => new.cool
       /\ me.goal # "rollback" => (new.cool <=> me.copy.cool)
       /\ me.goal # "observe" => new.clean = me.copy.clean
  <2>1. me.goal \in Goals /\ me.copy \in Rows /\ me.base \in Rows
    BY DEF Minds
  <2>2. me.copy.ver = row.ver /\ me.copy.prev = row.prev
    BY <1>7, <1>8 DEF OfRollout
  <2>3. new = Updated(me.goal, me.copy, me.base) /\ RequiredClean \in Nat
    BY <1>4, RolloutAssumption
  <2>4. CASE me.goal = "observe"
    <3>1. me.base.clean + 1 \in 0..RequiredClean
      BY <1>9, <2>1, <2>3, <2>4 DEF Rows
    <3> QED
      BY <2>1, <2>2, <2>3, <2>4, <3>1 DEF Updated, StateAfter, Rows, Exposed, Terminal
  <2>5. CASE me.goal = "keep"
    BY <2>1, <2>2, <2>3, <2>5 DEF Updated, StateAfter
  <2>6. CASE me.goal = "rollback"
    BY <2>1, <2>2, <2>3, <2>6 DEF Updated, StateAfter, Rows, Exposed, Terminal
  <2>7. CASE me.goal \notin {"keep", "observe", "rollback"}
    BY <2>1, <2>2, <2>3, <2>7 DEF Updated, StateAfter, Rows, Exposed, Terminal, Goals
  <2> QED
    BY <2>4, <2>5, <2>6, <2>7
<1> HIDE DEF r
<1>11. /\ RolloutIds' = RolloutIds /\ rollouts' \in Seq(Rows) /\ Len(rollouts') = Len(rollouts)
       /\ rollouts'[i] = new /\ \A j \in RolloutIds \ {i} : rollouts'[j] = rollouts[j]
  BY <1>5, <1>10 DEF RolloutInv, Tables, RolloutIds
<1>12. \A j \in RolloutIds : Seen(j)' = Seen(j)
  BY <1>5 DEF Seen
<1>13. Grows
  BY <1>5, <1>7, <1>10, <1>11, <1>12 DEF Grows
<1>14. Tables'
  <2>1. promotions \in Seq(Nat) /\ \A k \in DOMAIN promotions : promotions[k] \in RolloutIds
    BY DEF RolloutInv, Tables
  <2>2. promotions' \in Seq(Nat) /\ \A k \in DOMAIN promotions' : promotions'[k] \in RolloutIds
    BY <1>5, <1>8, <2>1
  <2>3. failed' \subseteq Releases
    BY <1>5, <1>7, <1>8 DEF RolloutInv, Tables, OfRollout
  <2> QED
    BY <1>5, <1>11, <2>2, <2>3 DEF RolloutInv, Tables
<1>15. RowsSound'
  <2>1. Warranted(new, i)'
    <3>1. CASE me.goal = "keep"
      BY <1>8, <1>10, <1>12, <3>1 DEF Warranted, StateAfter
    <3>2. CASE me.goal = "observe"
      BY <1>9, <1>10, <1>12, <3>2 DEF Warranted, StateAfter
    <3>3. CASE me.goal \notin {"keep", "observe"}
      <4>1. new.state \notin {"canary", "observing"}
        BY <1>10, <3>3 DEF StateAfter
      <4> QED
        BY <4>1 DEF Warranted
    <3> QED
      BY <3>1, <3>2, <3>3
  <2>2. \A j \in RolloutIds \ {i} : rollouts'[j].ver \in Releases /\ Warranted(rollouts[j], j)'
    BY <1>11, <1>12 DEF RolloutInv, RowsSound, Warranted
  <2>3. new.ver \in Releases /\ Warranted(rollouts[i], i)'
    BY <1>8, <1>10, <1>11, <2>1 DEF Warranted
  <2> QED
    BY <1>11, <2>2, <2>3 DEF RowsSound
<1>16. FailedCools'
  <2> SUFFICES ASSUME ~rowRaced', NEW v \in failed' PROVE Cooling(v)'
    BY DEF FailedCools
  <2>1. ~rowRaced /\ (row.cool <=> me.copy.cool)
    BY <1>2, <1>3, <1>6, <1>7, FreshWrite
  <2>2. CASE me.goal = "rollback" /\ v = me.base.ver
    BY <1>7, <1>8, <1>10, <1>11, <2>2 DEF OfRollout, Cooling
  <2>3. CASE v \in failed
    <3>1. PICK j \in RolloutIds : rollouts[j].ver = v /\ rollouts[j].cool
      BY <2>1, <2>3 DEF RolloutInv, FailedCools, Cooling
    <3>2. CASE j = i
      <4>1. new.cool
        BY <1>7, <1>10, <2>1, <3>1, <3>2
      <4> QED
        BY <1>7, <1>10, <1>11, <3>1, <3>2, <4>1 DEF Cooling
    <3>3. CASE j # i
      BY <1>11, <3>1, <3>3 DEF Cooling
    <3> QED
      BY <3>2, <3>3
  <2> QED
    BY <1>5, <2>2, <2>3
<1>17. ASSUME Quiet'
       PROVE  /\ Quiet /\ (row.cool <=> me.copy.cool) /\ row.state = me.copy.state
              /\ row.state \in Terminal => me.goal = "keep"
  <2>1. ~rowRaced /\ ~Outdated(me) /\ manual = {}
    BY <1>5, <1>6, <1>17 DEF Quiet
  <2>2. /\ row.state = me.copy.state /\ (row.cool <=> me.copy.cool)
        /\ me.goal # "keep" => row.state = me.base.state
    BY <1>2, <1>3, <1>7, <2>1, FreshWrite
  <2>3. me.goal # "keep" => me.base.state \notin Terminal
    BY <1>2, <2>1 DEF Justified, Acts
  <2> QED
    BY <2>1, <2>2, <2>3 DEF Quiet
<1>18. ASSUME Quiet', NEW j \in RolloutIds, rollouts[j].state \in Terminal
       PROVE  rollouts'[j].state = rollouts[j].state
  BY <1>7, <1>10, <1>11, <1>17, <1>18 DEF StateAfter
<1>19. ASSUME Quiet' PROVE CoolIsRolledBack'
  <2>1. CoolIsRolledBack
    BY <1>17, <1>19 DEF RolloutInv, QuietInv
  <2>2. new.cool => new.state = "rolled_back"
    <3>1. CASE me.goal = "rollback"
      BY <1>10, <3>1 DEF StateAfter
    <3>2. CASE me.goal # "rollback"
      <4> SUFFICES ASSUME new.cool PROVE new.state = "rolled_back"
        OBVIOUS
      <4>1. row.cool
        BY <1>10, <1>17, <1>19, <3>2
      <4>2. row.state = "rolled_back"
        BY <1>7, <2>1, <4>1 DEF CoolIsRolledBack
      <4> QED
        BY <1>10, <1>17, <1>19, <4>2 DEF Terminal, StateAfter
    <3> QED
      BY <3>1, <3>2
  <2> QED
    BY <1>11, <2>1, <2>2 DEF CoolIsRolledBack
<1>20. ASSUME Quiet' PROVE FallsBackWell'
  <2>1. FallsBackWell
    BY <1>17, <1>20 DEF RolloutInv, QuietInv
  <2>2. ASSUME NEW v, GoodVersion(v) PROVE GoodVersion(v)'
    <3>1. CASE v = FirstVersion
      BY <3>1 DEF GoodVersion
    <3>2. CASE v # FirstVersion
      <4>1. PICK j \in RolloutIds : rollouts[j].ver = v /\ rollouts[j].state = "promoted"
        BY <2>2, <3>2 DEF GoodVersion
      <4>2. j \in RolloutIds' /\ rollouts'[j].ver = v /\ rollouts'[j].state = "promoted"
        BY <1>11, <1>13, <1>18, <1>20, <4>1 DEF Grows, Terminal
      <4> QED
        BY <4>2 DEF GoodVersion
    <3> QED
      BY <3>1, <3>2
  <2>3. GoodVersion(serving)'
    <3>1. PICK v : v = serving
      OBVIOUS
    <3>2. GoodVersion(v)'
      BY <2>1, <2>2, <3>1 DEF FallsBackWell
    <3> QED
      BY <1>5, <3>1, <3>2 DEF GoodVersion
  <2>4. ASSUME NEW j \in RolloutIds PROVE GoodVersion(rollouts[j].prev)'
    <3>1. PICK v : v = rollouts[j].prev /\ v = rollouts'[j].prev
      BY <1>13 DEF Grows
    <3>2. GoodVersion(v)'
      BY <2>1, <2>2, <3>1 DEF FallsBackWell
    <3> QED
      BY <3>1, <3>2 DEF GoodVersion
  <2> QED
    BY <1>11, <2>3, <2>4 DEF FallsBackWell
<1>21. ASSUME Quiet', NEW u \in Workers, worker[u].step = "serve", worker[u].goal = "promote"
       PROVE  rollouts'[worker[u].id].state = "promoted"
  <2>1. worker[u].id \in RolloutIds /\ rollouts[worker[u].id].state = "promoted"
    BY <1>17, <1>21, Known DEF RolloutInv, QuietInv, ServesPromoted, Coherent
  <2> QED
    BY <1>18, <1>21, <2>1 DEF Terminal
<1>22. /\ r \in Minds /\ Coherent(r)' /\ Justified(r)'
       /\ r.step = "serve" /\ r.goal = "promote" => rollouts'[r.id].state = "promoted"
  <2>1. OfRollout(me.copy, i)' /\ (me.goal # "keep" => OfRollout(me.base, i)')
        /\ \A o \in me.todo : OfRollout(o.row, o.id)' /\ o.row.state \notin Terminal
    BY <1>2, <1>8, <1>13 DEF OfRollout, Grows, Coherent
  <2>2. NoRow \in Rows
    BY RestingIsSound DEF Resting, Minds
  <2>3. CASE me.goal \in {"rollback", "promote"}
    <3>1. /\ r \in Minds /\ r.step = "serve" /\ r.id = i /\ r.goal = me.goal /\ r.base = me.base
          /\ r.todo = me.todo
      BY <1>3, <2>2, <2>3 DEF Minds, Steps, r
    <3>2. Coherent(r)'
      BY <1>2, <1>11, <2>1, <2>3, <3>1 DEF Coherent, Acts
    <3>3. Justified(r)'
      BY <3>1 DEF Justified, Acts
    <3> QED
      BY <1>3, <1>10, <1>11, <3>1, <3>2, <3>3 DEF StateAfter
  <2>4. CASE me.goal \notin {"rollback", "promote"} /\ me.todo # {}
    <3>1. /\ r \in Minds /\ r.step = "next" /\ r.goal = me.goal /\ r.todo = me.todo
      BY <2>2, <2>4 DEF Minds, Steps, r
    <3>2. Coherent(r)'
      BY <1>2, <2>1, <3>1 DEF Coherent, Acts
    <3>3. Justified(r)'
      BY <3>1 DEF Justified, Acts
    <3> QED
      BY <3>1, <3>2, <3>3
  <2>5. CASE me.goal \notin {"rollback", "promote"} /\ me.todo = {}
    BY <2>5, RestingIsSound DEF Resting, r
  <2> QED
    BY <2>3, <2>4, <2>5
<1> QED
  BY <1>5, <1>13, <1>14, <1>15, <1>16, <1>17, <1>19, <1>20, <1>21, <1>22, WriterKeeps

-----------------------------------------------------------------------------
(* The steps of the user and of time. *)

LEMMA SetOverrideKeeps ==
  ASSUME RolloutInv, SetOverride
  PROVE  RolloutInv'
<1>1. /\ UNCHANGED <<rollouts, telemetry, serving, promotions, worker, failed, rowRaced, manual,
                     limit>>
      /\ RolloutIds' = RolloutIds
  BY DEF SetOverride, RolloutIds
<1>2. userPin' \in RolloutVersions \cup {NoOverride, Disabled}
  BY RolloutAssumption DEF SetOverride, RolloutVersions
<1>3. Tables' /\ RowsSound' /\ FailedCools'
  BY <1>1, <1>2 DEF RolloutInv, Tables, RowsSound, FailedCools, Cooling, Warranted, Seen
<1>4. Grows
  BY <1>1, SameTablesGrow
<1>5. MindsSound'
  BY <1>1, <1>4, MindsLast DEF RolloutInv, MindsSound
<1>6. QuietInv'
  BY <1>1 DEF RolloutInv, QuietInv, Quiet, CoolIsRolledBack, ServesPromoted, FallsBackWell,
              GoodVersion
<1> QED
  BY <1>3, <1>5, <1>6 DEF RolloutInv

LEMMA RolloutCrashKeeps ==
  ASSUME RolloutInv, RolloutCrash
  PROVE  RolloutInv'
<1>1. /\ UNCHANGED <<rollouts, telemetry, userPin, serving, promotions, failed, rowRaced, manual,
                     limit>>
      /\ RolloutIds' = RolloutIds /\ worker' = [w \in Workers |-> Resting]
  BY DEF RolloutCrash, RolloutIds
<1>2. Tables' /\ RowsSound' /\ FailedCools'
  BY <1>1 DEF RolloutInv, Tables, RowsSound, FailedCools, Cooling, Warranted, Seen
<1>3. MindsSound'
  <2>1. Resting \in Minds /\ Coherent(Resting)' /\ Justified(Resting)'
    BY RestingIsSound
  <2>2. \A w \in Workers : Coherent(worker[w])' /\ Justified(worker[w])'
    BY <1>1, <2>1 DEF Coherent, Justified, Acts, Resting
  <2> QED
    BY <1>1, <2>1, <2>2 DEF MindsSound
<1>4. QuietInv'
  <2>1. ServesPromoted'
    BY <1>1 DEF ServesPromoted, Resting
  <2> QED
    BY <1>1, <2>1 DEF RolloutInv, QuietInv, Quiet, CoolIsRolledBack, FallsBackWell, GoodVersion
<1> QED
  BY <1>2, <1>3, <1>4 DEF RolloutInv

(* A row that forgets its cooldown keeps everything else. *)
LEMMA CooledRow ==
  ASSUME NEW row \in Rows, NEW new, NEW b \in BOOLEAN, new = [row EXCEPT !.cool = b]
  PROVE  /\ new \in Rows /\ new.ver = row.ver /\ new.prev = row.prev /\ new.state = row.state
         /\ new.clean = row.clean /\ (new.cool <=> b)
  BY DEF Rows

LEMMA CooledMind ==
  ASSUME NEW me \in Minds, Coherent(me), Justified(me), Grows, NEW b \in BOOLEAN, NEW c \in BOOLEAN,
         NEW new, new = [me EXCEPT !.base.cool = b, !.copy.cool = c]
  PROVE  new \in Minds /\ Coherent(new)' /\ Justified(new)'
<1>1. PICK base : base = [me.base EXCEPT !.cool = b]
  OBVIOUS
<1>2. PICK copy : copy = [me.copy EXCEPT !.cool = c]
  OBVIOUS
<1>3. new = [me EXCEPT !.base = base, !.copy = copy]
  BY <1>1, <1>2 DEF Minds
<1>4. /\ base \in Rows /\ base.ver = me.base.ver /\ base.prev = me.base.prev
      /\ base.state = me.base.state /\ base.clean = me.base.clean
      /\ copy \in Rows /\ copy.ver = me.copy.ver /\ copy.prev = me.copy.prev
      /\ copy.state = me.copy.state /\ copy.clean = me.copy.clean
  BY <1>1, <1>2, CooledRow DEF Minds
<1>5. /\ new \in Minds /\ new.step = me.step /\ new.goal = me.goal /\ new.id = me.id
      /\ new.base = base /\ new.copy = copy /\ new.todo = me.todo /\ new.ver = me.ver
  BY <1>3, <1>4 DEF Minds
<1>6. Coherent(me)' /\ Justified(me)'
  BY KnowledgeLasts
<1>7. Coherent(new)'
  BY <1>4, <1>5, <1>6 DEF Coherent, Acts, OfRollout, Warranted
<1>8. Justified(new)'
  BY <1>4, <1>5, <1>6 DEF Justified, Acts, Warranted
<1> QED
  BY <1>5, <1>7, <1>8

LEMMA CoolDownKeeps ==
  ASSUME RolloutInv, NEW i \in RolloutIds, CoolDown(i)
  PROVE  RolloutInv'
<1>1. PICK row \in Rows : row = rollouts[i] /\ row.ver \in Releases
  BY Known
<1>2. PICK new : new = [row EXCEPT !.cool = FALSE]
  OBVIOUS
<1>3. /\ new \in Rows /\ new.ver = row.ver /\ new.prev = row.prev /\ new.state = row.state
      /\ new.clean = row.clean /\ ~new.cool
  BY <1>2, CooledRow
<1>4. /\ rollouts' = [rollouts EXCEPT ![i] = new] /\ failed' = failed \ {row.ver}
      /\ UNCHANGED <<telemetry, userPin, serving, promotions, rowRaced, manual, limit>>
  BY <1>1, <1>2 DEF CoolDown, RolloutInv, Tables
<1>5. /\ RolloutIds' = RolloutIds /\ rollouts' \in Seq(Rows) /\ Len(rollouts') = Len(rollouts)
      /\ rollouts'[i] = new /\ \A j \in RolloutIds \ {i} : rollouts'[j] = rollouts[j]
  BY <1>3, <1>4 DEF RolloutInv, Tables, RolloutIds
<1>6. /\ \A j \in RolloutIds : /\ rollouts'[j].ver = rollouts[j].ver
                               /\ rollouts'[j].prev = rollouts[j].prev
                               /\ rollouts'[j].state = rollouts[j].state
                               /\ rollouts'[j].clean = rollouts[j].clean
      /\ \A j \in RolloutIds : Seen(j)' = Seen(j)
  BY <1>1, <1>3, <1>4, <1>5 DEF Seen
<1>7. Grows
  BY <1>4, <1>5, <1>6 DEF Grows
<1>8. Tables' /\ RowsSound'
  BY <1>4, <1>5, <1>6 DEF RolloutInv, Tables, RowsSound, Warranted
<1>9. MindsSound'
  <2>1. ASSUME NEW u \in Workers
        PROVE  worker'[u] \in Minds /\ Coherent(worker[u])' /\ Justified(worker[u])'
    <3>1. PICK me \in Minds : me = worker[u] /\ Coherent(me) /\ Justified(me)
      BY Known
    <3>2. PICK b \in BOOLEAN, c \in BOOLEAN :
            worker'[u] = [me EXCEPT !.base.cool = b, !.copy.cool = c]
      <4>1. /\ (me.base.cool /\ me.id # i) \in BOOLEAN
            /\ (me.copy.cool /\ me.id # i) \in BOOLEAN
        OBVIOUS
      <4>2. worker'[u] = [me EXCEPT !.base.cool = @ /\ me.id # i, !.copy.cool = @ /\ me.id # i]
        BY <3>1 DEF CoolDown
      <4> QED
        BY <4>1, <4>2
    <3>3. PICK mine : mine = [me EXCEPT !.base.cool = b, !.copy.cool = c]
      OBVIOUS
    <3>4. mine \in Minds /\ Coherent(mine)' /\ Justified(mine)'
      BY <1>7, <3>1, <3>3, CooledMind
    <3> QED
      BY <3>2, <3>3, <3>4 DEF Coherent, Justified, Acts
  <2>2. worker' = [w \in Workers |-> worker'[w]]
    BY DEF CoolDown
  <2> QED
    BY <2>1, <2>2 DEF MindsSound
<1>10. FailedCools'
  <2> SUFFICES ASSUME ~rowRaced', NEW v \in failed' PROVE Cooling(v)'
    BY DEF FailedCools
  <2>1. v \in failed /\ v # row.ver /\ ~rowRaced
    BY <1>4
  <2>2. PICK j \in RolloutIds : rollouts[j].ver = v /\ rollouts[j].cool
    BY <2>1 DEF RolloutInv, FailedCools, Cooling
  <2> QED
    BY <1>1, <1>5, <2>1, <2>2 DEF Cooling
<1>11. QuietInv'
  <2> SUFFICES ASSUME Quiet' PROVE CoolIsRolledBack' /\ ServesPromoted' /\ FallsBackWell'
    BY DEF QuietInv
  <2>1. CoolIsRolledBack /\ ServesPromoted /\ FallsBackWell
    BY <1>4 DEF Quiet, RolloutInv, QuietInv
  <2>2. CoolIsRolledBack'
    BY <1>3, <1>5, <2>1 DEF CoolIsRolledBack
  <2>3. ServesPromoted'
    <3>1. \A u \in Workers : /\ worker'[u].step = worker[u].step
                             /\ worker'[u].goal = worker[u].goal
                             /\ worker'[u].id = worker[u].id
      <4> SUFFICES ASSUME NEW u \in Workers
                   PROVE  /\ worker'[u].step = worker[u].step
                          /\ worker'[u].goal = worker[u].goal
                          /\ worker'[u].id = worker[u].id
        OBVIOUS
      <4>1. worker[u] \in Minds
        BY Known
      <4>2. worker'[u] = [worker[u] EXCEPT !.base.cool = @ /\ worker[u].id # i,
                                           !.copy.cool = @ /\ worker[u].id # i]
        BY DEF CoolDown
      <4> QED
        BY <4>1, <4>2 DEF Minds
    <3>2. \A u \in Workers : worker[u].step = "serve" => worker[u].id \in RolloutIds
      BY Known DEF Coherent
    <3> QED
      BY <1>6, <2>1, <3>1, <3>2 DEF ServesPromoted
  <2>4. \A v : GoodVersion(v) => GoodVersion(v)'
    BY <1>5, <1>6 DEF GoodVersion
  <2>5. FallsBackWell'
    <3>1. GoodVersion(serving)'
      BY <1>4, <1>5, <1>6, <2>1 DEF FallsBackWell, GoodVersion
    <3>2. ASSUME NEW j \in RolloutIds PROVE GoodVersion(rollouts[j].prev)'
      <4>1. PICK v : v = rollouts[j].prev /\ v = rollouts'[j].prev
        BY <1>6
      <4>2. GoodVersion(v)'
        BY <2>1, <2>4, <4>1 DEF FallsBackWell
      <4> QED
        BY <4>1, <4>2 DEF GoodVersion
    <3> QED
      BY <1>5, <3>1, <3>2 DEF FallsBackWell
  <2> QED
    BY <2>2, <2>3, <2>5
<1> QED
  BY <1>8, <1>9, <1>10, <1>11 DEF RolloutInv

LEMMA InitKeeps ==
  ASSUME RolloutInit
  PROVE  RolloutInv
<1>1. /\ rollouts = <<>> /\ telemetry = <<>> /\ promotions = <<>> /\ serving = FirstVersion
      /\ failed = {} /\ manual = {} /\ userPin = NoOverride
      /\ worker = [w \in Workers |-> Resting] /\ RolloutIds = {}
      /\ limit \in [rollouts : Nat, events : Nat, disturbances : Nat]
  BY RolloutAssumption DEF RolloutInit, RolloutIds
<1>2. Tables /\ RowsSound /\ FailedCools
  BY <1>1 DEF Tables, RowsSound, FailedCools, RolloutVersions
<1>3. MindsSound
  <2>1. Resting \in Minds
    BY RestingIsSound
  <2>2. Coherent(Resting) /\ Justified(Resting)
    BY DEF Coherent, Justified, Acts, Resting
  <2> QED
    BY <1>1, <2>1, <2>2 DEF MindsSound
<1>4. QuietInv
  BY <1>1 DEF QuietInv, CoolIsRolledBack, ServesPromoted, FallsBackWell, GoodVersion, Resting
<1> QED
  BY <1>2, <1>3, <1>4 DEF RolloutInv

LEMMA RolloutStepKeeps ==
  ASSUME RolloutInv, [RolloutNext]_rolloutVars
  PROVE  RolloutInv'
<1>1. ASSUME NEW w \in Workers, GoesOn(w) PROVE RolloutInv'
  BY <1>1, CreateInsertKeeps, EventLookKeeps, EvaluateDecideKeeps, UpdateReadKeeps,
     UpdateWriteKeeps, RegistrySetKeeps, SupersedeListKeeps, SupersedeNextKeeps DEF GoesOn
<1>2. ASSUME NEW w \in Workers, NEW v \in Releases,
             CreateCheck(w, v) \/ \E s \in Sorts : EventSave(w, v, s)
      PROVE  RolloutInv'
  BY <1>2, CreateCheckKeeps, EventSaveKeeps
<1>3. ASSUME NEW w \in Workers, NEW i \in RolloutIds,
             EvaluateRead(w, i) \/ \E goal \in {"rollback", "promote"} : ManualDecide(w, i, goal)
      PROVE  RolloutInv'
  BY <1>3, EvaluateReadKeeps, ManualDecideKeeps
<1>4. CASE UNCHANGED rolloutVars
  <2>1. UNCHANGED <<rollouts, telemetry, userPin, serving, promotions, worker, failed, rowRaced,
                    manual, limit>>
    BY <1>4 DEF rolloutVars
  <2> QED
    BY <2>1 DEF RolloutInv, Tables, RowsSound, MindsSound, FailedCools, QuietInv, RolloutIds,
       Warranted, Seen, Coherent, Justified, Acts, OfRollout, Cooling, Quiet, CoolIsRolledBack,
       ServesPromoted, FallsBackWell, GoodVersion
<1> QED
  BY <1>1, <1>2, <1>3, <1>4, SetOverrideKeeps, RolloutCrashKeeps, CoolDownKeeps DEF RolloutNext

(* What the workers have read and decided fits the tables in every         *)
(* reachable state.                                                        *)
THEOREM RolloutsAreSound == RolloutSpec => []RolloutInv
<1>1. RolloutInit => RolloutInv
  BY InitKeeps
<1>2. RolloutInv /\ [RolloutNext]_rolloutVars => RolloutInv'
  BY RolloutStepKeeps
<1> QED
  BY <1>1, <1>2, PTL DEF RolloutSpec

-----------------------------------------------------------------------------
(* What follows for the rollouts. *)

(* Every variable has its type.                                            *)
THEOREM RolloutTyped == RolloutSpec => []RolloutTypeOK
<1>1. RolloutInv => RolloutTypeOK
  <2> SUFFICES ASSUME RolloutInv PROVE RolloutTypeOK
    OBVIOUS
  <2>1. /\ rollouts \in Seq(Rows) /\ telemetry \in Seq([Sorts -> 0..limit.events])
        /\ Len(telemetry) = Len(rollouts) /\ promotions \in Seq(Nat)
        /\ \A k \in DOMAIN promotions : promotions[k] \in RolloutIds
        /\ userPin \in RolloutVersions \cup {NoOverride, Disabled}
        /\ serving \in RolloutVersions /\ failed \subseteq Releases
    BY DEF RolloutInv, Tables
  <2>2. /\ ToSet(rollouts) \subseteq Rows /\ ToSet(telemetry) \subseteq [Sorts -> 0..limit.events]
        /\ ToSet(promotions) \subseteq RolloutIds
    BY <2>1 DEF ToSet
  <2>3. ASSUME NEW w \in Workers
        PROVE  /\ worker[w].base \in Rows /\ worker[w].copy \in Rows /\ worker[w].goal \in Goals
               /\ worker[w].todo \subseteq [id : RolloutIds, row : Rows]
    <3>1. worker[w] \in Minds /\ Coherent(worker[w])
      BY Known
    <3>2. \A o \in worker[w].todo : o \in [id : Nat, row : Rows] /\ o.id \in RolloutIds
      BY <3>1 DEF Minds, Coherent, OfRollout
    <3> QED
      BY <3>1, <3>2 DEF Minds
  <2> QED
    BY <2>1, <2>2, <2>3 DEF RolloutTypeOK
<1> QED
  BY <1>1, RolloutsAreSound, PTL

LEMMA RowsMove ==
  ASSUME [RolloutNext]_rolloutVars
  PROVE  \/ rollouts' = rollouts
         \/ \E w \in Workers : CreateInsert(w) \/ UpdateWrite(w)
         \/ \E i \in RolloutIds : CoolDown(i)
  BY DEF RolloutNext, rolloutVars, GoesOn, EventLook, EvaluateDecide, UpdateRead, RegistrySet,
     SupersedeList, SupersedeNext, CreateCheck, EventSave, EvaluateRead, ManualDecide,
     SetOverride, RolloutCrash

LEMMA WrittenState ==
  ASSUME RolloutInv, NEW w \in Workers, UpdateWrite(w), NEW i \in RolloutIds
  PROVE  /\ Len(rollouts') = Len(rollouts) /\ rollouts'[i].ver = rollouts[i].ver
         /\ i # worker[w].id => rollouts'[i] = rollouts[i]
         /\ i = worker[w].id => rollouts'[i].state = StateAfter(worker[w].goal, worker[w].copy)
<1>1. PICK me \in Minds : me = worker[w]
  BY Known
<1>2. rollouts' = [rollouts EXCEPT ![me.id] = Updated(me.goal, me.copy, me.base)]
  BY <1>1 DEF UpdateWrite
<1>3. rollouts \in Seq(Rows) /\ OfRollout(me.copy, me.id)
  BY <1>1, Known DEF RolloutInv, Tables, UpdateWrite, Coherent
<1>4. /\ Updated(me.goal, me.copy, me.base).state = StateAfter(me.goal, me.copy)
      /\ Updated(me.goal, me.copy, me.base).ver = me.copy.ver
  <2>1. me.copy \in Rows /\ me.goal \in Goals
    BY DEF Minds
  <2>2. CASE me.goal = "keep"
    BY <2>2 DEF Updated, StateAfter
  <2>3. CASE me.goal = "observe"
    BY <2>1, <2>3 DEF Updated, StateAfter, Rows
  <2>4. CASE me.goal \notin {"keep", "observe"}
    BY <2>1, <2>4 DEF Updated, StateAfter, Rows
  <2> QED
    BY <2>2, <2>3, <2>4
<1> QED
  BY <1>1, <1>2, <1>3, <1>4 DEF RolloutIds, OfRollout

(* What a write that follows no outdated row may change. *)
LEMMA FreshWriteIsJustified ==
  ASSUME RolloutInv, NEW w \in Workers, UpdateWrite(w), ~rowRaced', NEW i \in RolloutIds
  PROVE  /\ i \notin manual /\ rollouts[i].state \in Terminal =>
              rollouts'[i].state = rollouts[i].state
         /\ i \notin manual /\ rollouts[i].state # "promoted" /\ rollouts'[i].state = "promoted" =>
              rollouts[i].clean + 1 >= RequiredClean /\ Seen(i)
         /\ rollouts'[i].state \in Exposed => rollouts[i].state \in Exposed
<1>1. PICK me \in Minds : me = worker[w]
  BY Known
<1>2. /\ Coherent(me) /\ Justified(me) /\ me.step = "write"
  BY <1>1, Known DEF UpdateWrite
<1>3. CASE i # me.id
  BY <1>1, <1>3, WrittenState
<1>4. CASE i = me.id
  <2>1. rollouts'[i].state = StateAfter(me.goal, me.copy)
    BY <1>1, <1>4, WrittenState
  <2>2. ~Outdated(me)
    BY <1>1, Zenon DEF UpdateWrite
  <2>3. /\ rollouts[i].state = me.copy.state
        /\ me.goal # "keep" => rollouts[i].state = me.base.state /\ rollouts[i].clean = me.base.clean
    BY <1>2, <1>4, <2>2, FreshWrite
  <2>4. CASE me.goal = "keep"
    BY <2>1, <2>3, <2>4 DEF StateAfter
  <2>5. CASE me.goal # "keep"
    <3>1. Acts(me)
      BY <1>2, <2>5 DEF Acts
    <3>2. i \notin manual => rollouts[i].state \notin Terminal
      BY <1>2, <1>4, <2>3, <2>5, <3>1 DEF Justified
    <3>3. StateAfter(me.goal, me.copy) = "promoted" => me.goal = "promote"
      BY <2>5 DEF StateAfter
    <3>4. me.goal = "promote" /\ i \notin manual =>
            rollouts[i].clean + 1 >= RequiredClean /\ Seen(i)
      BY <1>2, <1>4, <2>3, <3>1 DEF Justified
    <3>5. StateAfter(me.goal, me.copy) \in Exposed => me.goal = "observe"
      BY <2>5 DEF StateAfter, Exposed
    <3>6. me.goal = "observe" => rollouts[i].state \in Exposed
      BY <1>2, <2>3, <3>1 DEF Justified
    <3> QED
      BY <2>1, <3>2, <3>3, <3>4, <3>5, <3>6
  <2> QED
    BY <2>4, <2>5
<1> QED
  BY <1>3, <1>4

LEMMA InsertedRow ==
  ASSUME RolloutInv, NEW w \in Workers, CreateInsert(w)
  PROVE  /\ Len(rollouts') = Len(rollouts) + 1 /\ Last(rollouts').ver = worker[w].ver
         /\ \A i \in RolloutIds : rollouts'[i] = rollouts[i] /\ telemetry'[i] = telemetry[i]
         /\ telemetry'[Len(rollouts) + 1]["hard"] = 0
<1>1. /\ rollouts \in Seq(Rows) /\ telemetry \in Seq([Sorts -> 0..limit.events])
      /\ Len(telemetry) = Len(rollouts)
  BY DEF RolloutInv, Tables
<1>2. PICK row : row = [NoRow EXCEPT !.ver = worker[w].ver, !.prev = KnownGood, !.state = "canary"]
  OBVIOUS
<1>4. rollouts' = Append(rollouts, row) /\ row.ver = worker[w].ver
  BY <1>2 DEF CreateInsert, NoRow
<1>3. telemetry' = Append(telemetry, [s \in Sorts |-> 0])
  BY DEF CreateInsert
<1> QED
  BY <1>1, <1>3, <1>4 DEF RolloutIds, Last, Sorts

LEMMA CooledRows ==
  ASSUME RolloutInv, NEW i \in RolloutIds, CoolDown(i)
  PROVE  /\ Len(rollouts') = Len(rollouts)
         /\ \A j \in RolloutIds : /\ rollouts'[j].ver = rollouts[j].ver
                                  /\ rollouts'[j].state = rollouts[j].state
<1>1. rollouts \in Seq(Rows) /\ rollouts[i] \in Rows
  BY Known DEF RolloutInv, Tables
<1>2. rollouts' = [rollouts EXCEPT ![i] = [rollouts[i] EXCEPT !.cool = FALSE]]
  BY <1>1 DEF CoolDown
<1> QED
  BY <1>1, <1>2 DEF RolloutIds, Rows

(* A decision holds: a rollout that was promoted, rolled back or           *)
(* superseded stays so, and a version that was rolled back is not rolled   *)
(* out again before its cooldown is over.                                  *)
THEOREM DecisionsDoHold == RolloutSpec => DecisionsHold
<1> DEFINE Holds ==
      ~rowRaced' =>
        /\ \A i \in RolloutIds \ manual :
             rollouts[i].state \in Terminal => rollouts'[i].state = rollouts[i].state
        /\ Len(rollouts') > Len(rollouts) => Last(rollouts').ver \notin failed
<1>1. ASSUME RolloutInv, [RolloutNext]_rolloutVars PROVE Holds
  <2> SUFFICES ASSUME ~rowRaced'
               PROVE  /\ \A i \in RolloutIds \ manual :
                           rollouts[i].state \in Terminal => rollouts'[i].state = rollouts[i].state
                      /\ Len(rollouts') > Len(rollouts) => Last(rollouts').ver \notin failed
    OBVIOUS
  <2>0. Len(rollouts) \in Nat
    BY <1>1, Known
  <2>1. CASE rollouts' = rollouts
    BY <2>0, <2>1
  <2>2. ASSUME NEW w \in Workers, CreateInsert(w)
        PROVE  /\ \A i \in RolloutIds : rollouts'[i] = rollouts[i]
               /\ Last(rollouts').ver \notin failed
    <3>1. ~rowRaced /\ ~Cooling(worker[w].ver)
      BY <2>2, Zenon DEF CreateInsert
    <3>2. \A v \in failed : Cooling(v)
      BY <1>1, <3>1 DEF RolloutInv, FailedCools
    <3>3. worker[w].ver \notin failed
      BY <3>1, <3>2
    <3> QED
      BY <1>1, <2>2, <3>3, InsertedRow
  <2>3. ASSUME NEW w \in Workers, UpdateWrite(w)
        PROVE  /\ \A i \in RolloutIds \ manual :
                    rollouts[i].state \in Terminal => rollouts'[i].state = rollouts[i].state
               /\ Len(rollouts') = Len(rollouts)
    <3>1. \A i \in RolloutIds \ manual :
             rollouts[i].state \in Terminal => rollouts'[i].state = rollouts[i].state
      BY <1>1, <2>3, FreshWriteIsJustified
    <3>2. worker[w].id \in RolloutIds
      BY <1>1, <2>3, Known DEF UpdateWrite, Coherent
    <3>3. Len(rollouts') = Len(rollouts)
      BY <1>1, <2>3, <3>2, WrittenState
    <3> QED
      BY <3>1, <3>3
  <2>4. ASSUME NEW i \in RolloutIds, CoolDown(i)
        PROVE  /\ \A j \in RolloutIds : rollouts'[j].state = rollouts[j].state
               /\ Len(rollouts') = Len(rollouts)
    BY <1>1, <2>4, CooledRows
  <2> QED
    BY <1>1, <2>0, <2>1, <2>2, <2>3, <2>4, RowsMove
<1>2. RolloutInv /\ [RolloutNext]_rolloutVars => [Holds]_rolloutVars
  BY <1>1
<1>3. [][Holds]_rolloutVars => DecisionsHold
  BY DEF DecisionsHold
<1> HIDE DEF Holds
<1> QED
  BY <1>2, <1>3, RolloutsAreSound, PTL DEF RolloutSpec

(* A promotion that nobody ordered is earned: RequiredClean evaluations    *)
(* found enough calls and no more failures than the policy allows.         *)
THEOREM PromotionsAreEarned == RolloutSpec => PromotionIsEarned
<1> DEFINE Earned ==
      ~rowRaced' => \A i \in RolloutIds \ manual :
        rollouts[i].state # "promoted" /\ rollouts'[i].state = "promoted" =>
          /\ rollouts[i].clean + 1 >= RequiredClean
          /\ Total(telemetry[i]) >= MinInvocations
<1>1. ASSUME RolloutInv, [RolloutNext]_rolloutVars PROVE Earned
  <2> SUFFICES ASSUME ~rowRaced', NEW i \in RolloutIds \ manual,
                      rollouts[i].state # "promoted", rollouts'[i].state = "promoted"
               PROVE  rollouts[i].clean + 1 >= RequiredClean /\ Seen(i)
    BY DEF Seen
  <2>1. PICK w \in Workers : UpdateWrite(w)
    BY <1>1, RowsMove, InsertedRow, CooledRows
  <2> QED
    BY <1>1, <2>1, FreshWriteIsJustified
<1>2. RolloutInv /\ [RolloutNext]_rolloutVars => [Earned]_rolloutVars
  BY <1>1
<1>3. [][Earned]_rolloutVars => PromotionIsEarned
  BY DEF PromotionIsEarned
<1> HIDE DEF Earned
<1> QED
  BY <1>2, <1>3, RolloutsAreSound, PTL DEF RolloutSpec

(* The registry never moves to a version in cooldown: it moves to a        *)
(* version that was promoted and has no other rollout, or to the first.    *)
THEOREM GoodVersionsAreServed == RolloutSpec => ServesGoodVersion
<1> DEFINE Good ==
      (/\ ~rowRaced /\ manual = {} /\ serving' # serving
       /\ \A i, j \in RolloutIds : i # j => rollouts[i].ver # rollouts[j].ver)
        => serving' \notin failed
<1>1. ASSUME RolloutInv, [RolloutNext]_rolloutVars PROVE Good
  <2> SUFFICES ASSUME ~rowRaced, manual = {}, serving' # serving,
                      \A i, j \in RolloutIds : i # j => rollouts[i].ver # rollouts[j].ver
               PROVE  serving' \notin failed
    OBVIOUS
  <2>1. PICK w \in Workers : RegistrySet(w)
    BY <1>1 DEF RolloutNext, rolloutVars, GoesOn, EventLook, EvaluateDecide, UpdateRead,
       CreateInsert, UpdateWrite, SupersedeList, SupersedeNext, CreateCheck, EventSave,
       EvaluateRead, ManualDecide, SetOverride, RolloutCrash, CoolDown
  <2>2. CoolIsRolledBack /\ ServesPromoted /\ FallsBackWell /\ FailedCools /\ failed \subseteq Releases
    BY <1>1 DEF Quiet, RolloutInv, QuietInv, Tables
  <2>3. PICK me \in Minds : me = worker[w]
    BY <1>1, Known
  <2>4. /\ me.step = "serve" /\ me.id \in RolloutIds /\ OfRollout(me.base, me.id)
        /\ serving' = (IF me.goal = "promote" THEN me.base.ver ELSE me.base.prev)
    BY <1>1, <2>1, <2>3, Known DEF RegistrySet, Coherent
  <2>5. GoodVersion(serving')
    <3>1. CASE me.goal = "promote"
      <4>1. rollouts[me.id].state = "promoted" /\ serving' = rollouts[me.id].ver
        BY <2>2, <2>3, <2>4, <3>1 DEF ServesPromoted, OfRollout
      <4> QED
        BY <2>4, <4>1 DEF GoodVersion
    <3>2. CASE me.goal # "promote"
      BY <2>2, <2>4, <3>2 DEF FallsBackWell, OfRollout
    <3> QED
      BY <3>1, <3>2
  <2>6. ASSUME serving' \in failed PROVE FALSE
    <3>1. PICK j \in RolloutIds : rollouts[j].ver = serving' /\ rollouts[j].cool
      BY <2>2, <2>6 DEF FailedCools, Cooling
    <3>2. serving' # FirstVersion
      BY <2>2, <2>6, RolloutAssumption
    <3>3. PICK k \in RolloutIds : rollouts[k].ver = serving' /\ rollouts[k].state = "promoted"
      BY <2>5, <3>2 DEF GoodVersion
    <3>4. j = k
      BY <3>1, <3>3
    <3> QED
      BY <2>2, <3>1, <3>3, <3>4 DEF CoolIsRolledBack
  <2> QED
    BY <2>6
<1>2. RolloutInv /\ [RolloutNext]_rolloutVars => [Good]_rolloutVars
  BY <1>1
<1>3. [][Good]_rolloutVars => ServesGoodVersion
  BY DEF ServesGoodVersion
<1> HIDE DEF Good
<1> QED
  BY <1>2, <1>3, RolloutsAreSound, PTL DEF RolloutSpec

-----------------------------------------------------------------------------
(* Hard signals. *)

(* A worker is on the way to roll back rollout i.                          *)
RollsBack(me, i) ==
  \/ me.step = "look" /\ me.sort = "hard" /\ me.ver = rollouts[i].ver
  \/ me.step \in {"update", "write"} /\ me.goal = "rollback" /\ me.id = i

HardSignalInv == crashes \in Nat /\ HardSignalEndsExposure

LEMMA HardSignalMeans ==
  HardSignalEndsExposure <=>
    (~rowRaced /\ crashes = 0 =>
       \A i \in ExposedIds : i = Len(rollouts) /\ telemetry[i]["hard"] > 0 =>
         \E w \in Workers : RollsBack(worker[w], i))
  BY DEF HardSignalEndsExposure, RollsBack

(* Who keeps on the way, as long as the rows keep their versions.          *)
LEMMA OthersGoOn ==
  ASSUME RolloutInv, NEW w \in Workers, NEW r, Become(w, r), NEW i, rollouts'[i].ver = rollouts[i].ver,
         RollsBack(worker[w], i) => RollsBack(r, i),
         \E u \in Workers : RollsBack(worker[u], i)
  PROVE  \E u \in Workers : RollsBack(worker[u], i)'
<1>1. worker \in [Workers -> Minds]
  BY DEF RolloutInv, MindsSound
<1>2. worker' = [worker EXCEPT ![w] = r]
  BY DEF Become
<1>3. PICK u \in Workers : RollsBack(worker[u], i)
  OBVIOUS
<1>4. CASE u = w
  BY <1>1, <1>2, <1>3, <1>4 DEF RollsBack
<1>5. CASE u # w
  BY <1>1, <1>2, <1>3, <1>5 DEF RollsBack
<1> QED
  BY <1>4, <1>5

LEMMA HardSignalThought ==
  ASSUME RolloutInv, HardSignalInv, NEW w \in Workers, NEW r, Become(w, r),
         UNCHANGED <<rollouts, telemetry, rowRaced, crashes>>,
         \A i \in ExposedIds : i = Len(rollouts) /\ RollsBack(worker[w], i) => RollsBack(r, i)
  PROVE  HardSignalInv'
<1>1. ExposedIds' = ExposedIds /\ crashes' \in Nat
  BY DEF ExposedIds, RolloutIds, HardSignalInv
<1>2. ASSUME ~rowRaced', crashes' = 0, NEW i \in ExposedIds, i = Len(rollouts), telemetry[i]["hard"] > 0
      PROVE  \E u \in Workers : RollsBack(worker[u], i)'
  <2>1. \E u \in Workers : RollsBack(worker[u], i)
    BY <1>2, HardSignalMeans DEF HardSignalInv
  <2> QED
    BY <1>2, <2>1, OthersGoOn
<1>3. HardSignalEndsExposure'
  BY <1>1, <1>2 DEF HardSignalEndsExposure, RollsBack
<1> QED
  BY <1>1, <1>3 DEF HardSignalInv

LEMMA HardSignalLook ==
  ASSUME RolloutInv, HardSignalInv, NEW w \in Workers, EventLook(w)
  PROVE  HardSignalInv'
<1>1. CASE ExposedIds = {} \/ rollouts[NewestExposed].ver # worker[w].ver
  <2>1. \A i \in ExposedIds : i = Len(rollouts) => ~RollsBack(worker[w], i)
    <3> SUFFICES ASSUME NEW i \in ExposedIds, i = Len(rollouts) PROVE ~RollsBack(worker[w], i)
      OBVIOUS
    <3>1. NewestExposed \in 1..Len(rollouts) /\ i <= NewestExposed /\ i \in Nat
      BY NewestIsExposed, Known DEF ExposedIds
    <3>2. NewestExposed = i
      BY <3>1
    <3> QED
      BY <1>1, <3>2 DEF RollsBack, EventLook
  <2> QED
    BY <1>1, <2>1, HardSignalThought DEF EventLook
<1>2. CASE ~(ExposedIds = {} \/ rollouts[NewestExposed].ver # worker[w].ver)
  <2>1. PICK r : /\ r = [Resting EXCEPT !.step = "update",
                                        !.goal = IF worker[w].sort = "hard" THEN "rollback" ELSE "keep",
                                        !.id = NewestExposed,
                                        !.base = IF (IF worker[w].sort = "hard" THEN "rollback" ELSE "keep") = "keep"
                                                 THEN NoRow ELSE rollouts[NewestExposed]]
    OBVIOUS
  <2>2. /\ Become(w, r) /\ worker[w].step = "look"
        /\ UNCHANGED <<rollouts, telemetry, rowRaced, crashes>>
    BY <1>2, <2>1 DEF EventLook, Decided
  <2>3. /\ r.step = "update" /\ r.id = NewestExposed
        /\ worker[w].sort = "hard" => r.goal = "rollback"
    BY <2>1 DEF Resting
  <2>4. ASSUME NEW i \in ExposedIds, i = Len(rollouts), RollsBack(worker[w], i)
        PROVE  RollsBack(r, i)
    <3>1. NewestExposed \in 1..Len(rollouts) /\ i <= NewestExposed /\ i \in Nat
      BY <2>4, NewestIsExposed, Known DEF ExposedIds
    <3>2. NewestExposed = i
      BY <2>4, <3>1
    <3> QED
      BY <2>2, <2>3, <2>4, <3>2 DEF RollsBack
  <2> QED
    BY <2>2, <2>4, HardSignalThought
<1> QED
  BY <1>1, <1>2

LEMMA HardSignalReadsAndDecides ==
  ASSUME RolloutInv, HardSignalInv, NEW w \in Workers,
         \/ \E v \in Releases : CreateCheck(w, v)
         \/ \E i \in RolloutIds :
              EvaluateRead(w, i) \/ \E goal \in {"rollback", "promote"} : ManualDecide(w, i, goal)
         \/ EvaluateDecide(w) \/ UpdateRead(w) \/ RegistrySet(w) \/ SupersedeList(w)
         \/ SupersedeNext(w)
  PROVE  HardSignalInv'
<1>1. UNCHANGED <<rollouts, telemetry, rowRaced, crashes>>
  BY DEF CreateCheck, EvaluateRead, ManualDecide, EvaluateDecide, UpdateRead, RegistrySet,
     SupersedeList, SupersedeNext
<1>2. CASE UpdateRead(w)
  <2>1. PICK me \in Minds : me = worker[w]
    BY Known
  <2>2. PICK r : r = [me EXCEPT !.step = "write", !.copy = rollouts[me.id]]
    OBVIOUS
  <2>3. Become(w, r) /\ r.step = "write" /\ r.goal = me.goal /\ r.id = me.id /\ me.step = "update"
    BY <1>2, <2>1, <2>2 DEF UpdateRead, Minds
  <2>4. \A i : RollsBack(worker[w], i) => RollsBack(r, i)
    BY <2>1, <2>3 DEF RollsBack
  <2> QED
    BY <1>1, <2>3, <2>4, HardSignalThought
<1>3. CASE ~UpdateRead(w)
  <2>1. worker[w].step \notin {"look", "update", "write"}
    <3>1. worker[w] = Resting \/ worker[w].step \in {"metrics", "serve", "list", "next"}
      BY <1>3 DEF CreateCheck, EvaluateRead, ManualDecide, EvaluateDecide, RegistrySet,
         SupersedeList, SupersedeNext
    <3>2. Resting.step = "idle"
      BY DEF Resting
    <3> QED
      BY <3>1, <3>2
  <2>2. PICK r : Become(w, r)
    <3>1. CASE \E v \in Releases : CreateCheck(w, v)
      BY <3>1 DEF CreateCheck
    <3>2. CASE \E i \in RolloutIds : EvaluateRead(w, i)
      BY <3>2 DEF EvaluateRead
    <3>3. CASE \E i \in RolloutIds : \E goal \in {"rollback", "promote"} : ManualDecide(w, i, goal)
      BY <3>3 DEF ManualDecide, Decided
    <3>4. CASE EvaluateDecide(w)
      BY <3>4 DEF EvaluateDecide, Decided
    <3>5. CASE RegistrySet(w)
      BY <3>5 DEF RegistrySet
    <3>6. CASE SupersedeList(w)
      BY <3>6 DEF SupersedeList
    <3>7. CASE SupersedeNext(w)
      BY <3>7 DEF SupersedeNext
    <3> QED
      BY <1>3, <3>1, <3>2, <3>3, <3>4, <3>5, <3>6, <3>7
  <2>3. \A i : ~RollsBack(worker[w], i)
    BY <2>1 DEF RollsBack
  <2> QED
    BY <1>1, <2>2, <2>3, HardSignalThought
<1> QED
  BY <1>2, <1>3

LEMMA HardSignalInsert ==
  ASSUME RolloutInv, HardSignalInv, NEW w \in Workers, CreateInsert(w)
  PROVE  HardSignalInv'
<1>1. /\ Len(rollouts') = Len(rollouts) + 1 /\ telemetry'[Len(rollouts) + 1]["hard"] = 0
      /\ crashes' = crashes
  BY InsertedRow DEF CreateInsert
<1>2. HardSignalEndsExposure'
  BY <1>1 DEF HardSignalEndsExposure
<1> QED
  BY <1>1, <1>2 DEF HardSignalInv

LEMMA HardSignalSave ==
  ASSUME RolloutInv, HardSignalInv, NEW w \in Workers, NEW v \in Releases, NEW s \in Sorts,
         EventSave(w, v, s)
  PROVE  HardSignalInv'
<1>1. PICK r : r = [Resting EXCEPT !.step = "look", !.sort = s, !.ver = v]
  OBVIOUS
<1>2. /\ UNCHANGED <<rollouts, rowRaced, crashes>> /\ Become(w, r) /\ worker[w] = Resting
      /\ r.step = "look" /\ r.sort = s /\ r.ver = v /\ worker'[w] = r
  BY <1>1 DEF EventSave, Resting, Become, RolloutInv, MindsSound
<1>3. ExposedIds' = ExposedIds /\ crashes' \in Nat
  BY <1>2 DEF ExposedIds, RolloutIds, HardSignalInv
<1>4. ASSUME ~rowRaced', crashes' = 0, NEW i \in ExposedIds, i = Len(rollouts), telemetry'[i]["hard"] > 0
      PROVE  \E u \in Workers : RollsBack(worker[u], i)'
  <2>1. CASE telemetry[i]["hard"] > 0
    <3>1. \E u \in Workers : RollsBack(worker[u], i)
      BY <1>2, <1>4, <2>1, HardSignalMeans DEF HardSignalInv
    <3>2. ~RollsBack(worker[w], i)
      BY <1>2 DEF RollsBack, Resting
    <3> QED
      BY <1>2, <3>1, <3>2, OthersGoOn
  <2>2. CASE ~(telemetry[i]["hard"] > 0)
    <3>1. i \in RolloutIds /\ telemetry[i] \in [Sorts -> 0..limit.events]
      BY Known DEF ExposedIds
    <3>2. telemetry'[i] = IF rollouts[i].ver # v THEN telemetry[i]
                          ELSE [telemetry[i] EXCEPT ![s] = @ + 1]
      BY <3>1 DEF EventSave
    <3>3. rollouts[i].ver = v /\ s = "hard"
      BY <1>4, <2>2, <3>1, <3>2 DEF Sorts
    <3> QED
      BY <1>2, <3>3 DEF RollsBack
  <2> QED
    BY <2>1, <2>2
<1>5. HardSignalEndsExposure'
  BY <1>2, <1>3, <1>4 DEF HardSignalEndsExposure, RollsBack
<1> QED
  BY <1>3, <1>5 DEF HardSignalInv

LEMMA HardSignalWrite ==
  ASSUME RolloutInv, HardSignalInv, NEW w \in Workers, UpdateWrite(w)
  PROVE  HardSignalInv'
<1>1. worker[w].id \in RolloutIds /\ worker[w].step = "write"
  BY Known DEF UpdateWrite, Coherent
<1>2. /\ telemetry' = telemetry /\ crashes' = crashes /\ Len(rollouts') = Len(rollouts)
      /\ RolloutIds' = RolloutIds
  <2>1. Len(rollouts') = Len(rollouts)
    BY <1>1, WrittenState
  <2> QED
    BY <2>1 DEF UpdateWrite, RolloutIds
<1>3. ASSUME ~rowRaced', crashes = 0, NEW i \in ExposedIds', i = Len(rollouts), telemetry[i]["hard"] > 0
      PROVE  \E u \in Workers : RollsBack(worker[u], i)'
  <2>1. /\ i \in RolloutIds /\ rollouts'[i].state \in Exposed /\ rollouts[i].state \in Exposed
        /\ rollouts'[i].ver = rollouts[i].ver
    BY <1>2, <1>3, FreshWriteIsJustified, WrittenState DEF ExposedIds
  <2>2. ~rowRaced
    BY <1>3, Zenon DEF UpdateWrite
  <2>3. \E u \in Workers : RollsBack(worker[u], i)
    BY <1>3, <2>1, <2>2, HardSignalMeans DEF HardSignalInv, ExposedIds
  <2>4. ~RollsBack(worker[w], i)
    <3>1. i = worker[w].id => worker[w].goal # "rollback"
      BY <2>1, WrittenState DEF StateAfter, Exposed
    <3> QED
      BY <1>1, <3>1 DEF RollsBack
  <2>5. PICK r : Become(w, r)
    BY DEF UpdateWrite
  <2> QED
    BY <2>1, <2>3, <2>4, <2>5, OthersGoOn
<1>4. HardSignalEndsExposure'
  BY <1>2, <1>3 DEF HardSignalEndsExposure, RollsBack
<1> QED
  BY <1>2, <1>4 DEF HardSignalInv

LEMMA HardSignalCoolDown ==
  ASSUME RolloutInv, HardSignalInv, NEW j \in RolloutIds, CoolDown(j)
  PROVE  HardSignalInv'
<1>1. /\ UNCHANGED <<telemetry, rowRaced, crashes>> /\ Len(rollouts') = Len(rollouts)
      /\ RolloutIds' = RolloutIds
      /\ \A i \in RolloutIds : /\ rollouts'[i].ver = rollouts[i].ver
                               /\ rollouts'[i].state = rollouts[i].state
  BY CooledRows DEF CoolDown, RolloutIds, RolloutInv, Tables
<1>2. ExposedIds' = ExposedIds
  BY <1>1 DEF ExposedIds
<1>3. \A u \in Workers : /\ worker'[u].step = worker[u].step /\ worker'[u].goal = worker[u].goal
                         /\ worker'[u].id = worker[u].id /\ worker'[u].sort = worker[u].sort
                         /\ worker'[u].ver = worker[u].ver
  <2> SUFFICES ASSUME NEW u \in Workers
               PROVE  /\ worker'[u].step = worker[u].step /\ worker'[u].goal = worker[u].goal
                      /\ worker'[u].id = worker[u].id /\ worker'[u].sort = worker[u].sort
                      /\ worker'[u].ver = worker[u].ver
    OBVIOUS
  <2>1. worker[u] \in Minds
    BY Known
  <2>2. worker'[u] = [worker[u] EXCEPT !.base.cool = @ /\ worker[u].id # j,
                                       !.copy.cool = @ /\ worker[u].id # j]
    BY DEF CoolDown
  <2> QED
    BY <2>1, <2>2 DEF Minds
<1>4. \A i \in ExposedIds, u \in Workers : RollsBack(worker[u], i) => RollsBack(worker[u], i)'
  BY <1>1, <1>3 DEF RollsBack, ExposedIds
<1>5. ~rowRaced' => ~rowRaced
  BY Zenon DEF CoolDown
<1>6. ASSUME ~rowRaced', crashes = 0, NEW i \in ExposedIds, i = Len(rollouts), telemetry[i]["hard"] > 0
      PROVE  \E u \in Workers : RollsBack(worker[u], i)'
  BY <1>4, <1>5, <1>6, HardSignalMeans DEF HardSignalInv
<1>7. HardSignalEndsExposure'
  BY <1>1, <1>2, <1>6 DEF HardSignalEndsExposure, RollsBack
<1> QED
  BY <1>1, <1>7 DEF HardSignalInv

LEMMA HardSignalStep ==
  ASSUME RolloutInv, HardSignalInv, [RolloutNext]_rolloutVars
  PROVE  HardSignalInv'
<1>1. CASE UNCHANGED <<rollouts, telemetry, rowRaced, crashes, worker>>
  BY <1>1 DEF HardSignalInv, HardSignalEndsExposure, ExposedIds, RolloutIds
<1>2. CASE RolloutCrash
  BY <1>2 DEF RolloutCrash, HardSignalInv, HardSignalEndsExposure
<1>3. UNCHANGED rolloutVars \/ SetOverride => UNCHANGED <<rollouts, telemetry, rowRaced, crashes, worker>>
  BY DEF rolloutVars, SetOverride
<1>4. ASSUME NEW w \in Workers, GoesOn(w) PROVE HardSignalInv'
  BY <1>4, HardSignalLook, HardSignalReadsAndDecides, HardSignalInsert, HardSignalWrite DEF GoesOn
<1>5. ASSUME NEW w \in Workers,
             \/ \E v \in Releases : CreateCheck(w, v)
             \/ \E i \in RolloutIds :
                  EvaluateRead(w, i) \/ \E goal \in {"rollback", "promote"} : ManualDecide(w, i, goal)
      PROVE  HardSignalInv'
  BY <1>5, HardSignalReadsAndDecides
<1> QED
  BY <1>1, <1>2, <1>3, <1>4, <1>5, HardSignalSave, HardSignalCoolDown DEF RolloutNext

(* Once a hard signal of the rollout that was exposed last is saved, it is *)
(* exposed only as long as somebody is on the way to roll it back.         *)
THEOREM HardSignalsEndExposure == RolloutSpec => []HardSignalEndsExposure
<1>1. RolloutInit => HardSignalInv
  <2>1. RolloutInit => crashes \in Nat /\ ExposedIds = {}
    BY DEF RolloutInit, ExposedIds, RolloutIds
  <2> QED
    BY <2>1 DEF HardSignalInv, HardSignalEndsExposure
<1>2. RolloutInv /\ HardSignalInv /\ [RolloutNext]_rolloutVars => HardSignalInv'
  BY HardSignalStep
<1>3. HardSignalInv => HardSignalEndsExposure
  BY DEF HardSignalInv
<1> QED
  BY <1>1, <1>2, <1>3, RolloutsAreSound, PTL DEF RolloutSpec

(***************************************************************************)
(* The two sides beside each other.                                        *)
(***************************************************************************)
(* A behaviour of the instance that MCRollouts gives TLC is one of the     *)
(* router and one of the controller: the other side stands still.          *)
THEOREM RolloutsCompose == MCSpec => Spec /\ RolloutSpec
<1>1. MCInit => Init /\ RolloutInit
  BY DEF MCInit
<1>2. [InRouter(Next) \/ InRollout(RolloutNext)]_MCVars => [Next]_vars /\ [RolloutNext]_rolloutVars
  BY DEF MCVars, InRouter, InRollout
<1> HIDE DEF MCInit, Init, RolloutInit, Next, RolloutNext, MCVars, vars, rolloutVars, InRouter, InRollout
<1> QED  BY <1>1, <1>2, PTL DEF MCSpec, Spec, RolloutSpec

(* Every variable of both keeps its type in that instance.                 *)
THEOREM BothTyped == MCSpec => []TypesOK
<1>1. TypeOK /\ RolloutTypeOK => TypesOK
  BY DEF TypesOK
<1> HIDE DEF MCSpec, Spec, RolloutSpec, TypeOK, RolloutTypeOK, TypesOK
<1> QED  BY <1>1, RolloutsCompose, TypeCorrect, RolloutTyped, PTL
=============================================================================
