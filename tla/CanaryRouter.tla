---------------------------- MODULE CanaryRouter ----------------------------
(***************************************************************************)
(* The gateway's canary router for one tool of one workspace               *)
(* (apps/gateway/src/registry/canary-router.ts): registration, routing,    *)
(* health metrics, automatic rollback, promotion, quarantine, and what     *)
(* SQLite gives back to a restarted daemon.                                *)
(*                                                                         *)
(* The router runs on one event loop, so the code between two awaits is    *)
(* one step.  A Procs slot holds one asynchronous call of the router's     *)
(* API: where it waits (pc) and the versions it read before the await and  *)
(* uses after it.                                                          *)
(***************************************************************************)
EXTENDS Naturals, FiniteSets

CONSTANTS
  Procs,            \* bound: asynchronous calls in flight at once
  Candidates,       \* candidate versions
  Base,             \* the version the registry serves at first
  NoVersion,        \* an absent version
  Sessions,         \* harness sessions
  Strategies,       \* strategies registered: "shadow", "traffic_split", "developer_opt_in"
  OutcomeKinds,     \* what runs can show: sets of "failed", "mismatch", "violation", "slow"
  InSplit,          \* session -> counts of calls whose bucket is below the percentage
  FailureThreshold, \* autoRollbackThresholds.consecutiveFailureThreshold
  ErrorPct,         \* autoRollbackThresholds.maxErrorRate, in percent
  MismatchPct,      \* autoRollbackThresholds.maxSchemaMismatchRate, in percent
  OmitStable,       \* whether registrations may leave the stable version out
  MaxCalls,         \* bound: calls recorded in one metrics object
  DbFails           \* whether a SQLite write may fail (the code ignores it)

ASSUME CanaryAssumption ==
  /\ Base \notin Candidates
  /\ NoVersion \notin Candidates \cup {Base}
  /\ InSplit \in [Sessions -> SUBSET Nat]
  /\ FailureThreshold \in Nat \ {0}
  /\ ErrorPct \in Nat /\ MismatchPct \in Nat
  /\ MaxCalls \in Nat
  /\ DbFails \in BOOLEAN /\ OmitStable \in BOOLEAN
  /\ Strategies \subseteq {"shadow", "traffic_split", "developer_opt_in"}
  /\ OutcomeKinds \subseteq SUBSET {"failed", "mismatch", "violation", "slow"}

Versions == Candidates \cup {Base}

VARIABLES
  canary,       \* canaries: the entry of the tool
  metrics,      \* metrics: the entry of the tool
  quarantined,  \* quarantinedCandidates
  dbRow,        \* canary_deployments: the row of the tool
  dbQuarantine, \* quarantined_candidates
  served,       \* the version the registry has active in the workspace
  task,         \* asynchronous calls
  unwritten,    \* history: versions whose quarantine SQLite did not take
  raced,        \* history: versions quarantined while being registered
  failedOnce    \* history: versions one of whose runs was recorded as bad

vars == <<canary, metrics, quarantined, dbRow, dbQuarantine, served, task,
          unwritten, raced, failedOnce>>
quarantineVars == <<quarantined, dbQuarantine, unwritten, raced>>

CanaryType ==
  [version: Candidates \cup {NoVersion}, stable: Versions \cup {NoVersion},
   strategy: Strategies \cup {"none"},
   status: {"none", "active", "promoted", "rolled_back", "quarantined"}]
NoCanary == [version |-> NoVersion, stable |-> NoVersion,
             strategy |-> "none", status |-> "none"]

MetricsType == [total: Nat, errors: Nat, streak: Nat, mismatches: Nat,
                violations: Nat, slow: Nat]
EmptyMetrics == [total |-> 0, errors |-> 0, streak |-> 0,
                 mismatches |-> 0, violations |-> 0, slow |-> 0]

Pcs == {"idle", "register", "route", "routed", "shadow_routed", "primary",
        "run", "shadow", "untracked", "verdict", "restore", "audit", "promote"}
Carrying == {"register", "routed", "shadow_routed", "primary", "run", "shadow",
             "untracked"}
TaskType == [pc: Pcs, version: Candidates \cup {NoVersion},
             stable: Versions \cup {NoVersion}]
Idle == [pc |-> "idle", version |-> NoVersion, stable |-> NoVersion]

(* An entry or a row that exists names a candidate, and so does a call on  *)
(* its way to run or register one.                                         *)
EntryOK(e) == e \in CanaryType /\ (e.status # "none" => e.version \in Candidates)
EntriesOK == EntryOK(canary) /\ EntryOK(dbRow) /\ served \in Versions

MetricsOK ==
  /\ metrics \in MetricsType
  /\ metrics.total <= MaxCalls
  /\ metrics.streak <= metrics.errors /\ metrics.errors <= metrics.total
  /\ metrics.violations <= metrics.errors
  /\ metrics.mismatches <= metrics.total /\ metrics.slow <= metrics.total

QuarantineOK ==
  /\ quarantined \subseteq Candidates
  /\ dbQuarantine \subseteq Candidates
  /\ unwritten \subseteq Candidates
  /\ raced \subseteq Candidates
  /\ failedOnce \subseteq Candidates

TasksOK ==
  /\ task \in [Procs -> TaskType]
  /\ \A p \in Procs : task[p].pc \in Carrying => task[p].version \in Candidates

TypeOK == EntriesOK /\ MetricsOK /\ QuarantineOK /\ TasksOK

Init ==
  /\ canary = NoCanary
  /\ metrics = EmptyMetrics
  /\ quarantined = {}
  /\ dbRow = NoCanary
  /\ dbQuarantine = {}
  /\ served = Base
  /\ task = [p \in Procs |-> Idle]
  /\ unwritten = {} /\ raced = {} /\ failedOnce = {}

Active == canary.status = "active"
Goto(p, pc, v, s) ==
  task' = [task EXCEPT ![p] = [pc |-> pc, version |-> v, stable |-> s]]
Return(p) == task' = [task EXCEPT ![p] = Idle]

(* A write whose failure the code suppresses. *)
WriteRow(row) == dbRow' = row \/ (DbFails /\ dbRow' = dbRow)
WriteQuarantine(v) ==
  \/ /\ dbQuarantine' = dbQuarantine \cup {v}
     /\ unwritten' = unwritten \ {v}
  \/ /\ DbFails
     /\ unwritten' = IF v \in dbQuarantine THEN unwritten ELSE unwritten \cup {v}
     /\ UNCHANGED dbQuarantine
----------------------------------------------------------------------------
(* registerCanary: the quarantine check, then three awaits on the user     *)
(* controls, which may refuse; then the entry, empty metrics and the row.  *)
MutRegisterAllowed(v) == TRUE
RegisterAllowed(v) == v \notin quarantined

StableChoices == {served} \cup IF OmitStable THEN {NoVersion} ELSE {}

RegisterCheck(p, v, s) ==
  /\ task[p].pc = "idle"
  /\ RegisterAllowed(v)
  /\ Goto(p, "register", v, s)
  /\ UNCHANGED <<canary, metrics, dbRow, served, failedOnce, quarantineVars>>

RegisterRefused(p) ==
  /\ task[p].pc = "register"
  /\ Return(p)
  /\ UNCHANGED <<canary, metrics, dbRow, served, failedOnce, quarantineVars>>

RegisterCommit(p, strategy) ==
  /\ task[p].pc = "register"
  /\ canary' = [version |-> task[p].version, stable |-> task[p].stable,
                strategy |-> strategy, status |-> "active"]
  /\ metrics' = EmptyMetrics
  /\ WriteRow(canary')
  /\ Return(p)
  /\ UNCHANGED <<served, failedOnce, quarantineVars>>
----------------------------------------------------------------------------
(* The router's caller found an active canary; routeInvocation awaits the  *)
(* user controls and then decides from the entry it finds.                 *)
CallStart(p) ==
  /\ task[p].pc = "idle"
  /\ Active
  /\ Goto(p, "route", NoVersion, NoVersion)
  /\ UNCHANGED <<canary, metrics, dbRow, served, failedOnce, quarantineVars>>

(* computeDeterministicBucket depends on the session and on totalCalls,    *)
(* which only calls recorded for the canary advance.                       *)
InBucket(session) == metrics.total \in InSplit[session]

ToCandidate(session) ==
  \/ canary.strategy = "traffic_split" /\ InBucket(session)
  \/ canary.strategy = "developer_opt_in"

RouteCandidate(p, session) ==
  /\ task[p].pc = "route"
  /\ Active
  /\ \/ ToCandidate(session) /\ Goto(p, "routed", canary.version, NoVersion)
     \/ /\ canary.strategy = "shadow"
        /\ Goto(p, "shadow_routed", canary.version, NoVersion)
  /\ UNCHANGED <<canary, metrics, dbRow, served, failedOnce, quarantineVars>>

(* Disabled, pinned, frozen, no active canary, a bucket outside the split  *)
(* or no opt-in: only a version other than the candidate runs.             *)
RouteStable(p, session) ==
  /\ task[p].pc = "route"
  /\ Return(p)
  /\ UNCHANGED <<canary, metrics, dbRow, served, failedOnce, quarantineVars>>

(* executeWithCanary after the await: it reads the entry again, and when   *)
(* it is no longer active runs the decided version as a normal call, whose *)
(* outcome nobody records.                                                 *)
Dispatch(p) ==
  /\ \/ /\ task[p].pc = "routed"
        /\ Goto(p, IF Active THEN "run" ELSE "untracked", task[p].version, NoVersion)
     \/ /\ task[p].pc = "shadow_routed"
        /\ IF Active THEN Goto(p, "primary", task[p].version, NoVersion)
                     ELSE Return(p)
  /\ UNCHANGED <<canary, metrics, dbRow, served, failedOnce, quarantineVars>>

(* The stable call ended: the candidate is shadowed without looking at the *)
(* entry again.  A stable call that throws starts no shadow.               *)
ShadowStart(p) ==
  /\ task[p].pc = "primary"
  /\ Goto(p, "shadow", task[p].version, NoVersion) \/ Return(p)
  /\ UNCHANGED <<canary, metrics, dbRow, served, failedOnce, quarantineVars>>

UntrackedEnd(p) ==
  /\ task[p].pc = "untracked"
  /\ Return(p)
  /\ UNCHANGED <<canary, metrics, dbRow, served, failedOnce, quarantineVars>>
----------------------------------------------------------------------------
(* What a run of the candidate can show: a violation is an exception, so a *)
(* failure without a mismatch; a mismatch is an error result, or in a      *)
(* shadow run an empty one.                                                *)
Outcomes(pc) ==
  {o \in OutcomeKinds :
     /\ "violation" \in o => "failed" \in o /\ "mismatch" \notin o
     /\ "mismatch" \in o => "failed" \in o \/ pc = "shadow"}

Count(n, kind, outcome) == IF kind \in outcome THEN n + 1 ELSE n

MutRecorded(m, outcome) ==
  [m EXCEPT !.total = @ + 1,
            !.streak = IF "failed" \in outcome THEN @ + 1 ELSE 0,
            !.errors = IF "violation" \in outcome THEN @ ELSE Count(@, "failed", outcome)]
Recorded(m, outcome) ==
  [total |-> m.total + 1,
   errors |-> Count(m.errors, "failed", outcome),
   streak |-> IF "failed" \in outcome THEN m.streak + 1 ELSE 0,
   mismatches |-> Count(m.mismatches, "mismatch", outcome),
   violations |-> Count(m.violations, "violation", outcome),
   slow |-> Count(m.slow, "slow", outcome)]

(* evaluateHealth's five thresholds; p95 is above the limit when more than *)
(* a twentieth of the latencies are.                                       *)
Breach(m) ==
  \/ m.violations > 0
  \/ m.streak >= FailureThreshold
  \/ /\ m.total >= 3
     /\ \/ m.errors * 100 > ErrorPct * m.total
        \/ m.mismatches * 100 > MismatchPct * m.total
        \/ m.slow * 20 > m.total

(* recordInvocation charges the outcome to the tool's current metrics and  *)
(* evaluates the current entry; a breach is acted on after an await.       *)
MutBreachFound(m) == Breach(metrics)
BreachFound(m) == Breach(m)

Record(p, outcome) ==
  /\ task[p].pc \in {"run", "shadow"}
  /\ metrics.total < MaxCalls
  /\ metrics' = Recorded(metrics, outcome)
  /\ IF Active /\ BreachFound(metrics')
     THEN Goto(p, "verdict", NoVersion, NoVersion)
     ELSE Return(p)
  /\ failedOnce' = IF outcome = {} THEN failedOnce
                   ELSE failedOnce \cup {task[p].version}
  /\ UNCHANGED <<canary, dbRow, served, quarantineVars>>
----------------------------------------------------------------------------
BeingRegistered(v) == \E p \in Procs : task[p].pc = "register" /\ task[p].version = v

(* quarantineCandidate: the set, the entry when it is that version, the    *)
(* table.                                                                  *)
MutSetQuarantine(v) ==
  /\ quarantined' = quarantined \cup {v}
  /\ UNCHANGED <<canary, dbQuarantine, unwritten>>
  /\ raced' = IF BeingRegistered(v) THEN raced \cup {v} ELSE raced
MutSetQuarantineVolatile(v) ==
  /\ quarantined' = quarantined \cup {v}
  /\ canary' = IF canary.version = v THEN [canary EXCEPT !.status = "quarantined"]
               ELSE canary
  /\ UNCHANGED <<dbQuarantine, unwritten>>
  /\ raced' = IF BeingRegistered(v) THEN raced \cup {v} ELSE raced
SetQuarantine(v) ==
  /\ quarantined' = quarantined \cup {v}
  /\ canary' = IF canary.version = v THEN [canary EXCEPT !.status = "quarantined"]
               ELSE canary
  /\ WriteQuarantine(v)
  /\ raced' = IF BeingRegistered(v) THEN raced \cup {v} ELSE raced

Quarantine(v) ==
  /\ SetQuarantine(v)
  /\ UNCHANGED <<metrics, dbRow, served, task, failedOnce>>

(* triggerRollback up to its first await, by a breach or by an operator:   *)
(* whatever entry the tool has now is rolled back and quarantined.         *)
RollbackBegin(p) ==
  /\ task[p].pc \in {"verdict", "idle"}
  /\ Goto(p, "restore", canary.version, canary.stable)
  /\ \/ /\ canary.status = "none"
        /\ UNCHANGED <<canary, quarantineVars>>
     \/ /\ canary.status # "none"
        /\ SetQuarantine(canary.version)
  /\ UNCHANGED <<metrics, dbRow, served, failedOnce>>

(* The stable version is activated in the registry; the audit callback is  *)
(* awaited next.                                                           *)
RollbackRestore(p) ==
  /\ task[p].pc = "restore"
  /\ served' = IF task[p].stable = NoVersion THEN served ELSE task[p].stable
  /\ Goto(p, "audit", task[p].version, task[p].stable)
  /\ UNCHANGED <<canary, metrics, dbRow, failedOnce, quarantineVars>>

(* The row of the tool, whichever version it is about, is updated. *)
RollbackPersist(p) ==
  /\ task[p].pc = "audit"
  /\ WriteRow(IF dbRow.status = "none" THEN dbRow
              ELSE [dbRow EXCEPT !.status = "rolled_back"])
  /\ Return(p)
  /\ UNCHANGED <<canary, metrics, served, failedOnce, quarantineVars>>

(* promoteCanary; the registry refuses a version it does not know, which   *)
(* leaves the entry promoted and the row active.                           *)
Promote(p) ==
  /\ task[p].pc = "idle"
  /\ Active
  /\ canary' = [canary EXCEPT !.status = "promoted"]
  /\ \/ served' = canary.version /\ Goto(p, "promote", canary.version, NoVersion)
     \/ UNCHANGED <<served, task>>
  /\ UNCHANGED <<metrics, dbRow, failedOnce, quarantineVars>>

PromotePersist(p) ==
  /\ task[p].pc = "promote"
  /\ WriteRow(IF dbRow.status = "none" THEN dbRow
              ELSE [dbRow EXCEPT !.status = "promoted"])
  /\ Return(p)
  /\ UNCHANGED <<canary, metrics, served, failedOnce, quarantineVars>>
----------------------------------------------------------------------------
(* The daemon restarts: loadPersistedState reads the quarantine and then   *)
(* the active row, unless its version is quarantined.  What the registry   *)
(* serves is rebuilt from its own tables.                                  *)
MutReactivated == dbRow.status = "active"
Reactivated == dbRow.status = "active" /\ dbRow.version \notin dbQuarantine

Restart ==
  /\ quarantined' = dbQuarantine
  /\ canary' = IF Reactivated THEN dbRow ELSE NoCanary
  /\ metrics' = EmptyMetrics
  /\ task' = [p \in Procs |-> Idle]
  /\ served' \in Versions
  /\ unwritten' = {} /\ raced' = {}
  /\ UNCHANGED <<dbRow, dbQuarantine, failedOnce>>

(* A call of the API that waits goes on. *)
Resume(p) ==
  \/ RegisterRefused(p)
  \/ \E strategy \in Strategies : RegisterCommit(p, strategy)
  \/ \E session \in Sessions : RouteCandidate(p, session) \/ RouteStable(p, session)
  \/ Dispatch(p) \/ ShadowStart(p) \/ UntrackedEnd(p)
  \/ \E outcome \in Outcomes(task[p].pc) : Record(p, outcome)
  \/ RollbackBegin(p) \/ RollbackRestore(p) \/ RollbackPersist(p)
  \/ PromotePersist(p)

Next ==
  \/ \E p \in Procs :
       \/ \E v \in Candidates, s \in StableChoices : RegisterCheck(p, v, s)
       \/ CallStart(p) \/ Promote(p) \/ Resume(p)
  \/ \E v \in Candidates : Quarantine(v)
  \/ Restart

Spec == Init /\ [][Next]_vars

(* The continuation of an awaited promise runs. *)
FairSpec ==
  Spec /\ \A p \in Procs : WF_vars(task[p].pc = "verdict" /\ RollbackBegin(p))

(* A daemon that is not restarted: every call ends (the executor has a     *)
(* deadline), calls keep arriving and no user control holds them back for  *)
(* ever.                                                                   *)
FlowSpec ==
  /\ Init
  /\ [][\E p \in Procs : \/ \E v \in Candidates : RegisterCheck(p, v, served)
                         \/ CallStart(p) \/ Resume(p)]_vars
  /\ \A p \in Procs :
       /\ WF_vars(task[p].pc # "idle" /\ Resume(p))
       /\ SF_vars(CallStart(p))
       /\ SF_vars(\E session \in Sessions : RouteCandidate(p, session))
----------------------------------------------------------------------------
(* A quarantined version is an active canary only if it was quarantined    *)
(* between the check and the commit of its registration: no rollback,      *)
(* promotion, late call or restart brings it back (registerCanary 334,     *)
(* loadPersistedState 269, quarantineCandidate 984).                       *)
OnlyRacingRegistrationRevives ==
  Active /\ canary.version \in quarantined => canary.version \in raced

(* What is quarantined stays quarantined, across restarts at any step of a *)
(* rollback too, unless the write the code ignores the failure of failed   *)
(* (quarantineCandidate 990-1012, loadPersistedState 233).                 *)
QuarantineGrows == [][quarantined \ unwritten \subseteq quarantined']_vars

(* Metrics in breach never stay with an active canary unless the call that *)
(* found the breach is about to roll it back (recordInvocation 750-755).   *)
BreachIsHandled ==
  Active /\ Breach(metrics) => \E p \in Procs : task[p].pc = "verdict"

(* A canary in breach stops being active. *)
BreachEndsTraffic == (Active /\ Breach(metrics)) ~> ~(Active /\ Breach(metrics))
----------------------------------------------------------------------------
(* canary-router.ts:827: triggerRollback is for "a faulty candidate": an   *)
(* automatically quarantined version had a bad run.                        *)
OnlyFaultyBlamed ==
  [][\A p \in Procs :
       /\ task[p].pc = "verdict" /\ task'[p].pc = "restore"
       /\ task'[p].version # NoVersion
       => task'[p].version \in failedOnce]_vars

(* ADR 0008:58: a traffic split sends a share of the invocations to the    *)
(* canary: with calls arriving for ever its count of calls grows.          *)
SplitKeepsFlowing ==
  \A n \in 0..(MaxCalls - 1) :
    (Active /\ canary.strategy = "traffic_split" /\ metrics.total = n)
      ~> ~(Active /\ canary.strategy = "traffic_split" /\ metrics.total = n)
=============================================================================
