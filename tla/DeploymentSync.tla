--------------------------- MODULE DeploymentSync ---------------------------
(***************************************************************************)
(* Which version of each tool serves in a workspace of a device, and the   *)
(* two parties of the observer that change it: the coordinator, which runs *)
(* the cloud's commands one after the other for each tool, and the         *)
(* reconciler, which takes no part in that order                           *)
(* (apps/observer/src/sync).  Every database transaction is one step, see  *)
(* LocalTransaction for what that takes; an activation is two, for its     *)
(* time stamp and the user's controls are read before the transaction.     *)
(* Whether an artifact can be had and fits the capability envelope is a    *)
(* choice: those checks are functions of data that is not modelled.        *)
(***************************************************************************)
EXTENDS Integers, Sequences, FiniteSets, SequencesExt, FiniteSetsExt

CONSTANTS Tools, Versions, NoVersion, Sync,
          Orders,                            \* the commands the cloud may send
          LookBack,                          \* snapshots a rollback searches
          MaxTime, MaxQueue, MaxReconciles, MaxDisturbances  \* bounds

ASSUME SyncAssumption ==
  /\ NoVersion \notin Versions /\ Sync \notin Tools
  /\ \A o \in Orders :
       /\ o.tool \in Tools /\ o.ver \in Versions \cup {NoVersion}
       /\ o.kind \in {"activate", "canary", "rollback", "restore", "suspend", "resume", "retire"}
       /\ o.kind \in {"activate", "canary"} => o.ver \in Versions
  /\ {MaxQueue, MaxReconciles, MaxDisturbances} \subseteq Nat
  /\ {MaxTime, LookBack} \subseteq Nat \ {0}

VARIABLES
  active,     \* active_tools_json of the workspace
  deployed,   \* deployment_records, in the order of their rowids
  installed,  \* the installation row of a tool
  staged,     \* tool_versions: the status of a version
  snaps,      \* catalog_snapshots, in the order of their rowids
  allowed,    \* user_tool_controls: the versions they let activate
  override,   \* tool_overrides: likewise
  sent,       \* the commands the cloud has sent
  queues,     \* the coordinator's promise queue of a tool
  answered,   \* the keys of processedCommands
  job,        \* the activation the coordinator has in flight for a tool, and the reconciler's
  sync,       \* the reconciliation that is running
  now,        \* the clock, read by every operation that stamps a row
  ran,        \* history: how often a command ran since the last restart
  overtaken,  \* history: a snapshot was written with a stamp older than another's
  collided,   \* history: a snapshot's revision was taken
  changes, reconciles, syncRestarts

tableVars == <<active, deployed, installed, staged, snaps>>
controlVars == <<allowed, override, changes>>
queueVars == <<sent, queues, answered, ran>>
syncVars == <<active, deployed, installed, staged, snaps, allowed, override, sent, queues,
              answered, job, sync, now, ran, overtaken, collided, changes, reconciles,
              syncRestarts>>

Maybe == Versions \cup {NoVersion}
NoJob == [step |-> "idle", tool |-> Sync, ver |-> NoVersion, state |-> "none", at |-> 0]
NoSync == [step |-> "idle", todo |-> {}, active |-> <<>>, override |-> <<>>]
Permits == {{}, Versions} \cup {{v} : v \in Versions}
Ids == {o.id : o \in Orders}

DepInit ==
  /\ active = [t \in Tools |-> NoVersion]
  /\ deployed = <<>> /\ snaps = <<>>
  /\ installed = [t \in Tools |-> [ver |-> NoVersion, state |-> "none"]]
  /\ staged = [t \in Tools |-> [v \in Versions |-> "none"]]
  /\ allowed = [t \in Tools |-> Versions]
  /\ override = [t \in Tools |-> Versions]
  /\ sent = {}
  /\ queues = [t \in Tools |-> <<>>]
  /\ answered = {}
  /\ job = [r \in Tools \cup {Sync} |-> NoJob]
  /\ sync = NoSync /\ now = 1
  /\ ran = [i \in Ids |-> 0]
  /\ overtaken = FALSE /\ collided = FALSE
  /\ changes = 0 /\ reconciles = 0 /\ syncRestarts = 0

-----------------------------------------------------------------------------
(* The next revision follows that of the snapshot with the newest stamp.   *)
NextRev ==
  IF snaps = <<>> THEN 1
  ELSE (CHOOSE s \in ToSet(snaps) : \A r \in ToSet(snaps) : r.at <= s.at).rev + 1

Taken == \E s \in ToSet(snaps) : s.rev = NextRev

(* A transaction that ends with a snapshot of map.  When the revision is   *)
(* taken the insert fails and all of it is rolled back.                    *)
Publish(map, at) ==
  /\ snaps' = Append(snaps, [rev |-> NextRev, at |-> at, tools |-> map])
  /\ active' = map
  /\ overtaken' = (overtaken \/ \E s \in ToSet(snaps) : s.at > at)
  /\ UNCHANGED collided

Abort ==
  /\ collided' = TRUE
  /\ UNCHANGED <<tableVars, overtaken>>

(* The transaction of activate(): record, version, installation, map.      *)
Activate(t, v, state, at) ==
  IF Taken THEN Abort
  ELSE LET mine == {i \in DOMAIN deployed : deployed[i].tool = t /\ deployed[i].ver = v}
       IN /\ deployed' = IF mine = {} THEN Append(deployed, [tool |-> t, ver |-> v, at |-> at, state |-> state])
                         ELSE [i \in DOMAIN deployed |->
                                 IF i \in mine THEN [deployed[i] EXCEPT !.state = state] ELSE deployed[i]]
          /\ staged' = [staged EXCEPT ![t][v] = IF @ = "none" THEN @ ELSE "active"]
          /\ installed' = [installed EXCEPT ![t] = [ver |-> v, state |-> "active"]]
          /\ Publish([active EXCEPT ![t] = v], at)

RecordsOf(t) == {i \in DOMAIN deployed : deployed[i].tool = t}
LatestOf(t) == CHOOSE i \in RecordsOf(t) : \A j \in RecordsOf(t) : deployed[j].at <= deployed[i].at

MutEarlier(t) ==
  LET shown == {i \in DOMAIN snaps : /\ i > Len(snaps) - LookBack
                                     /\ snaps[i].tools[t] \notin {NoVersion, active[t]}}
  IN IF shown # {} THEN snaps[Max(shown)].tools[t] ELSE NoVersion

(* What rollback() restores without a target: the newest other version of  *)
(* the last snapshots, then that of the deployment records.                *)
Earlier(t) ==
  LET shown == {i \in DOMAIN snaps : /\ i > Len(snaps) - LookBack
                                     /\ snaps[i].tools[t] \notin {NoVersion, active[t]}}
      others == {i \in RecordsOf(t) : deployed[i].ver # active[t]}
  IN IF shown # {} THEN snaps[Max(shown)].tools[t]
     ELSE IF others # {} THEN deployed[Max(others)].ver ELSE NoVersion

(* The transaction of rollback(): the record created last is rolled back,  *)
(* whichever version serves; the target is not checked in any way.         *)
Rollback(t, target) ==
  IF Taken THEN Abort
  ELSE /\ deployed' = [i \in DOMAIN deployed |->
                         IF i \in RecordsOf(t) /\ i = LatestOf(t)
                         THEN [deployed[i] EXCEPT !.state = "rolled_back"] ELSE deployed[i]]
       /\ installed' = [installed EXCEPT ![t] =
                          IF @.state = "none" THEN @
                          ELSE IF target # NoVersion THEN [ver |-> target, state |-> "active"]
                          ELSE [@ EXCEPT !.state = "uninstalled"]]
       /\ Publish([active EXCEPT ![t] = target], now)
       /\ UNCHANGED staged

Settle(t, state) ==
  deployed' = [i \in DOMAIN deployed |->
                 IF i \in RecordsOf(t) THEN [deployed[i] EXCEPT !.state = state] ELSE deployed[i]]

MutWithdraw(t, state) == UNCHANGED installed
Withdraw(t, state) ==
  installed' = [installed EXCEPT ![t].state = IF @ = "none" THEN @ ELSE state]

Suspend(t) ==
  IF Taken THEN Abort
  ELSE /\ Settle(t, "suspended") /\ Withdraw(t, "inactive")
       /\ Publish([active EXCEPT ![t] = NoVersion], now)
       /\ UNCHANGED staged

(* retire() writes no snapshot and tells the catalog nothing.              *)
Retire(t) ==
  /\ Settle(t, "retired") /\ Withdraw(t, "uninstalled")
  /\ staged' = [staged EXCEPT ![t] = [v \in Versions |-> IF @[v] = "none" THEN "none" ELSE "revoked"]]
  /\ active' = [active EXCEPT ![t] = NoVersion]
  /\ UNCHANGED <<snaps, overtaken, collided>>

Stage(t, v) == staged' = [staged EXCEPT ![t][v] = "draft"]

Enter(r, t, v, state) == job' = [job EXCEPT ![r] = [step |-> "enter", tool |-> t, ver |-> v,
                                                    state |-> state, at |-> 0]]

-----------------------------------------------------------------------------
(* handleCommand(): a command that was answered is answered again, any     *)
(* other joins the queue of its tool, a redelivered one too.               *)
Deliver(o) ==
  /\ o.id \notin answered
  /\ \A p \in sent : p.id = o.id => p = o
  /\ Len(queues[o.tool]) < MaxQueue
  /\ sent' = sent \cup {o}
  /\ queues' = [queues EXCEPT ![o.tool] = Append(@, o)]
  /\ UNCHANGED <<tableVars, controlVars, answered, job, sync, now, ran, overtaken, collided,
                 reconciles, syncRestarts>>

(* The report of the command at the head is kept, whatever it says.        *)
Answer(t) ==
  /\ answered' = answered \cup {Head(queues[t]).id}
  /\ queues' = [queues EXCEPT ![t] = Tail(@)]

(* The head of the queue was answered while it waited.                     *)
RunAgain(t) ==
  /\ queues[t] # <<>> /\ job[t] = NoJob
  /\ Head(queues[t]).id \in answered
  /\ Answer(t)
  /\ UNCHANGED <<tableVars, controlVars, sent, job, sync, now, ran, overtaken, collided,
                 reconciles, syncRestarts>>

MutRunStart(t) ==
  /\ queues[t] # <<>> /\ job[t] = NoJob
  /\ ran' = [ran EXCEPT ![Head(queues[t]).id] = @ + 1]
  /\ UNCHANGED <<sent, controlVars, sync, reconciles, syncRestarts>>

(* Inside the queue the answers are looked at again.                       *)
RunStart(t) ==
  /\ queues[t] # <<>> /\ job[t] = NoJob
  /\ Head(queues[t]).id \notin answered
  /\ ran' = [ran EXCEPT ![Head(queues[t]).id] = @ + 1]
  /\ UNCHANGED <<sent, controlVars, sync, reconciles, syncRestarts>>

(* deploy, activate, canary: rejected by the controls, the envelope or for *)
(* want of an artifact, or staged, which makes the version a draft again.  *)
RunActivate(t) ==
  /\ RunStart(t)
  /\ LET o == Head(queues[t])
     IN /\ o.kind \in {"activate", "canary"}
        /\ \/ Answer(t) /\ UNCHANGED <<job, staged>>
           \/ /\ o.ver \in allowed[t]
              /\ Stage(t, o.ver)
              /\ Enter(t, t, o.ver, IF o.kind = "canary" THEN "canary" ELSE "promoted")
              /\ UNCHANGED <<queues, answered>>
  /\ UNCHANGED <<active, deployed, installed, snaps, now, overtaken, collided>>

(* resume: the given version, or that of the record created last.          *)
RunResume(t) ==
  /\ RunStart(t)
  /\ LET o == Head(queues[t])
         v == IF o.ver # NoVersion \/ RecordsOf(t) = {} THEN o.ver ELSE deployed[LatestOf(t)].ver
     IN /\ o.kind = "resume"
        /\ IF v = NoVersion THEN Answer(t) /\ UNCHANGED job
           ELSE Enter(t, t, v, "promoted") /\ UNCHANGED <<queues, answered>>
  /\ UNCHANGED <<tableVars, now, overtaken, collided>>

(* rollback, suspend and retire are a transaction without an await.        *)
RunWithdraw(t) ==
  /\ RunStart(t)
  /\ now < MaxTime /\ now' = now + 1
  /\ LET o == Head(queues[t])
     IN \/ /\ o.kind = "rollback"
           /\ Rollback(t, IF o.ver # NoVersion THEN o.ver ELSE Earlier(t))
        \/ /\ o.kind = "restore"
           /\ \E v \in {s.tools[t] : s \in ToSet(snaps)} \cup {NoVersion} : Rollback(t, v)
        \/ o.kind = "suspend" /\ Suspend(t)
        \/ o.kind = "retire" /\ Retire(t)
  /\ Answer(t)
  /\ UNCHANGED job

MutJobEnter(r) ==
  /\ job[r].step = "enter"
  /\ now < MaxTime /\ now' = now + 1
  /\ job[r].ver \in allowed[job[r].tool]
  /\ job' = [job EXCEPT ![r].step = "commit", ![r].at = now]
  /\ UNCHANGED <<tableVars, controlVars, queueVars, sync, overtaken, collided, reconciles, syncRestarts>>

(* activate() up to its transaction: the stamp, then the controls and the  *)
(* checks that may refuse.                                                 *)
JobEnter(r) ==
  /\ job[r].step = "enter"
  /\ now < MaxTime /\ now' = now + 1
  /\ \/ /\ job[r].ver \in allowed[job[r].tool]
        /\ job' = [job EXCEPT ![r].step = "commit", ![r].at = now]
        /\ UNCHANGED <<queues, answered>>
     \/ /\ job' = [job EXCEPT ![r] = NoJob]
        /\ IF r = Sync THEN UNCHANGED <<queues, answered>> ELSE Answer(r)
  /\ UNCHANGED <<tableVars, controlVars, sent, sync, ran, overtaken, collided, reconciles, syncRestarts>>

JobCommit(r) ==
  /\ job[r].step = "commit"
  /\ Activate(job[r].tool, job[r].ver, job[r].state, job[r].at)
  /\ job' = [job EXCEPT ![r] = NoJob]
  /\ IF r = Sync THEN UNCHANGED <<queues, answered>> ELSE Answer(r)
  /\ sync' = IF r = Sync /\ sync.step # "idle" /\ ~Taken
             THEN [sync EXCEPT !.active[job[r].tool] = job[r].ver] ELSE sync
  /\ UNCHANGED <<controlVars, sent, now, ran, reconciles, syncRestarts>>

-----------------------------------------------------------------------------
(* reconcile() reads the map and the overrides once and works on copies.   *)
SyncBegin ==
  /\ sync.step = "idle" /\ job[Sync] = NoJob /\ reconciles < MaxReconciles
  /\ reconciles' = reconciles + 1
  /\ sync' = [step |-> "override", todo |-> Tools, active |-> active, override |-> override]
  /\ UNCHANGED <<tableVars, controlVars, queueVars, job, now, overtaken, collided, syncRestarts>>

(* One tool of a loop is done when what it awaits is.                      *)
SyncTurn(step, t) ==
  /\ sync.step = step /\ t \in sync.todo /\ job[Sync] = NoJob
  /\ UNCHANGED <<controlVars, queueVars, reconciles, syncRestarts>>

(* The copy of the map after a tool; the last of a loop opens the next.    *)
SyncDone(t, map) ==
  sync' = IF sync.todo # {t} THEN [sync EXCEPT !.todo = @ \ {t}, !.active = map]
          ELSE CASE sync.step = "override" -> [sync EXCEPT !.step = "envelope", !.todo = Tools, !.active = map]
                 [] sync.step = "envelope" -> [sync EXCEPT !.step = "want", !.todo = Tools, !.active = map]
                 [] OTHER -> NoSync

SyncSuspend(t) ==
  /\ now < MaxTime /\ now' = now + 1
  /\ Suspend(t)
  /\ SyncDone(t, [sync.active EXCEPT ![t] = IF Taken THEN @ ELSE NoVersion])
  /\ UNCHANGED job

SyncSkip(t) ==
  /\ SyncDone(t, sync.active)
  /\ UNCHANGED <<tableVars, job, now, overtaken, collided>>

(* A disabled tool is suspended, a tool pinned elsewhere is moved to the   *)
(* pinned version when that is staged.                                     *)
SyncOverride(t) ==
  /\ SyncTurn("override", t)
  /\ LET v == sync.active[t]
         o == sync.override[t]
     IN \/ v # NoVersion /\ o = {} /\ SyncSuspend(t)
        \/ /\ v # NoVersion /\ o # {} /\ v \notin o
           /\ LET p == CHOOSE w \in o : TRUE
              IN IF staged[t][p] = "none" THEN SyncSkip(t)
                 ELSE /\ Enter(Sync, t, p, "promoted")
                      /\ SyncDone(t, sync.active)
                      /\ UNCHANGED <<tableVars, now, overtaken, collided>>
        \/ v \in o \cup {NoVersion} /\ SyncSkip(t)

(* An active version that the envelope no longer allows is suspended.      *)
SyncEnvelope(t) ==
  /\ SyncTurn("envelope", t)
  /\ \/ sync.active[t] # NoVersion /\ SyncSuspend(t)
     \/ SyncSkip(t)

(* A version the cloud wants is staged and activated unless an override    *)
(* speaks against it, it is active, or it cannot be had.                   *)
SyncWant(t) ==
  /\ SyncTurn("want", t)
  /\ \/ /\ \E v \in sync.override[t] \ {sync.active[t]} :
             Stage(t, v) /\ Enter(Sync, t, v, "promoted")
        /\ SyncDone(t, sync.active)
        /\ UNCHANGED <<active, deployed, installed, snaps, now, overtaken, collided>>
     \/ SyncSkip(t)

(* The user changes a control or an override, in another process.          *)
SetControl(t) ==
  /\ changes + syncRestarts < MaxDisturbances /\ changes' = changes + 1
  /\ \E p \in Permits :
       \/ p # allowed[t] /\ allowed' = [allowed EXCEPT ![t] = p] /\ UNCHANGED override
       \/ p # override[t] /\ override' = [override EXCEPT ![t] = p] /\ UNCHANGED allowed
  /\ UNCHANGED <<tableVars, queueVars, job, sync, now, overtaken, collided, reconciles, syncRestarts>>

(* The observer restarts: the database stays, the queues, the answers and  *)
(* whatever ran are gone.                                                  *)
SyncRestart ==
  /\ changes + syncRestarts < MaxDisturbances
  /\ syncRestarts' = syncRestarts + 1
  /\ queues' = [t \in Tools |-> <<>>]
  /\ answered' = {}
  /\ job' = [r \in Tools \cup {Sync} |-> NoJob]
  /\ sync' = NoSync
  /\ ran' = [i \in Ids |-> 0]
  /\ UNCHANGED <<tableVars, controlVars, sent, now, overtaken, collided, reconciles>>

ToolStep(t) == RunAgain(t) \/ RunActivate(t) \/ RunResume(t) \/ RunWithdraw(t)
               \/ JobEnter(t) \/ JobCommit(t)
Reconciling == \/ \E t \in Tools : SyncOverride(t) \/ SyncEnvelope(t) \/ SyncWant(t)
               \/ JobEnter(Sync) \/ JobCommit(Sync)

DepNext ==
  \/ \E o \in Orders : Deliver(o)
  \/ \E t \in Tools : ToolStep(t) \/ SetControl(t)
  \/ SyncBegin \/ Reconciling \/ SyncRestart

DepSpec == DepInit /\ [][DepNext]_syncVars

-----------------------------------------------------------------------------
Jobs == [step : {"idle", "enter", "commit"}, tool : Tools \cup {Sync}, ver : Maybe,
         state : {"none", "canary", "promoted"}, at : 0..MaxTime]

(* Every variable has its type.                                            *)
DepTypeOK ==
  /\ active \in [Tools -> Maybe]
  /\ ToSet(deployed) \subseteq [tool : Tools, ver : Versions, at : 1..MaxTime,
        state : {"canary", "promoted", "rolled_back", "suspended", "retired"}]
  /\ installed \in [Tools -> [ver : Maybe, state : {"none", "active", "inactive", "uninstalled"}]]
  /\ staged \in [Tools -> [Versions -> {"none", "draft", "active", "revoked"}]]
  /\ ToSet(snaps) \subseteq [rev : Nat \ {0}, at : 1..MaxTime, tools : [Tools -> Maybe]]
  /\ allowed \in [Tools -> Permits] /\ override \in [Tools -> Permits]
  /\ sent \subseteq Orders /\ answered \subseteq Ids
  /\ \A t \in Tools : ToSet(queues[t]) \subseteq sent
  /\ job \in [Tools \cup {Sync} -> Jobs]
  /\ sync.step \in {"idle", "override", "envelope", "want"} /\ sync.todo \subseteq Tools
  /\ now \in 1..MaxTime

(* The map and the newest snapshot name the same versions except for tools *)
(* retired since, and a tool's installation row, if it has one, is active  *)
(* exactly while the map names its version.                                *)
TablesAgree ==
  \A t \in Tools :
    /\ snaps # <<>> => \/ active[t] = Last(snaps).tools[t]
                       \/ active[t] = NoVersion /\ \A i \in RecordsOf(t) : deployed[i].state = "retired"
    /\ installed[t].state = "active" <=> (active[t] # NoVersion /\ installed[t].state # "none")
    /\ installed[t].state = "active" => installed[t].ver = active[t]

(* A revision is taken only after an operation that was overtaken between  *)
(* its stamp and its transaction: otherwise every transaction can end.     *)
RevisionsAreFree == collided => overtaken

(* The catalog of the device is one story, in memory, in the tables and in *)
(* the numbers of its snapshots, whatever the awaits of an activation let  *)
(* in before its transaction.                                              *)
OneCatalog == TablesAgree /\ RevisionsAreFree

(* A command runs once, however often it is delivered while it waits or    *)
(* runs or after it failed, until the observer restarts.                   *)
RunsOnce == \A i \in Ids : ran[i] <= 1

(* A rollback without a target leaves the version that serves, and removes *)
(* the tool only when no other version was ever deployed.                  *)
RollbackMovesOn ==
  [][ \A t \in Tools :
        (/\ queues[t] # <<>> /\ Head(queues[t]).kind = "rollback" /\ Head(queues[t]).ver = NoVersion
         /\ Len(snaps') > Len(snaps) /\ queues'[t] = Tail(queues[t]))
          => /\ active'[t] # active[t] \/ active[t] = NoVersion
             /\ active'[t] = NoVersion => \A i \in RecordsOf(t) : deployed[i].ver = active[t]
    ]_syncVars

(* Every command is answered in the end, and one that fails does not hold  *)
(* up the queue behind it, unless the observer restarts.                   *)
CommandsAnswered ==
  []<>((\A t \in Tools : queues[t] = <<>>) \/ syncRestarts > 0 \/ now = MaxTime)
=============================================================================
