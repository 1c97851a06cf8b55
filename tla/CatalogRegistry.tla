-------------------------- MODULE CatalogRegistry --------------------------
(***************************************************************************)
(* The gateway's catalog of one tool, in every workspace:                  *)
(*   apps/gateway/src/registry/registry.ts   ToolRegistry                  *)
(*   apps/gateway/src/registry/{cache,controls,events}.ts                  *)
(*   apps/gateway/src/router.ts              RegistryGatewayRouter         *)
(*   apps/gateway/src/proxy/sync.ts          CloudCatalogSyncCoordinator   *)
(*                                                                         *)
(* A task runs from one await to the next.  Every workspace has a client   *)
(* that lists the tools when it connects and after each                    *)
(* notifications/tools/list_changed; a task named like its workspace is    *)
(* that request.  Sessions and the order of several tools are left out.    *)
(***************************************************************************)
EXTENDS Naturals, FiniteSets

CONSTANTS
  Workspaces,
  Versions,
  Shared,        \* versions whose manifest has the scope "global"
  Requests,      \* operations in flight
  Absent,        \* no version
  None,          \* no catalog recorded
  MaxOps,        \* bound: operations
  Limits         \* bounds of a behaviour: workspaces operated on, with a client, operations,
                 \* versions the store may list, versions it may have deployed

ASSUME RegistryAssumption ==
  /\ Shared \subseteq Versions /\ Absent \notin Versions /\ MaxOps \in Nat
  /\ Requests \cap Workspaces = {}
  /\ Limits \subseteq [used : SUBSET Workspaces, clients : SUBSET Workspaces, ops : 0..MaxOps,
                        listed : SUBSET (Versions \cup {Absent}),
                        deployed : SUBSET (Versions \cup {Absent})]

VARIABLES
  scopeOf,       \* registeredTools: the scope a version is registered with
  sysActive,     \* systemActiveTools
  wsActive,      \* workspaceActiveTools
  pinned,        \* controls.pinnedVersions
  disabled,      \* workspaces whose controls disable the tool
  revisions,     \* workspaceRevisions
  history,       \* snapshotHistory: the first catalog recorded for a revision
  cached,        \* CatalogCache: the latest catalog of a workspace
  hydration,     \* hydrationPromise and where it waits
  hydrated,
  task,          \* what each operation and each tools/list waits for
  events,        \* CatalogChangeEventEmitter.pendingEvents
  view,          \* the catalog each client has
  notified,      \* clients that have a list_changed to act on
  ops,           \* operations begun
  bound,         \* the limit of this behaviour
  stale          \* history: workspaces whose cached catalog a change passed over

catalogVars == <<scopeOf, sysActive, wsActive, pinned, disabled>>
regVars == <<catalogVars, revisions, history, cached, hydration, hydrated, task,
             events, view, notified, ops, bound, stale>>

Tasks == Requests \cup Workspaces
Slots == Versions \cup {Absent}
Nothing == [version |-> Absent, revision |-> 0]   \* no catalog
NoTask == [pc |-> "idle", op |-> "none", ws |-> Absent, arg |-> Absent, answer |-> Absent]
NoHydration == [at |-> "none", ws |-> Absent]

RegInit ==
  /\ scopeOf = [v \in Versions |-> "none"]
  /\ sysActive = Absent /\ wsActive = [w \in Workspaces |-> Absent]
  /\ pinned = [w \in Workspaces |-> Absent] /\ disabled = {}
  /\ revisions = [w \in Workspaces |-> 0]
  /\ history = [w \in Workspaces |-> [r \in 1..(MaxOps + 1) |-> None]]
  /\ cached = [w \in Workspaces |-> Nothing]
  /\ hydration \in {NoHydration, [at |-> "listing", ws |-> Absent]} /\ hydrated = FALSE
  /\ task = [t \in Tasks |-> NoTask]
  /\ bound \in Limits /\ ops = 0
  /\ events = {} /\ view = [w \in Workspaces |-> Absent] /\ notified = bound.clients
  /\ stale = {}
-----------------------------------------------------------------------------
Registered == {v \in Versions : scopeOf[v] # "none"}
Revision(w) == IF revisions[w] = 0 THEN 1 ELSE revisions[w]
HasCatalog(w) == cached[w] # Nothing

(* What a layer of resolveCatalog contributes: the pin replaces the active *)
(* version, and a version that is not registered counts for nothing.       *)
Candidate(w, version) ==
  LET target == IF version # Absent /\ pinned[w] # Absent THEN pinned[w] ELSE version
  IN  IF target \in Registered THEN target ELSE Absent

(* The version a workspace sees: its own layer over the shared one.        *)
Visible(w) ==
  IF w \in disabled THEN Absent
  ELSE IF Candidate(w, wsActive[w]) # Absent THEN Candidate(w, wsActive[w])
  ELSE Candidate(w, sysActive)

Goto(t, point) == task' = [task EXCEPT ![t].pc = point]
At(w, point) == [NoTask EXCEPT !.pc = point, !.ws = w]
Begin(p, first) ==
  /\ task[p].pc = "idle" /\ ops < bound.ops
  /\ ops' = ops + 1
  /\ task' = [task EXCEPT ![p] = first]

NextRevision(w) == revisions' = [revisions EXCEPT ![w] = @ + 1]

(* invalidateWorkspace.  A change of the shared layer passes over what the *)
(* other workspaces have cached.                                           *)
Invalidate(w) ==
  /\ cached' = [cached EXCEPT ![w] = Nothing]
  /\ stale' = (stale \ {w}) \cup
              IF sysActive' = sysActive THEN {} ELSE {u \in Workspaces \ {w} : HasCatalog(u)}

Untouched == UNCHANGED <<history, hydration, hydrated, events, view, notified, bound>>

(* activateToolVersion: everything up to the await of the new catalog.     *)
Activate(p, w, v) ==
  /\ v \in Registered
  /\ Begin(p, At(w, "resolve"))
  /\ IF scopeOf[v] = "global"
     THEN sysActive' = v /\ UNCHANGED wsActive
     ELSE wsActive' = [wsActive EXCEPT ![w] = v] /\ UNCHANGED sysActive
  /\ NextRevision(w) /\ Invalidate(w)
  /\ UNCHANGED <<scopeOf, pinned, disabled>> /\ Untouched

Deactivate(p, w) ==
  /\ Begin(p, At(w, "resolve"))
  /\ sysActive' = Absent /\ wsActive' = [wsActive EXCEPT ![w] = Absent]
  /\ NextRevision(w) /\ Invalidate(w)
  /\ UNCHANGED <<scopeOf, pinned, disabled>> /\ Untouched

(* pinToolVersion, rollbackTool (which pins), unpin, disable and enable    *)
(* write the controls first.                                               *)
Control(p, w, op, v) ==
  /\ op = "pin" => v \in Registered
  /\ Begin(p, [At(w, "controls") EXCEPT !.op = op, !.arg = IF op = "pin" THEN v ELSE Absent])
  /\ UNCHANGED <<catalogVars, revisions, cached, stale>> /\ Untouched

WriteControls(p) ==
  LET w == task[p].ws IN
  /\ task[p].pc = "controls"
  /\ pinned' = CASE task[p].op = "pin" -> [pinned EXCEPT ![w] = task[p].arg]
                 [] task[p].op = "unpin" -> [pinned EXCEPT ![w] = Absent]
                 [] OTHER -> pinned
  /\ disabled' = CASE task[p].op = "disable" -> disabled \cup {w}
                   [] task[p].op = "enable" -> disabled \ {w}
                   [] OTHER -> disabled
  /\ Goto(p, "apply")
  /\ UNCHANGED <<scopeOf, sysActive, wsActive, revisions, cached, stale, ops>> /\ Untouched

(* Mutant: the catalog that others cached meanwhile is kept.               *)
MutApplyControls(p) ==
  LET w == task[p].ws IN
  /\ task[p].pc = "apply"
  /\ wsActive' = IF task[p].op = "pin" THEN [wsActive EXCEPT ![w] = task[p].arg] ELSE wsActive
  /\ NextRevision(w) /\ task' = [task EXCEPT ![p] = At(w, "resolve")]
  /\ UNCHANGED <<scopeOf, sysActive, pinned, disabled, cached, stale, ops>> /\ Untouched

ApplyControls(p) ==
  LET w == task[p].ws IN
  /\ task[p].pc = "apply"
  /\ wsActive' = IF task[p].op = "pin" THEN [wsActive EXCEPT ![w] = task[p].arg] ELSE wsActive
  /\ UNCHANGED sysActive
  /\ NextRevision(w) /\ Invalidate(w)
  /\ task' = [task EXCEPT ![p] = At(w, "resolve")]
  /\ UNCHANGED <<scopeOf, pinned, disabled, ops>> /\ Untouched

(* rollbackCatalog puts back what the recorded catalog names and awaits    *)
(* the note in the controls before it drops the cached one.                *)
RollbackCatalog(p, w, r) ==
  /\ history[w][r] # None
  /\ Begin(p, At(w, "record"))
  /\ wsActive' = [wsActive EXCEPT ![w] = history[w][r]]
  /\ NextRevision(w)
  /\ UNCHANGED <<scopeOf, sysActive, pinned, disabled, cached, stale>> /\ Untouched

RecordRollback(p) ==
  /\ task[p].pc = "record"
  /\ UNCHANGED sysActive
  /\ Invalidate(task[p].ws) /\ Goto(p, "resolve")
  /\ UNCHANGED <<scopeOf, wsActive, pinned, disabled, revisions, ops>> /\ Untouched
-----------------------------------------------------------------------------
(* registerToolSync: a shared version is active at once.                   *)
Register(v, scope) ==
  /\ scopeOf' = [scopeOf EXCEPT ![v] = scope]
  /\ sysActive' = IF scope = "global" THEN v ELSE sysActive

ManifestScope(v) == IF v \in Shared THEN "global" ELSE "workspace"
PassesOver == stale' = stale \cup {u \in Workspaces : HasCatalog(u)}

(* stageToolVersion: no catalog is dropped and nobody is told.             *)
Stage(v) ==
  /\ ops < bound.ops /\ ops' = ops + 1
  /\ Register(v, ManifestScope(v)) /\ PassesOver
  /\ UNCHANGED <<wsActive, pinned, disabled, revisions, cached, task>> /\ Untouched

(* The cloud's catalog arrived: its version is registered as a shared one  *)
(* and a change is announced, with the catalog that is cached.             *)
CloudSync(p, w, v) ==
  /\ Begin(p, At(w, "resolve"))
  /\ Register(v, "global") /\ PassesOver
  /\ UNCHANGED <<wsActive, pinned, disabled, revisions, cached>> /\ Untouched

(* hydrateFromStore joins a hydration that runs.                           *)
Hydrate(w) ==
  hydration' = IF hydration # NoHydration THEN hydration ELSE [at |-> "listing", ws |-> w]

(* RegistryGatewayRouter.refresh waits for a hydration.                    *)
Refresh(p, w) ==
  /\ Begin(p, At(w, "refreshing"))
  /\ Hydrate(w)
  /\ UNCHANGED <<catalogVars, revisions, cached, stale, history, hydrated, events, view, notified, bound>>

(* All that waits for a hydration goes on when it ends.                    *)
HydrationEnds ==
  /\ hydration' = NoHydration /\ hydrated' = TRUE
  /\ task' = [t \in Tasks |->
       CASE task[t].pc = "hydrating" -> [task[t] EXCEPT !.pc = "compute"]
         [] task[t].pc = "refreshing" -> [task[t] EXCEPT !.pc = "broadcast"]
         [] OTHER -> task[t]]

AllDropped(loaded) ==
  /\ cached' = [w \in Workspaces |-> Nothing] /\ stale' = {}
  /\ events' = IF loaded THEN events \cup {hydration.ws} ELSE events

(* The store names a version of the tool, or none that may be used; the    *)
(* version is registered for the workspace the hydration is for.           *)
HydrateTool(found) ==
  /\ hydration.at = "listing"
  /\ IF found = Absent THEN UNCHANGED catalogVars
     ELSE /\ scopeOf' = [scopeOf EXCEPT ![found] = ManifestScope(found)]
          /\ sysActive' = IF found \in Shared \/ (hydration.ws = Absent /\ sysActive = Absent)
                          THEN found ELSE sysActive
          /\ wsActive' = IF found \notin Shared /\ hydration.ws # Absent
                         THEN [wsActive EXCEPT ![hydration.ws] = found] ELSE wsActive
          /\ UNCHANGED <<pinned, disabled>>
  /\ IF hydration.ws = Absent THEN HydrationEnds /\ AllDropped(found # Absent)
     ELSE /\ hydration' = [hydration EXCEPT !.at = IF found = Absent THEN "rows" ELSE "loaded_rows"]
          /\ UNCHANGED <<hydrated, task, cached, stale, events>>
  /\ UNCHANGED <<revisions, history, view, notified, ops, bound>>

(* ... then the workspace's deployment, whatever was activated meanwhile.  *)
HydrateDeployment(found) ==
  /\ hydration.at \in {"rows", "loaded_rows"}
  /\ wsActive' = IF found = Absent THEN wsActive ELSE [wsActive EXCEPT ![hydration.ws] = found]
  /\ HydrationEnds /\ AllDropped(hydration.at = "loaded_rows")
  /\ UNCHANGED <<scopeOf, sysActive, pinned, disabled, revisions, history, view, notified, ops, bound>>

(* The store cannot be listed: that is suppressed.                         *)
HydrateFails ==
  /\ hydration.at = "listing"
  /\ HydrationEnds
  /\ UNCHANGED <<catalogVars, revisions, history, cached, events, view, notified, ops, bound, stale>>
-----------------------------------------------------------------------------
(* resolveCatalog: the cached catalog, or a new one after any hydration.   *)
Resolve(t) ==
  LET w == task[t].ws IN
  /\ task[t].pc = "resolve"
  /\ \/ HasCatalog(w) /\ UNCHANGED hydration
        /\ task' = [task EXCEPT ![t].pc = "done", ![t].answer = IF t = w THEN cached[w].version ELSE Absent]
     \/ /\ ~HasCatalog(w) /\ hydrated /\ hydration = NoHydration
        /\ Goto(t, "compute") /\ UNCHANGED hydration
     \/ /\ ~HasCatalog(w) /\ ~(hydrated /\ hydration = NoHydration)
        /\ Goto(t, "hydrating") /\ Hydrate(w)
  /\ UNCHANGED <<catalogVars, revisions, history, cached, hydrated, events, view, notified, ops, bound, stale>>

(* The controls are there: the catalog is computed, cached and recorded.   *)
Compute(t) ==
  LET w == task[t].ws
      catalog == [version |-> Visible(w), revision |-> Revision(w)]
  IN  /\ task[t].pc = "compute"
      /\ task' = [task EXCEPT ![t].pc = "done", ![t].answer = IF t = w THEN catalog.version ELSE Absent]
      /\ cached' = [cached EXCEPT ![w] = catalog]
      /\ history' = [history EXCEPT ![w][Revision(w)] = IF @ = None THEN Visible(w) ELSE @]
      /\ stale' = stale \ {w}
      /\ UNCHANGED <<catalogVars, revisions, hydration, hydrated, events, view, notified, ops, bound>>

(* The catalog is saved: the change is announced ...                       *)
Announce(p) ==
  /\ task[p].pc = "done"
  /\ events' = events \cup {task[p].ws}
  /\ task' = [task EXCEPT ![p] = NoTask]
  /\ UNCHANGED <<catalogVars, revisions, history, cached, hydration, hydrated, view, notified, ops, bound, stale>>

(* ... or the client has its answer.                                       *)
Answer(w) ==
  /\ task[w].pc = "done"
  /\ view' = [view EXCEPT ![w] = task[w].answer]
  /\ task' = [task EXCEPT ![w] = NoTask]
  /\ UNCHANGED <<catalogVars, revisions, history, cached, hydration, hydrated, events, notified, ops, bound, stale>>

(* Mutant: a refresh leaves it to the hydration to announce what changed.  *)
MutBroadcast(p) ==
  /\ task[p].pc = "broadcast"
  /\ task' = [task EXCEPT ![p] = NoTask]
  /\ UNCHANGED <<catalogVars, revisions, history, cached, hydration, hydrated, events, view, notified, ops, bound, stale>>

(* A debounced event, or the end of a refresh, is told to every client.    *)
Flush(key) ==
  /\ key \in events
  /\ events' = events \ {key} /\ notified' = bound.clients
  /\ UNCHANGED <<catalogVars, revisions, history, cached, hydration, hydrated, task, view, ops, bound, stale>>

Broadcast(p) ==
  /\ task[p].pc = "broadcast"
  /\ task' = [task EXCEPT ![p] = NoTask] /\ notified' = bound.clients
  /\ UNCHANGED <<catalogVars, revisions, history, cached, hydration, hydrated, events, view, ops, bound, stale>>

(* The client lists the tools, one request at a time.                      *)
List(w) ==
  /\ w \in notified /\ task[w].pc = "idle"
  /\ notified' = notified \ {w}
  /\ task' = [task EXCEPT ![w] = At(w, "resolve")]
  /\ UNCHANGED <<catalogVars, revisions, history, cached, hydration, hydrated, events, view, ops, bound, stale>>

Operate(p) ==
  \E w \in bound.used :
    \/ \E v \in Versions : Activate(p, w, v) \/ CloudSync(p, w, v)
    \/ Deactivate(p, w) \/ Refresh(p, w)
    \/ \E op \in {"pin", "unpin", "disable", "enable"}, v \in Versions : Control(p, w, op, v)
    \/ \E r \in 1..MaxOps : RollbackCatalog(p, w, r)

TaskGoesOn(t) == Resolve(t) \/ Compute(t)
RequestGoesOn(p) ==
  WriteControls(p) \/ ApplyControls(p) \/ RecordRollback(p) \/ Announce(p) \/ Broadcast(p)
HydrationGoesOn ==
  \/ HydrateFails
  \/ (\E found \in bound.listed : HydrateTool(found))
  \/ \E found \in bound.deployed : HydrateDeployment(found)

RegGoesOn ==
  \/ \E p \in Requests : TaskGoesOn(p) \/ RequestGoesOn(p)
  \/ \E w \in Workspaces : TaskGoesOn(w) \/ Answer(w) \/ List(w)
  \/ HydrationGoesOn
  \/ \E key \in Workspaces \cup {Absent} : Flush(key)

RegNext ==
  \/ RegGoesOn
  \/ \E p \in Requests : Operate(p)
  \/ \E v \in Versions : Stage(v)

(* Promises and debounce timers go on, and clients list when they are told. *)
RegSpec == RegInit /\ [][RegNext]_regVars /\ WF_regVars(RegGoesOn)
-----------------------------------------------------------------------------
Catalogs == [version : Slots, revision : 0..(MaxOps + 1)]

RegTypeOK ==
  /\ scopeOf \in [Versions -> {"none", "workspace", "global"}]
  /\ sysActive \in Slots /\ wsActive \in [Workspaces -> Slots]
  /\ pinned \in [Workspaces -> Slots] /\ disabled \subseteq Workspaces
  /\ revisions \in [Workspaces -> 0..MaxOps]
  /\ history \in [Workspaces -> [1..(MaxOps + 1) -> Slots \cup {None}]]
  /\ cached \in [Workspaces -> Catalogs] /\ view \in [Workspaces -> Slots]
  /\ hydration \in [at : {"none", "listing", "rows", "loaded_rows"}, ws : Workspaces \cup {Absent}]
  /\ hydrated \in BOOLEAN /\ bound \in Limits /\ ops \in 0..bound.ops
  /\ events \subseteq Workspaces \cup {Absent}
  /\ notified \subseteq Workspaces /\ stale \subseteq Workspaces

(* An operation on the workspace, or a hydration, is between its change    *)
(* and the moment it drops the catalog.                                    *)
Changing(w) ==
  \/ \E p \in Requests : task[p].ws = w /\ task[p].pc \in {"apply", "record"}
  \/ hydration.at \in {"rows", "loaded_rows"}

(* A cached catalog is what resolveCatalog would compute and carries the   *)
(* current revision, whatever ran while it was computed or since; only a   *)
(* version shared by all workspaces passes over the catalogs cached by     *)
(* others, or by all when it is staged or synchronized.                    *)
CacheIsCurrent ==
  \A w \in Workspaces :
    HasCatalog(w) /\ ~Changing(w) =>
      /\ cached[w].revision = Revision(w)
      /\ w \notin stale => cached[w].version = Visible(w)

(* When the operations are over every client ends with the catalog of its  *)
(* workspace, unless the cached one was passed over: no announcement is    *)
(* lost, coalesced away or sent before the catalog it announces.           *)
ClientsCatchUp == <>[](\A w \in bound.clients : w \notin stale => view[w] = Visible(w))
=============================================================================
