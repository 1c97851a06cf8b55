------------------------------ MODULE Rollout ------------------------------
(***************************************************************************)
(* The cloud's rollouts of one tool: canaries that telemetry and           *)
(* evaluations promote, suspend or roll back                               *)
(* (apps/cloud/src/evolution/rollout).  A worker is a job or a request; it *)
(* gives way at every query, so a row may change between its reading and   *)
(* its writing, which updateRollout() itself does in two queries.  An      *)
(* artifact digest is a version; thresholds are counts.                    *)
(***************************************************************************)
EXTENDS Integers, Sequences, FiniteSets, SequencesExt

CONSTANTS Workers, Releases, FirstVersion, NoOverride, Disabled,
          Pins,                                           \* versions the user may pin
          MinInvocations, MaxFailures, RequiredClean, AutoPromotion,  \* the policy
          Limits                    \* bounds: rollouts, events of one, disturbances

ASSUME RolloutAssumption ==
  /\ FirstVersion \notin Releases /\ Pins \subseteq Releases \cup {FirstVersion}
  /\ {NoOverride, Disabled} \cap (Releases \cup {FirstVersion}) = {}
  /\ NoOverride # Disabled
  /\ MaxFailures \in Nat /\ Limits \subseteq [rollouts : Nat, events : Nat, disturbances : Nat]
  /\ {MinInvocations, RequiredClean} \subseteq Nat \ {0}
  /\ AutoPromotion \in BOOLEAN

VARIABLES
  rollouts,   \* the table, in the order of created_at
  telemetry,  \* the events saved for a rollout's version since it started
  userPin,    \* the override of the tool
  serving,    \* active_version of the tool in the registry
  promotions, \* the rollouts in the order in which they were promoted
  worker,     \* what a worker is about to do and what it has read
  failed,     \* history: versions rolled back and not out of cooldown since
  rowRaced,      \* history: something was written on the word of an outdated row
  manual,     \* history: the operator's decisions
  crashes, overrides,
  limit       \* the bounds of this behaviour

rolloutVars == <<rollouts, telemetry, userPin, serving, promotions, worker, failed, rowRaced,
                 manual, crashes, overrides, limit>>

RolloutVersions == Releases \cup {FirstVersion}
RolloutIds == DOMAIN rollouts
Exposed == {"canary", "observing"}
Terminal == {"promoted", "rolled_back", "superseded"}
Goals == {"keep", "observe", "suspend", "rollback", "promote", "supersede"}
Sorts == {"clean", "failure", "hard"}

NoRow == [ver |-> FirstVersion, prev |-> FirstVersion, state |-> "none", clean |-> 0,
          cool |-> FALSE]
Resting == [step |-> "idle", goal |-> "keep", id |-> 0, base |-> NoRow, copy |-> NoRow,
         todo |-> {}, sort |-> "clean", ver |-> FirstVersion]

RolloutInit ==
  /\ rollouts = <<>> /\ telemetry = <<>> /\ promotions = <<>>
  /\ userPin = NoOverride /\ serving = FirstVersion
  /\ worker = [w \in Workers |-> Resting]
  /\ failed = {} /\ rowRaced = FALSE /\ manual = {} /\ crashes = 0 /\ overrides = 0
  /\ limit \in Limits

Undisturbed == overrides + crashes + Cardinality(manual) < limit.disturbances

Total(m) == m["clean"] + m["failure"] + m["hard"]
Become(w, r) == worker' = [worker EXCEPT ![w] = r]
Allows(v) == userPin \in {NoOverride, v}

-----------------------------------------------------------------------------
(* createRolloutForPublishedVersion(): the cooldown and the override are   *)
(* looked up, then what to fall back to, then the row is inserted.         *)
Cooling(v) == \E i \in RolloutIds : rollouts[i].ver = v /\ rollouts[i].cool

Creating == {w \in Workers : worker[w].step = "create"}

CreateCheck(w, v) ==
  /\ worker[w] = Resting /\ Len(rollouts) + Cardinality(Creating) < limit.rollouts
  /\ ~Cooling(v) /\ Allows(v)
  /\ Become(w, [Resting EXCEPT !.step = "create", !.ver = v])
  /\ UNCHANGED <<rollouts, telemetry, userPin, serving, promotions, failed, rowRaced, manual,
                 crashes, overrides, limit>>

Promoted == {k \in DOMAIN promotions : rollouts[promotions[k]].state = "promoted"}
KnownGood ==
  IF Promoted = {} THEN serving
  ELSE LET last == CHOOSE k \in Promoted : \A l \in Promoted : l <= k
       IN rollouts[promotions[last]].ver

CreateInsert(w) ==
  /\ w \in Creating
  /\ rollouts' = Append(rollouts, [NoRow EXCEPT !.ver = worker[w].ver, !.prev = KnownGood,
                                                !.state = "canary"])
  /\ telemetry' = Append(telemetry, [s \in Sorts |-> 0])
  /\ rowRaced' = (rowRaced \/ Cooling(worker[w].ver))
  /\ Become(w, Resting)
  /\ UNCHANGED <<userPin, serving, promotions, failed, manual, crashes, overrides, limit>>

(* recordTelemetry(): the event is saved for every window its version is   *)
(* in, then the newest exposed rollout is looked up.                       *)
EventSave(w, v, s) ==
  /\ worker[w] = Resting
  /\ \E i \in RolloutIds : rollouts[i].ver = v
  /\ \A i \in RolloutIds : rollouts[i].ver = v => Total(telemetry[i]) < limit.events
  /\ telemetry' = [i \in RolloutIds |-> IF rollouts[i].ver # v THEN telemetry[i]
                                        ELSE [telemetry[i] EXCEPT ![s] = @ + 1]]
  /\ Become(w, [Resting EXCEPT !.step = "look", !.sort = s, !.ver = v])
  /\ UNCHANGED <<rollouts, userPin, serving, promotions, failed, rowRaced, manual, crashes,
                 overrides, limit>>

ExposedIds == {i \in RolloutIds : rollouts[i].state \in Exposed}
NewestExposed == CHOOSE i \in ExposedIds : \A j \in ExposedIds : j <= i

Decided(w, goal, i, row) ==
  Become(w, [Resting EXCEPT !.step = "update", !.goal = goal, !.id = i,
                         !.base = IF goal = "keep" THEN NoRow ELSE row])

(* Mutant: a hard signal is counted like any other.                        *)
MutEventLook(w) ==
  /\ worker[w].step = "look"
  /\ IF ExposedIds = {} \/ rollouts[NewestExposed].ver # worker[w].ver THEN Become(w, Resting)
     ELSE Decided(w, "keep", NewestExposed, rollouts[NewestExposed])
  /\ UNCHANGED <<rollouts, telemetry, userPin, serving, promotions, failed, rowRaced, manual,
                 crashes, overrides, limit>>

(* A hard signal is acted on at once, anything else is counted: a write    *)
(* that keeps everything but the counters, which decide nothing.           *)
EventLook(w) ==
  /\ worker[w].step = "look"
  /\ IF ExposedIds = {} \/ rollouts[NewestExposed].ver # worker[w].ver THEN Become(w, Resting)
     ELSE Decided(w, IF worker[w].sort = "hard" THEN "rollback" ELSE "keep",
                          NewestExposed, rollouts[NewestExposed])
  /\ UNCHANGED <<rollouts, telemetry, userPin, serving, promotions, failed, rowRaced, manual,
                 crashes, overrides, limit>>

-----------------------------------------------------------------------------
(* evaluateRollout(): the row, then override and metrics (two more         *)
(* queries, read here in one step), then the evaluator's verdict.          *)
(* Mutant: a settled rollout is evaluated like any other.                  *)
MutEvaluateRead(w, i) ==
  /\ worker[w] = Resting
  /\ Become(w, [Resting EXCEPT !.step = "metrics", !.id = i, !.base = rollouts[i]])
  /\ UNCHANGED <<rollouts, telemetry, userPin, serving, promotions, failed, rowRaced, manual,
                 crashes, overrides, limit>>

EvaluateRead(w, i) ==
  /\ worker[w] = Resting
  /\ rollouts[i].state \notin Terminal
  /\ Become(w, [Resting EXCEPT !.step = "metrics", !.id = i, !.base = rollouts[i]])
  /\ UNCHANGED <<rollouts, telemetry, userPin, serving, promotions, failed, rowRaced, manual,
                 crashes, overrides, limit>>

(* Mutant: a canary advances without evidence.                             *)
MutAdvance(row, total) ==
  IF row.state \notin Exposed THEN "keep"
  ELSE IF row.state = "canary" \/ row.clean + 1 < RequiredClean THEN "observe"
  ELSE IF AutoPromotion THEN "promote" ELSE "keep"

(* The next stage: observed once there is evidence, promoted after enough  *)
(* clean evaluations.                                                      *)
Advance(row, total) ==
  IF row.state \notin Exposed \/ (row.state = "canary" /\ total < MinInvocations) THEN "keep"
  ELSE IF row.state = "canary" \/ row.clean + 1 < RequiredClean THEN "observe"
  ELSE IF AutoPromotion THEN "promote" ELSE "keep"

(* The evaluator, in its order: hard triggers, the override, thresholds    *)
(* once there is evidence, silent devices or a timeout, progress.          *)
Verdicts(row, m) ==
  IF m["hard"] > 0 THEN {"rollback"}
  ELSE IF userPin = Disabled THEN {"suspend"}
  ELSE IF ~Allows(row.ver) THEN {"rollback"}
  ELSE IF Total(m) >= MinInvocations /\ m["failure"] > MaxFailures THEN {"rollback"}
  ELSE {"suspend", Advance(row, Total(m))}

EvaluateDecide(w) ==
  /\ worker[w].step = "metrics"
  /\ \E goal \in Verdicts(worker[w].base, telemetry[worker[w].id]) :
       Decided(w, goal, worker[w].id, worker[w].base)
  /\ UNCHANGED <<rollouts, telemetry, userPin, serving, promotions, failed, rowRaced, manual,
                 crashes, overrides, limit>>

(* The operator rolls back or promotes whatever there is, in any state.    *)
ManualDecide(w, i, goal) ==
  /\ worker[w] = Resting /\ Undisturbed
  /\ Decided(w, goal, i, rollouts[i])
  /\ manual' = manual \cup {i}
  /\ UNCHANGED <<rollouts, telemetry, userPin, serving, promotions, failed, rowRaced, crashes,
                 overrides, limit>>

-----------------------------------------------------------------------------
(* updateRollout(): the row is read whole ...                              *)
UpdateRead(w) ==
  /\ worker[w].step = "update"
  /\ Become(w, [worker[w] EXCEPT !.step = "write", !.copy = rollouts[worker[w].id]])
  /\ UNCHANGED <<rollouts, telemetry, userPin, serving, promotions, failed, rowRaced, manual,
                 crashes, overrides, limit>>

(* ... and written whole, with what the decision changes in it.            *)
Updated(goal, copy, base) ==
  CASE goal = "keep" -> copy
    [] goal = "observe" -> [copy EXCEPT !.state = "observing", !.clean = base.clean + 1]
    [] goal = "suspend" -> [copy EXCEPT !.state = "suspended"]
    [] goal = "rollback" -> [copy EXCEPT !.state = "rolled_back", !.cool = TRUE]
    [] goal = "promote" -> [copy EXCEPT !.state = "promoted"]
    [] OTHER -> [copy EXCEPT !.state = "superseded"]

(* The row has moved since it was read, or since the decision was made.    *)
Progress(row) == <<row.state, row.clean, row.cool>>
Outdated(me) ==
  LET row == rollouts[me.id]
  IN \/ Progress(row) # Progress(me.copy)
     \/ me.goal # "keep" /\ Progress(row) # Progress(me.base)

UpdateWrite(w) ==
  /\ worker[w].step = "write"
  /\ LET me == worker[w]
         i == me.id
     IN /\ rollouts' = [rollouts EXCEPT ![i] = Updated(me.goal, me.copy, me.base)]
        /\ rowRaced' = (rowRaced \/ Outdated(me))
        /\ promotions' = IF me.goal = "promote" THEN Append(promotions, i) ELSE promotions
        /\ failed' = IF me.goal = "rollback" THEN failed \cup {me.base.ver} ELSE failed
        /\ Become(w, IF me.goal \in {"rollback", "promote"}
                     THEN [me EXCEPT !.step = "serve", !.copy = NoRow]
                     ELSE IF me.todo # {} THEN [me EXCEPT !.step = "next", !.copy = NoRow]
                     ELSE Resting)
  /\ UNCHANGED <<telemetry, userPin, serving, manual, crashes, overrides, limit>>

(* Mutant: a rollback leaves its own version active.                       *)
MutRegistrySet(w) ==
  /\ worker[w].step = "serve"
  /\ serving' = worker[w].base.ver
  /\ Become(w, IF worker[w].goal = "promote" THEN [worker[w] EXCEPT !.step = "list"] ELSE Resting)
  /\ UNCHANGED <<rollouts, telemetry, userPin, promotions, failed, rowRaced, manual, crashes,
                 overrides, limit>>

(* The registry is told after the row; a promotion then retires the other  *)
(* rollouts that are not settled, whether older or newer.                  *)
RegistrySet(w) ==
  /\ worker[w].step = "serve"
  /\ LET me == worker[w]
     IN /\ serving' = IF me.goal = "promote" THEN me.base.ver ELSE me.base.prev
        /\ Become(w, IF me.goal = "promote" THEN [me EXCEPT !.step = "list"] ELSE Resting)
  /\ UNCHANGED <<rollouts, telemetry, userPin, promotions, failed, rowRaced, manual, crashes,
                 overrides, limit>>

Others(i) == {j \in RolloutIds \ {i} : rollouts[j].state \in Exposed \cup {"suspended"}}

SupersedeList(w) ==
  /\ worker[w].step = "list"
  /\ LET others == {[id |-> j, row |-> rollouts[j]] : j \in Others(worker[w].id)}
     IN Become(w, IF others = {} THEN Resting
                  ELSE [worker[w] EXCEPT !.step = "next", !.goal = "supersede", !.todo = others])
  /\ UNCHANGED <<rollouts, telemetry, userPin, serving, promotions, failed, rowRaced, manual,
                 crashes, overrides, limit>>

SupersedeNext(w) ==
  /\ worker[w].step = "next"
  /\ \E o \in worker[w].todo :
       Become(w, [worker[w] EXCEPT !.step = "update", !.id = o.id, !.base = o.row,
                                   !.todo = @ \ {o}])
  /\ UNCHANGED <<rollouts, telemetry, userPin, serving, promotions, failed, rowRaced, manual,
                 crashes, overrides, limit>>

-----------------------------------------------------------------------------
(* setUserOverride() and removeUserOverride(): the evaluation that follows *)
(* a new override is EvaluateRead.                                         *)
SetOverride ==
  /\ Undisturbed /\ overrides' = overrides + 1
  /\ \E o \in (Pins \cup {NoOverride, Disabled}) \ {userPin} : userPin' = o
  /\ UNCHANGED <<rollouts, telemetry, serving, promotions, worker, failed, rowRaced, manual,
                 crashes, limit>>

CoolDown(i) ==
  /\ rollouts[i].cool
  /\ rollouts' = [rollouts EXCEPT ![i].cool = FALSE]
  /\ failed' = failed \ {rollouts[i].ver}
  /\ worker' = [w \in Workers |-> [worker[w] EXCEPT !.base.cool = @ /\ worker[w].id # i,
                                                     !.copy.cool = @ /\ worker[w].id # i]]
  /\ UNCHANGED <<telemetry, userPin, serving, promotions, rowRaced, manual, crashes,
                 overrides, limit>>

(* The process ends between two queries; the jobs it had are given to      *)
(* another one or not, which is a new Evaluate or Create.                  *)
RolloutCrash ==
  /\ Undisturbed /\ crashes' = crashes + 1
  /\ worker' = [w \in Workers |-> Resting]
  /\ UNCHANGED <<rollouts, telemetry, userPin, serving, promotions, failed, rowRaced, manual,
                 overrides, limit>>

GoesOn(w) ==
  \/ CreateInsert(w) \/ EventLook(w) \/ EvaluateDecide(w) \/ UpdateRead(w) \/ UpdateWrite(w)
  \/ RegistrySet(w) \/ SupersedeList(w) \/ SupersedeNext(w)

RolloutNext ==
  \/ \E w \in Workers :
       \/ GoesOn(w)
       \/ \E v \in Releases : CreateCheck(w, v) \/ \E s \in Sorts : EventSave(w, v, s)
       \/ \E i \in RolloutIds :
            EvaluateRead(w, i) \/ \E goal \in {"rollback", "promote"} : ManualDecide(w, i, goal)
  \/ SetOverride \/ RolloutCrash
  \/ \E i \in RolloutIds : CoolDown(i)

RolloutSpec == RolloutInit /\ [][RolloutNext]_rolloutVars

-----------------------------------------------------------------------------
Rows == [ver : RolloutVersions, prev : RolloutVersions, clean : 0..RequiredClean,
         state : {"none", "suspended"} \cup Exposed \cup Terminal, cool : BOOLEAN]

(* Every variable has its type.                                            *)
RolloutTypeOK ==
  /\ ToSet(rollouts) \subseteq Rows /\ Len(telemetry) = Len(rollouts)
  /\ ToSet(telemetry) \subseteq [Sorts -> 0..limit.events]
  /\ userPin \in RolloutVersions \cup {NoOverride, Disabled}
  /\ serving \in RolloutVersions /\ ToSet(promotions) \subseteq RolloutIds
  /\ \A w \in Workers : /\ worker[w].base \in Rows /\ worker[w].copy \in Rows
                        /\ worker[w].goal \in Goals
                        /\ worker[w].todo \subseteq [id : RolloutIds, row : Rows]
  /\ failed \subseteq Releases

(* A decision holds.  A rollout that was promoted, rolled back or          *)
(* superseded stays so unless the operator decides on it, and a version    *)
(* that was rolled back is not rolled out again before its cooldown is     *)
(* over, whatever else happened to its row since; unless a write followed  *)
(* an outdated row.                                                        *)
DecisionsHold ==
  [][ ~rowRaced' =>
        /\ \A i \in RolloutIds \ manual :
             rollouts[i].state \in Terminal => rollouts'[i].state = rollouts[i].state
        /\ Len(rollouts') > Len(rollouts) => Last(rollouts').ver \notin failed
    ]_rolloutVars

(* A promotion that nobody ordered comes after RequiredClean evaluations   *)
(* found enough calls and no more failures than the policy allows.         *)
PromotionIsEarned ==
  [][ ~rowRaced' => \A i \in RolloutIds \ manual :
        rollouts[i].state # "promoted" /\ rollouts'[i].state = "promoted" =>
          /\ rollouts[i].clean + 1 >= RequiredClean
          /\ Total(telemetry[i]) >= MinInvocations
    ]_rolloutVars

(* The registry never moves to a version in cooldown, unless the operator  *)
(* took part, a write followed an outdated row, or a version was rolled    *)
(* out twice, as a redelivered publish job may do.                         *)
ServesGoodVersion ==
  [][ (/\ ~rowRaced /\ manual = {} /\ serving' # serving
       /\ \A i, j \in RolloutIds : i # j => rollouts[i].ver # rollouts[j].ver)
        => serving' \notin failed ]_rolloutVars

(* Once a hard signal of the rollout that was exposed last is saved, it is *)
(* exposed only as long as somebody is on the way to roll it back, unless  *)
(* the process ended meanwhile or a write on an outdated row undid it.     *)
HardSignalEndsExposure ==
  ~rowRaced /\ crashes = 0 =>
    \A i \in ExposedIds : i = Len(rollouts) /\ telemetry[i]["hard"] > 0 =>
      \E w \in Workers :
        \/ worker[w].step = "look" /\ worker[w].sort = "hard" /\ worker[w].ver = rollouts[i].ver
        \/ worker[w].step \in {"update", "write"} /\ worker[w].goal = "rollback" /\ worker[w].id = i
=============================================================================
