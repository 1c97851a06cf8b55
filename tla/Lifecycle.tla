----------------------------- MODULE Lifecycle -----------------------------
(***************************************************************************)
(* The lifecycle of one evolution candidate: evolution/lifecycle/          *)
(* orchestrator.ts and recordTransition of its repository.  A step reads   *)
(* the candidate's row, awaits a service and writes the row with the       *)
(* revision, state and attempt it had read.  The HTTP routes, the queue    *)
(* handlers and the generator of apps/cloud/src/index.ts call the steps    *)
(* without a lock, so several runs of any step may be open at once.        *)
(***************************************************************************)
EXTENDS Naturals, FiniteSets

CONSTANTS
  Procs,             \* runs open at once
  MaxRevs,           \* bound: revisions saved
  MaxAttempt,        \* bound: the attempt counter
  MaxRepairs,        \* maxRepairAttempts of repairCandidate (3)
  ValidationRepairs, \* attempts after which stepValidate repairs no more (2)
  RetryBudget        \* classifyError: attempts a transient error is retried at

ASSUME LifecycleAssumption ==
  /\ MaxRevs \in Nat /\ MaxAttempt \in Nat \ {0} /\ MaxRepairs \in Nat \ {0}
  /\ ValidationRepairs \in Nat /\ RetryBudget \in Nat

Revs == 1..MaxRevs   \* in the order they are saved; 0 is no revision
Stages == {"validation", "replay", "evaluation"}
Kinds == Stages \cup {"publication"}
Verdicts == {"none", "pass", "conditional", "fail"}
Settled == {"published", "rejected", "failed", "dead_letter"}
States == {"none", "drafted", "validating", "replaying", "evaluating", "eligible"} \cup Settled
Repairing == {"repair", "child", "commit", "again"}   \* where a validation waits while it repairs
Steps == {"validate", "replay", "evaluate", "publish"}
Places == {"idle", "target", "start", "options", "persist", "record"} \cup Steps \cup Repairing
Rows == [state : States, rev : 0..MaxRevs, attempt : 0..MaxAttempt, results : [Kinds -> Verdicts]]

NoResults == [k \in Kinds |-> "none"]
NoRow == [state |-> "none", rev |-> 0, attempt |-> 0, results |-> NoResults]
Idle == [pc |-> "idle", rev |-> 0, state |-> "none", tries |-> 0, evidence |-> {},
         again |-> [rev |-> 0, attempt |-> 0]]
Runs == [pc : Places, rev : 0..MaxRevs, state : States, tries : Nat, evidence : SUBSET Stages,
         again : [rev : 0..MaxRevs, attempt : 0..MaxAttempt]]

VARIABLES
  row,       \* candidate_lifecycle_states: the candidate's row
  number,    \* saved revisions: revisionNumber (0: not saved)
  repairs,   \* saved revisions: lifecycle repairs they descend from
  events,    \* steps the outbox holds an event for
  artifacts, \* revisions published as tool versions
  run,       \* each run: where it waits, the revision, state and attempt of the row
             \* it read, the verdicts it uses of it, and what a repair works with
  passed,    \* history: the revisions each service passed
  current,   \* history: open runs whose row has not changed since they read it
  overtaken  \* history: whether a run has acted on a row that had changed

vars == <<row, number, repairs, events, artifacts, run, passed, current, overtaken>>
dataVars == <<number, repairs, artifacts>>
historyVars == <<passed, current, overtaken>>

TypeOK ==
  /\ row \in Rows
  /\ number \in [Revs -> Nat] /\ repairs \in [Revs -> Nat]
  /\ events \subseteq Steps \cup {"published"}
  /\ artifacts \subseteq Revs
  /\ run \in [Procs -> Runs]
  /\ passed \in [Stages -> SUBSET Revs]
  /\ current \subseteq Procs /\ overtaken \in {"no", "yes"}

Init ==
  /\ row = NoRow
  /\ number = [r \in Revs |-> 0]
  /\ repairs = [r \in Revs |-> 0]
  /\ events = {}
  /\ artifacts = {}
  /\ run = [p \in Procs |-> Idle]
  /\ passed = [s \in Stages |-> {}]
  /\ current = {}
  /\ overtaken = "no"
-----------------------------------------------------------------------------
(* The verdicts a transition keeps: those it does not give, unless it      *)
(* changes the revision of the row it finds.                               *)
MutKept(rev, k) == row.results[k]
Kept(rev, k) == IF rev = row.rev THEN row.results[k] ELSE "none"

Acts(p) == overtaken' = IF p \in current THEN overtaken ELSE "yes"

(* recordTransition: the row becomes what the run p says, whatever it is   *)
(* now.  Its read of the row and its upsert are one step: a write between  *)
(* them changes only which verdicts of the same revision are kept.         *)
Record(p, rev, state, attempt, kinds, verdict) ==
  /\ attempt <= MaxAttempt
  /\ row' = [state |-> state, rev |-> rev, attempt |-> attempt,
             results |-> [k \in Kinds |-> IF k \in kinds THEN verdict ELSE Kept(rev, k)]]
  /\ Acts(p)

(* A write makes what the other runs have read of the row outdated. *)
End(p) ==
  /\ run' = [run EXCEPT ![p] = Idle]
  /\ current' = (IF row' = row THEN current ELSE {}) \ {p}
Wait(p, place) ==
  /\ run' = [run EXCEPT ![p].pc = place]
  /\ current' = IF row' = row THEN current ELSE {p}
Emit(step) == events' = events \cup {step}
Passes(stage, rev) == passed' = [passed EXCEPT ![stage] = @ \cup {rev}]

Saved == {r \in Revs : number[r] > 0}
Fresh(r) == r \in Revs \ Saved /\ \A q \in Revs : q < r => q \in Saved
Latest(r) == r \in Saved /\ \A q \in Saved : number[q] <= number[r]
-----------------------------------------------------------------------------
(* candidate.generate: the generator saves a revision for the candidate    *)
(* and starts its lifecycle.                                               *)
Generate(p, r) ==
  /\ run[p].pc = "idle"
  /\ Fresh(r)
  /\ number' = [number EXCEPT ![r] = 1]
  /\ run' = [run EXCEPT ![p] = [Idle EXCEPT !.pc = "target", !.rev = r]]
  /\ UNCHANGED <<row, repairs, events, artifacts, historyVars>>

(* The publish route starts the lifecycle of the latest revision.          *)
TakeLatest(p, r) ==
  /\ run[p].pc = "idle"
  /\ Latest(r)
  /\ run' = [run EXCEPT ![p] = [Idle EXCEPT !.pc = "target", !.rev = r]]
  /\ UNCHANGED <<row, events, dataVars, historyVars>>

(* ensureOutboxForState: the event of a row that waits for a step.         *)
Ensured ==
  CASE row.state = "drafted" -> {"validate"}
    [] row.state = "replaying" -> {"replay"}
    [] row.state = "evaluating" -> {"evaluate"}
    [] row.state = "eligible" -> {"publish"}
    [] OTHER -> {}

StartRead(p) ==
  /\ run[p].pc = "target"
  /\ UNCHANGED <<row, dataVars, passed, overtaken>>
  /\ \/ /\ row.rev = run[p].rev
        /\ End(p)
        /\ events' = events \cup Ensured
     \/ /\ row.rev # run[p].rev
        /\ run' = [run EXCEPT ![p].pc = "start", ![p].state = row.state, ![p].tries = row.attempt]
        /\ current' = current \cup {p}
        /\ UNCHANGED events

(* The first start drafts the row, a later one takes it to validating and  *)
(* clears every verdict; both with the event of the validation.            *)
StartWrite(p) ==
  /\ run[p].pc = "start"
  /\ \/ run[p].state = "none" /\ Record(p, run[p].rev, "drafted", 1, {}, "none")
     \/ run[p].state # "none" /\ Record(p, run[p].rev, "validating", run[p].tries + 1, Kinds, "none")
  /\ Emit("validate")
  /\ End(p)
  /\ UNCHANGED <<dataVars, passed>>
-----------------------------------------------------------------------------
(* The states a step works in.  In the others it returns, or throws, before*)
(* it changes anything.                                                    *)
MutWorksIn(step) == States \ {"none", "published"}
WorksIn(step) ==
  CASE step = "validate" -> {"drafted", "validating"}
    [] step = "replay" -> {"drafted", "validating", "replaying"}
    [] step = "evaluate" -> {"drafted", "validating", "replaying", "evaluating"}
    [] step = "publish" -> {"eligible"}

(* What a step uses of the verdicts it reads: the hard gates ask for those *)
(* of validation and replay, publishCandidate refuses a failed evaluation. *)
Evidence(step) ==
  CASE step = "evaluate" -> {s \in {"validation", "replay"} : row.results[s] = "pass"}
    [] step = "publish" -> {s \in {"evaluation"} : row.results[s] # "fail"}
    [] OTHER -> {}

Reads(p, step, attempt) ==
  /\ run' = [run EXCEPT ![p] = [Idle EXCEPT !.pc = step, !.rev = row.rev, !.state = row.state,
                                            !.tries = attempt, !.evidence = Evidence(step)]]
  /\ current' = current \cup {p}

Begin(p, step) ==
  /\ run[p].pc = "idle"
  /\ row.state \in WorksIn(step)
  /\ step = "evaluate" => row.results["validation"] # "none"
  /\ step = "publish" => row.results["evaluation"] # "none"
  /\ Reads(p, step, row.attempt)
  /\ UNCHANGED <<row, events, dataVars, passed, overtaken>>

(* A service answered: the run p writes its verdict on the revision it had *)
(* read and the state that follows.                                        *)
Answer(p, state, stage, verdict) ==
  /\ Record(p, run[p].rev, state, run[p].tries, {stage}, verdict)
  /\ End(p)
  /\ UNCHANGED dataVars

ValidatePass(p) ==
  /\ run[p].pc = "validate"
  /\ Answer(p, "replaying", "validation", "pass")
  /\ Passes("validation", run[p].rev)
  /\ Emit("replay")

(* Not repairable, or the attempts to repair it found no revision. *)
ValidateFail(p) ==
  /\ run[p].pc \in {"validate", "repair"}
  /\ Answer(p, "failed", "validation", "fail")
  /\ UNCHANGED <<events, passed>>

ReplayPass(p) ==
  /\ run[p].pc = "replay"
  /\ Answer(p, "evaluating", "replay", "pass")
  /\ Passes("replay", run[p].rev)
  /\ Emit("evaluate")

ReplayDiverge(p) ==
  /\ run[p].pc = "replay"
  /\ Answer(p, "rejected", "replay", "fail")
  /\ UNCHANGED <<events, passed>>

MutGates(p) == "validation" \in run[p].evidence
Gates(p) == {"validation", "replay"} \subseteq run[p].evidence

MutEvaluatePass(p) ==
  /\ run[p].pc = "evaluate"
  /\ Gates(p)
  /\ Answer(p, "eligible", "evaluation", "pass")
  /\ Passes("evaluation", run[p].rev)
  /\ UNCHANGED events
EvaluatePass(p) ==
  /\ run[p].pc = "evaluate"
  /\ Gates(p)
  /\ Answer(p, "eligible", "evaluation", "pass")
  /\ Passes("evaluation", run[p].rev)
  /\ Emit("publish")

EvaluateReject(p) ==
  /\ run[p].pc = "evaluate"
  /\ \E verdict \in {"conditional", "fail"} : Answer(p, "rejected", "evaluation", verdict)
  /\ UNCHANGED <<events, passed>>
-----------------------------------------------------------------------------
(* publishCandidate commits the tool version in a transaction of its own;  *)
(* it refuses an evaluation that failed.                                   *)
PublishArtifact(p) ==
  /\ run[p].pc = "publish"
  /\ "evaluation" \in run[p].evidence
  /\ artifacts' = artifacts \cup {run[p].rev}
  /\ UNCHANGED <<row, number, repairs, events, historyVars>>
  /\ Wait(p, "record")

PublishRecord(p) ==
  /\ run[p].pc = "record"
  /\ Answer(p, "published", "publication", "pass")
  /\ Emit("published")
  /\ UNCHANGED passed
-----------------------------------------------------------------------------
(* A repairable validation asks the model for a repaired revision.         *)
RepairBegin(p) ==
  /\ run[p].pc = "validate"
  /\ run[p].tries <= ValidationRepairs
  /\ UNCHANGED <<row, events, dataVars, historyVars>>
  /\ Wait(p, "repair")

(* repairCandidate reads the row again, whatever its state is now.         *)
RepairRead(p) ==
  /\ run[p].pc = "repair"
  /\ run' = [run EXCEPT ![p].pc = "child",
                        ![p].again = [rev |-> row.rev, attempt |-> row.attempt]]
  /\ current' = current \cup {p}
  /\ Acts(p)
  /\ UNCHANGED <<row, events, dataVars, passed>>

(* The budget is exhausted, or the child would broaden the capabilities.   *)
RepairRefuse(p) ==
  /\ run[p].pc = "child"
  /\ Record(p, run[p].again.rev, "failed", run[p].again.attempt, {}, "none")
  /\ Wait(p, "again")
  /\ UNCHANGED <<events, dataVars, passed>>

SaveChild(p, r) ==
  /\ run[p].pc = "child"
  /\ run[p].again.attempt < MaxRepairs
  /\ Fresh(r)
  /\ LET parent == run[p].again.rev IN
     /\ number' = [number EXCEPT ![r] = number[parent] + 1]
     /\ repairs' = [repairs EXCEPT ![r] = repairs[parent] + 1]
  /\ run' = [run EXCEPT ![p].pc = "commit", ![p].again.rev = r]
  /\ UNCHANGED <<row, events, artifacts, historyVars>>

MutNextAttempt(attempt) == attempt
NextAttempt(attempt) == attempt + 1

CommitChild(p) ==
  /\ run[p].pc = "commit"
  /\ Record(p, run[p].again.rev, "validating", NextAttempt(run[p].again.attempt), {}, "none")
  /\ Emit("validate")
  /\ Wait(p, "again")
  /\ UNCHANGED <<dataVars, passed>>

(* stepValidate calls itself for whatever the row is now, with an attempt  *)
(* counted from its own.                                                   *)
Revalidate(p) ==
  /\ run[p].pc = "again"
  /\ UNCHANGED <<row, dataVars, passed>>
  /\ \/ /\ row.state \in WorksIn("validate")
        /\ Reads(p, "validate", run[p].tries + 1)
        /\ Acts(p)
        /\ UNCHANGED events
     \/ /\ row.state \notin WorksIn("validate")
        /\ End(p)
        /\ events' = events \cup Ensured
        /\ UNCHANGED overtaken
-----------------------------------------------------------------------------
(* An error in a call without a catch clause reaches the caller and writes *)
(* nothing; so does one before the try block of a step, which is a step    *)
(* not begun.                                                              *)
Quit(p) ==
  /\ run[p].pc \in {"target", "start", "options", "persist", "again"}
  /\ UNCHANGED <<row, events, dataVars, passed, overtaken>>
  /\ End(p)

(* The catch clauses: a transient error writes back the state that was     *)
(* read with one more attempt, any other one settles the candidate.        *)
Failing == {"record"} \cup Steps \cup (Repairing \ {"again"})

Retry(p) ==
  /\ run[p].pc \in Failing
  /\ run[p].tries <= RetryBudget
  /\ Record(p, run[p].rev, run[p].state, run[p].tries + 1, {}, "none")
  /\ End(p)
  /\ UNCHANGED <<events, dataVars, passed>>

GivesUpIn(pc) ==
  CASE pc \in {"replay", "evaluate"} -> {"dead_letter"}
    [] pc \in {"publish", "record"} -> {"failed"}
    [] OTHER -> {"failed", "dead_letter"}

GiveUp(p) ==
  /\ run[p].pc \in Failing
  /\ \E state \in GivesUpIn(run[p].pc) :
       Record(p, run[p].rev, state, run[p].tries, {}, "none")
  /\ End(p)
  /\ UNCHANGED <<events, dataVars, passed>>
-----------------------------------------------------------------------------
(* The replay route persists benchmark options for a row it found          *)
(* replaying; persistReplayOptions reads the row again and writes it back. *)
OptionsCheck(p) ==
  /\ run[p].pc = "idle"
  /\ row.state = "replaying"
  /\ UNCHANGED <<row, events, dataVars, historyVars>>
  /\ Wait(p, "options")

OptionsRead(p) ==
  /\ run[p].pc = "options"
  /\ Reads(p, "persist", row.attempt)
  /\ UNCHANGED <<row, events, dataVars, passed, overtaken>>

OptionsWrite(p) ==
  /\ run[p].pc = "persist"
  /\ Record(p, run[p].rev, run[p].state, run[p].tries, {}, "none")
  /\ End(p)
  /\ UNCHANGED <<events, dataVars, passed>>
-----------------------------------------------------------------------------
Start(p) == StartRead(p) \/ StartWrite(p) \/ \E r \in Revs : Generate(p, r) \/ TakeLatest(p, r)
Work(p) ==
  \/ \E step \in Steps : Begin(p, step)
  \/ ValidatePass(p) \/ ValidateFail(p) \/ ReplayPass(p) \/ ReplayDiverge(p)
  \/ EvaluatePass(p) \/ EvaluateReject(p) \/ PublishArtifact(p) \/ PublishRecord(p)
Repair(p) ==
  \/ RepairBegin(p) \/ RepairRead(p) \/ RepairRefuse(p) \/ CommitChild(p) \/ Revalidate(p)
  \/ \E r \in Revs : SaveChild(p, r)
Fault(p) == Quit(p) \/ Retry(p) \/ GiveUp(p)
Options(p) == OptionsCheck(p) \/ OptionsRead(p) \/ OptionsWrite(p)

Next == \E p \in Procs : Start(p) \/ Work(p) \/ Repair(p) \/ Fault(p) \/ Options(p)

Spec == Init /\ [][Next]_vars
-----------------------------------------------------------------------------
(* A passing verdict in the row was given to the row's own revision and a  *)
(* recorded publication has its artifact: stale writes bring verdicts of   *)
(* another revision neither with them nor over (orchestrator.ts 425-430,   *)
(* "so that Revision A evidence cannot promote/publish Revision B").       *)
EvidenceIsOfActiveRevision ==
  /\ \A s \in Stages : row.results[s] = "pass" => row.rev \in passed[s]
  /\ row.results["publication"] = "pass" => row.rev \in artifacts

(* Only a revision that itself passed validation, replay and evaluation    *)
(* becomes a tool version, whatever runs overlap, retry or repair.         *)
Vetted(rev) == \A s \in Stages : rev \in passed[s]
OnlyVettedPublished == \A r \in artifacts : Vetted(r)

(* The outbox holds an event of the step a row waits for: a state and its  *)
(* event are written in one transaction (atomicTransitionWithOutbox), and  *)
(* a state that is written back had its event before.                      *)
Announced(state) ==
  /\ state \in {"drafted", "validating"} => "validate" \in events
  /\ state = "replaying" => "replay" \in events
  /\ state = "evaluating" => "evaluate" \in events
  /\ state = "eligible" => "publish" \in events
  /\ state = "published" => "published" \in events
WaitingHasEvent == Announced(row.state)

(* "at most 2 validation-driven repairs per candidate" (orchestrator.ts    *)
(* 933), over all runs and restarts: every repair costs an attempt of the  *)
(* row, and no revision descends from more repairs than the budget, unless *)
(* a run acted on a row that had changed meanwhile.                        *)
RepairsAreBounded ==
  overtaken = "no" =>
    /\ \A r \in Revs : repairs[r] < MaxRepairs
    /\ \A r \in Revs : r = row.rev => repairs[r] < row.attempt

(* "Monotonic progression" (orchestrator.ts 796): unless a run acted on a  *)
(* row that had changed meanwhile, the state of a revision never goes back *)
(* and a settled candidate is left only by a new revision.                 *)
Rank(state) ==
  CASE state = "none" -> 0
    [] state = "drafted" -> 1
    [] state = "validating" -> 2
    [] state = "replaying" -> 3
    [] state = "evaluating" -> 4
    [] state = "eligible" -> 5
    [] OTHER -> 6
ProgressIsMonotonic ==
  [][overtaken' = "no" /\ row'.rev = row.rev =>
       /\ Rank(row.state) <= Rank(row'.state)
       /\ row.state \in Settled => row' = row]_vars
=============================================================================
