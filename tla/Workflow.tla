------------------------------ MODULE Workflow ------------------------------
(***************************************************************************)
(* One execution of a workflow by the runtime:                             *)
(*   packages/runtime/src/workflow/workflow-executor.ts    WorkflowExecutor*)
(*   packages/runtime/src/workflow/compensation-manager.ts                 *)
(*                                                                         *)
(* Steps are numbered in the order of definition.steps.  A broker call     *)
(* ends well or badly, a condition or a binding may turn out either way,   *)
(* and the caller may abort at any moment.  The caller's callbacks are     *)
(* taken not to throw.                                                     *)
(***************************************************************************)
EXTENDS Naturals, FiniteSets, Sequences, SequencesExt

CONSTANTS
  StepCount,    \* steps of a definition
  Definitions,  \* workflows: dependsOn, failureBehavior "continue", compensation, autoRollback
  MaxRetries,   \* retryPolicy.maxRetries
  MaxParallel   \* maxConcurrency

Steps == 1..StepCount

ASSUME WorkflowAssumption ==
  /\ StepCount \in Nat \ {0} /\ MaxRetries \in Nat /\ MaxParallel \in Nat \ {0}
  /\ \A w \in Definitions :
       /\ w.deps \in [Steps -> SUBSET Steps] /\ w.optional \subseteq Steps
       /\ w.undoable \subseteq Steps /\ w.rollback \in BOOLEAN

VARIABLES
  plan,         \* the definition
  stepAt,       \* stepResults and inFlightStepIds
  tries,        \* attempts of each step
  undoStack,    \* CompensationManager.stack
  unwound,       \* compensationResults
  stopped,      \* the flags workflowFailed and workflowCancelled that are set
  aborted,      \* options.signal.aborted
  wfPhase       \* the main loop, the compensation, or the result

wfVars == <<plan, stepAt, tries, undoStack, unwound, stopped, aborted, wfPhase>>

InFlight == {"starting", "acting", "backoff", "failing", "cancelling"}
Running == {s \in Steps : stepAt[s] \in InFlight}
Finished == {s \in Steps : stepAt[s] \in {"completed", "skipped"}}
Failed == {s \in Steps : stepAt[s] \in {"failed", "cancelled"}}

WfInit ==
  /\ plan \in Definitions
  /\ stepAt = [s \in Steps |-> "waiting"] /\ tries = [s \in Steps |-> 0]
  /\ undoStack = <<>> /\ unwound = <<>>
  /\ stopped = {} /\ aborted = FALSE /\ wfPhase = "run"

Ready == {s \in Steps : stepAt[s] = "waiting" /\ plan.deps[s] \subseteq Finished}
FirstOf(S, n) == {s \in S : Cardinality({r \in S : r < s}) < n}

Looping == wfPhase = "run" /\ Running = {} /\ stopped = {} /\ Finished \cup Failed # Steps

(* The main loop runs a batch of ready steps and waits for all of them ... *)
WfBatch ==
  /\ Looping /\ ~aborted /\ Ready # {}
  /\ stepAt' = [s \in Steps |-> IF s \in FirstOf(Ready, MaxParallel) THEN "starting"
                                ELSE stepAt[s]]
  /\ UNCHANGED <<plan, tries, undoStack, unwound, stopped, aborted, wfPhase>>

(* ... until the caller aborts or the remaining steps cannot become ready. *)
WfBreak ==
  /\ Looping
  /\ \/ aborted /\ stopped' = {"cancelled"}
     \/ ~aborted /\ Ready = {} /\ stopped' = {"failed"}
  /\ UNCHANGED <<plan, stepAt, tries, undoStack, unwound, aborted, wfPhase>>

(* The retry loop is entered again or, after an abort, left.               *)
Attempt(s) ==
  IF aborted THEN stepAt' = [stepAt EXCEPT ![s] = "cancelling"] /\ UNCHANGED tries
  ELSE stepAt' = [stepAt EXCEPT ![s] = "acting"] /\ tries' = [tries EXCEPT ![s] = @ + 1]

Stops(s, why) == stopped' = IF s \in plan.optional THEN stopped ELSE stopped \cup {why}

(* A step is skipped by its condition, fails on its bindings, or begins.   *)
WfStart(s) ==
  /\ stepAt[s] = "starting"
  /\ \/ /\ stepAt' = [stepAt EXCEPT ![s] = "skipped"]
        /\ UNCHANGED <<tries, stopped>>
     \/ /\ stepAt' = [stepAt EXCEPT ![s] = "failed"]
        /\ Stops(s, "failed")
        /\ UNCHANGED tries
     \/ Attempt(s) /\ UNCHANGED stopped
  /\ UNCHANGED <<plan, undoStack, unwound, aborted, wfPhase>>

(* Mutant: a step that ends after another has failed is not registered.    *)
MutWfSucceed(s) ==
  /\ stepAt[s] = "acting"
  /\ stepAt' = [stepAt EXCEPT ![s] = "completed"]
  /\ undoStack' = IF s \in plan.undoable /\ stopped = {} THEN Append(undoStack, s) ELSE undoStack
  /\ UNCHANGED <<plan, tries, unwound, stopped, aborted, wfPhase>>

(* The action succeeds, after an abort too: its compensation is stacked.   *)
WfSucceed(s) ==
  /\ stepAt[s] = "acting"
  /\ stepAt' = [stepAt EXCEPT ![s] = "completed"]
  /\ undoStack' = IF s \in plan.undoable THEN Append(undoStack, s) ELSE undoStack
  /\ UNCHANGED <<plan, tries, unwound, stopped, aborted, wfPhase>>

(* It fails: a backoff while the budget lasts and nobody aborted.          *)
WfError(s) ==
  /\ stepAt[s] = "acting"
  /\ stepAt' = [stepAt EXCEPT ![s] = IF aborted THEN "cancelling"
                                     ELSE IF tries[s] <= MaxRetries THEN "backoff" ELSE "failing"]
  /\ UNCHANGED <<plan, tries, undoStack, unwound, stopped, aborted, wfPhase>>

WfRetry(s) ==
  /\ stepAt[s] = "backoff"
  /\ Attempt(s)
  /\ UNCHANGED <<plan, undoStack, unwound, stopped, aborted, wfPhase>>

(* The failure was reported: only now the flags are set, by the signal as  *)
(* it is then.                                                             *)
WfFail(s) ==
  /\ stepAt[s] \in {"failing", "cancelling"}
  /\ stepAt' = [stepAt EXCEPT ![s] = IF @ = "failing" THEN "failed" ELSE "cancelled"]
  /\ Stops(s, IF aborted THEN "cancelled" ELSE "failed")
  /\ UNCHANGED <<plan, tries, undoStack, unwound, aborted, wfPhase>>

(* The loop is over.  A workflow that failed or was cancelled unwinds the  *)
(* stack if its policy says so.                                            *)
WfSettle ==
  /\ wfPhase = "run" /\ Running = {}
  /\ stopped # {} \/ Finished \cup Failed = Steps
  /\ wfPhase' = IF stopped # {} /\ plan.rollback /\ undoStack # <<>> THEN "undo" ELSE "done"
  /\ UNCHANGED <<plan, stepAt, tries, undoStack, unwound, stopped, aborted>>

(* Mutant: the unwinding goes in the order of completion.                  *)
MutWfUndo(ok) ==
  /\ wfPhase = "undo" /\ undoStack # <<>>
  /\ unwound' = Append(unwound, [step |-> Head(undoStack), ok |-> ok])
  /\ undoStack' = Tail(undoStack)
  /\ UNCHANGED <<plan, stepAt, tries, stopped, aborted, wfPhase>>

(* One compensation, which may fail; the next one follows all the same.    *)
WfUndo(ok) ==
  /\ wfPhase = "undo" /\ undoStack # <<>>
  /\ unwound' = Append(unwound, [step |-> Last(undoStack), ok |-> ok])
  /\ undoStack' = Front(undoStack)
  /\ UNCHANGED <<plan, stepAt, tries, stopped, aborted, wfPhase>>

WfReport ==
  /\ wfPhase = "undo" /\ undoStack = <<>>
  /\ stepAt' = [s \in Steps |-> IF [step |-> s, ok |-> TRUE] \in ToSet(unwound) THEN "compensated"
                                ELSE stepAt[s]]
  /\ wfPhase' = "done"
  /\ UNCHANGED <<plan, tries, undoStack, unwound, stopped, aborted>>

(* The caller aborts.                                                      *)
WfAbort ==
  /\ ~aborted /\ wfPhase # "done"
  /\ aborted' = TRUE
  /\ UNCHANGED <<plan, stepAt, tries, undoStack, unwound, stopped, wfPhase>>

WfStep(s) == WfStart(s) \/ WfSucceed(s) \/ WfError(s) \/ WfRetry(s) \/ WfFail(s)
WfGoesOn ==
  \/ WfBatch \/ WfBreak \/ WfSettle \/ WfReport
  \/ \E ok \in BOOLEAN : WfUndo(ok)
  \/ \E s \in Steps : WfStep(s)

WfNext == WfGoesOn \/ WfAbort

(* Broker calls and timers end, and the executor's promises run on.        *)
WfSpec == WfInit /\ [][WfNext]_wfVars /\ WF_wfVars(WfGoesOn)

Outcome ==
  CASE "cancelled" \in stopped -> "cancelled"
    [] "failed" \in stopped /\ "cancelled" \notin stopped -> "failed"
    [] OTHER -> "completed"
-----------------------------------------------------------------------------
(* Every variable has its type, and no step is tried beyond its budget.    *)
WfTypeOK ==
  /\ plan \in Definitions
  /\ stepAt \in [Steps -> InFlight \cup {"waiting", "completed", "skipped", "failed",
                                         "cancelled", "compensated"}]
  /\ tries \in [Steps -> 0..(MaxRetries + 1)]
  /\ undoStack \in Seq(Steps) /\ unwound \in Seq([step : Steps, ok : BOOLEAN])
  /\ stopped \subseteq {"failed", "cancelled"} /\ aborted \in BOOLEAN
  /\ wfPhase \in {"run", "undo", "done"}

(* All that a step rests on, directly or not.                              *)
Needs(s) ==
  {t \in Steps : \A C \in SUBSET Steps :
     (plan.deps[s] \subseteq C /\ \A c \in C : plan.deps[c] \subseteq C) => t \in C}

(* The work is undone backwards: nothing is undone while a step still      *)
(* runs, only steps that were completed are undone, each once, and a step  *)
(* never after one that it rests on, although the steps of a batch end in  *)
(* any order, some of them after the failure or the abort                  *)
(* (compensation-manager.ts executeCompensation, registerStep).            *)
UndoneInReverse ==
  /\ unwound # <<>> => Running = {}
  /\ \A i \in DOMAIN unwound :
       /\ stepAt[unwound[i].step] \in {"completed", "compensated"}
       /\ \A j \in DOMAIN unwound : i < j =>
            unwound[i].step # unwound[j].step /\ unwound[i].step \notin Needs(unwound[j].step)

(* A workflow that failed or was cancelled has tried to undo every         *)
(* completed step that can be undone, if its policy says so, and one that  *)
(* completed has undone none and lacks only steps that were allowed to     *)
(* fail; only an abort cancels.                                            *)
Whole ==
  /\ {unwound[i].step : i \in DOMAIN unwound} =
       IF Outcome # "completed" /\ plan.rollback
       THEN {s \in plan.undoable : stepAt[s] \in {"completed", "compensated"}} ELSE {}
  /\ Outcome = "completed" => Failed \subseteq plan.optional /\ Finished \cup Failed = Steps
  /\ Outcome = "cancelled" => aborted

(* Every execution ends, and its result is true.                           *)
EndsWhole == <>(wfPhase = "done" /\ Whole)
=============================================================================
