----------------------------- MODULE MCRollouts -----------------------------
(***************************************************************************)
(* One instance of two modules for TLC: the gateway's canary router and    *)
(* the cloud's rollouts.  They share no variables: a behaviour is one of   *)
(* the first or one of the second.                                         *)
(***************************************************************************)
EXTENDS MCCanaryRouter, Rollout

VARIABLE part
MCVars == <<part, vars, rolloutVars>>

(* Two rollouts that overlap, or one that is disturbed by an override, by  *)
(* the operator or by the end of the process.                              *)
RolloutLimits == {[rollouts |-> 2, events |-> 1, disturbances |-> 0],
                  [rollouts |-> 1, events |-> 2, disturbances |-> 1]}

MCInit ==
  /\ part \in {"router", "rollout"} /\ Init /\ RolloutInit
  /\ part = "router" => limit.rollouts = 1

InRouter(A) == part = "router" /\ A /\ UNCHANGED <<part, rolloutVars>>
InRollout(A) == part = "rollout" /\ A /\ UNCHANGED <<part, vars>>

(* The type invariants of both.                                            *)
TypesOK == TypeOK /\ RolloutTypeOK

MCSpec == MCInit /\ [][InRouter(Next) \/ InRollout(RolloutNext)]_MCVars

Symmetric ==
  ProcSymmetry \cup Permutations(Candidates) \cup Permutations(Workers) \cup Permutations(Releases)
=============================================================================
