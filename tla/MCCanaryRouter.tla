--------------------------- MODULE MCCanaryRouter ---------------------------
(* Instances of CanaryRouter for TLC. *)
EXTENDS CanaryRouter, TLC

CONSTANTS s1, SplitCounts1

(* The call counts at which the bucket of the session is in the split. *)
Splits == s1 :> SplitCounts1

Faulty == {{}, {"failed", "violation"}}
MildKinds == {{}, {"slow"}, {"failed"}, {"mismatch"}}

ProcSymmetry == Permutations(Procs)
=============================================================================
