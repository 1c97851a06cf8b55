---------------------------- MODULE MCWorkQueue ----------------------------
(* Instances of WorkQueue for TLC; the values are in the cfg files. *)
EXTENDS WorkQueue
=============================================================================
