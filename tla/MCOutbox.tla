------------------------------ MODULE MCOutbox ------------------------------
(* Instances of Outbox for TLC: events are numbered, batches are model     *)
(* values given in the cfg files.                                          *)
EXTENDS Outbox
=============================================================================
