----------------------------- MODULE MCRelayer -----------------------------
(* Instances of RollupRelayer for TLC. *)
EXTENDS RollupRelayer

=============================================================================
