------------------------------ MODULE MCProver ------------------------------
(* Prover with two tasks *)
EXTENDS Prover

MCTasks == 1 .. 2
=============================================================================
