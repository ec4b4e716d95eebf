------------------------------ MODULE MCSender ------------------------------
(* Instances of Sender for TLC. *)
EXTENDS Sender, TLC

CONSTANTS c1, c2

TwoContexts == {c1, c2}
OneContext == {c1}
OneFee == {1}

ContextSymmetry == Permutations(TwoContexts)

=============================================================================
