--------------------------- MODULE MCCoordinator ---------------------------
(* Instances of Coordinator for TLC: tasks 1..9 are chunks, 11.. batches. *)
EXTENDS Coordinator, TLC

CONSTANTS p1, p2

OneBatch == [c \in Chunks |-> 11]
SelfServed == [h \in Handlers |-> h]
ChunksOnly == [p \in Provers |-> Chunks]
OneForBatches == [p \in Provers |-> IF p = p1 THEN Chunks ELSE Tasks]
ProverSymmetry == Permutations(Provers)

=============================================================================
