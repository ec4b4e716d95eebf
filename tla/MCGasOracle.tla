---------------------------- MODULE MCGasOracle ----------------------------
(* Instances of GasOracle for TLC. *)
EXTENDS GasOracle

MCSuggested == [s \in Services |-> IF s \in Oracles THEN {1} ELSE {1, 2}]
MCBaseFees == [s \in Services |-> CASE s = "L1GasOracle" -> {2}
                                    [] s = "L2GasOracle" -> {1}
                                    [] OTHER -> {0, 3}]
MCBlobBaseFees == [s \in Services |-> IF s \in Oracles THEN {0} ELSE {1, 2}]
MCPrices == {19, 20, 22}

=============================================================================
