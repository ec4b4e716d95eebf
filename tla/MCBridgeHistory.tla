-------------------------- MODULE MCBridgeHistory --------------------------
(* A deposit that is executed, one that is skipped, and the withdrawals of two
   batches; batch 3 takes the place of batch 1.  Every pair of sequences of a scenario is one the contracts allow. *)
EXTENDS BridgeHistory

Deposit == 1

On(kinds, of) == [k \in DOMAIN kinds |-> Event(kinds[k], of)]

TwoBatches == On(<<"committed", "finalized">>, 1) \o On(<<"committed", "finalized">>, 2)
LateWithdrawal == <<Nothing, Event("withdraw", 1)>>

MCScenarios == {
    [L1 |-> {On(<<"sent", "failedTx">>, Deposit),
             On(<<"nothing", "sent">>, Deposit)},
     L2 |-> {On(<<"failedRelayed", "relayed", "nothing">>, Deposit),
             On(<<"nothing", "relayReverted", "relayed">>, Deposit),
             On(<<"relayed", "relayReverted", "nothing">>, Deposit)}],
    [L1 |-> {On(<<"sent", "skipped", "nothing", "dropped">>, Deposit),
             On(<<"nothing", "sent", "failedTx", "skipped">>, Deposit)},
     L2 |-> {On(<<"failedTx">>, Deposit)}],
    [L1 |-> {On(<<"committed", "finalized", "nothing", "nothing">>, 1),
             On(<<"committed", "reverted", "committed", "finalized">>, 1),
             On(<<"committed", "reverted">>, 1) \o On(<<"committed", "finalized">>, 3),
             On(<<"nothing", "committed", "finalized">>, 3)},
     L2 |-> {LateWithdrawal}],
    [L1 |-> {TwoBatches, On(<<"committed", "reverted", "nothing">>, 1)},
     L2 |-> {<<Event("withdraw", 1), Event("withdraw", 2)>>, LateWithdrawal}],
    [L1 |-> {On(<<"committed", "finalized", "failedRelayed", "relayed">>, 1)},
     L2 |-> {<<Event("withdraw", 1), Event("failedTx", 0)>>}]}

MCDeposits == {Deposit}
MCWithdrawn == <<3, 1>>
MCBatch == <<[index |-> 1, start |-> 1, end |-> 1], [index |-> 2, start |-> 2, end |-> 2],
             [index |-> 1, start |-> 1, end |-> 2]>>
=============================================================================
