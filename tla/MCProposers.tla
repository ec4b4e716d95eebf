---------------------------- MODULE MCProposers ----------------------------
(* Instances of Proposers for TLC. *)
EXTENDS Proposers

\* queue indices in the blocks of a chain: skipped at the start of a
\* block, between blocks and inside a block
MCMessages == {
    << <<0>>, <<>>, <<2>>, <<>>, <<3, 5>> >>,
    << <<1>>, <<>>, <<>>, <<2>>, <<>> >>,
    << <<>>, <<0, 1>>, <<4>>, <<>>, <<>> >>}

\* running sums of block sizes, with lengths of layer 2 transactions; one chain
\* has a block of size 4, and one a block too long for a blob
MCSizes == {
    [upTo |-> <<1, 2, 3, 4, 5>>, txs |-> <<<<1>>, <<>>, <<2, 1>>, <<1>>, <<2>>>>],
    [upTo |-> <<1, 3, 4, 6, 7>>, txs |-> <<<<2>>, <<1, 1>>, <<3>>, <<>>, <<6>>>>],
    [upTo |-> <<2, 4, 5, 6, 8>>, txs |-> <<<<1, 2>>, <<3>>, <<2>>, <<2, 3>>, <<>>>>],
    [upTo |-> <<1, 2, 6, 7, 8>>, txs |-> <<<<>>, <<4>>, <<1>>, <<1>>, <<1>>>>]}

\* encodings whose bytes are all different in a chain
MCTxs(n, lengths) ==
    [j \in DOMAIN lengths |-> [i \in 1 .. lengths[j] |-> 100 * n + 10 * j + i]]

MCChains ==
    {[n \in 1 .. 5 |-> [number |-> n, upTo |-> s.upTo[n], included |-> m[n],
                        txs |-> MCTxs(n, s.txs[n])]] : s \in MCSizes, m \in MCMessages}

\* Bernoulli after other forks, at the genesis block, and at the first block
MCConfigs == {
    [forks |-> {0, 2, 4}, bernoulli |-> 4],
    [forks |-> {0, 3}, bernoulli |-> 3],
    [forks |-> {0}, bernoulli |-> 0],
    [forks |-> {1, 2}, bernoulli |-> 1]}

=============================================================================
