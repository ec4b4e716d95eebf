# A TLA+ model of Scroll

Scroll is a zkRollup: layer 2 blocks are grouped into chunks, chunks into batches; provers
prove chunks and batches; a relayer commits the batches to a contract on layer 1 and finalizes
them with the proofs; a history service shows users their deposits and withdrawals. This
directory models these services and contracts, checks the models with TLC on small instances
and proves the most important properties with TLAPS for every instance.

## The system

| Part | State | Operations | Interacts with | Module |
|---|---|---|---|---|
| coordinator (`coordinator/`) | tables `chunk`, `batch` (proving columns), `prover_task` | `get_task`, `submit_proof`, cron jobs for timeouts and ready batches | provers over HTTP; batch proposer through the tables | `Coordinator` |
| prover client (`prover/`) | a stack of tasks on disk, a session | log in, fetch, prove, submit | coordinator | `Prover` |
| layer 2 watcher and proposers (`rollup/internal/controller/watcher`) | tables `l2_block`, `chunk`, `batch` | fetch blocks, propose chunk, propose batch | layer 2 node; relayer and coordinator through the tables | `Proposers` |
| codecs (`common/types/encoding`) | none | encode and hash chunks and batches, calldata and blobs | proposers, relayer, contract | `Codec`, `BlobSize` |
| layer 2 relayer (`.../relayer/l2_relayer.go`) | `batch.rollup_status`, oracle columns | commit pending batches, finalize proved ones, take confirmations; gas oracle; genesis import | senders; the event watcher through the column | `RollupRelayer`, `GasOracle` |
| layer 1 relayer (`.../relayer/l1_relayer.go`) | oracle columns of `l1_block` | update the fee oracle on layer 2 | a sender | `GasOracle` |
| event watcher (`.../watcher/l1_watcher.go`) | `batch.rollup_status`, table `l1_block` | read rollup events, read layer 1 headers | layer 1 node | `RollupRelayer`, `GasOracle` |
| sender (`.../sender`) | table `pending_transaction`, nonce, channel of confirmations | send, check, replace with higher fees, confirm | node; its relayer | `Sender`, `TxService`, `Fees` |
| `ScrollChain`, `L1MessageQueue` | committed batches, queue, bitmap of skipped messages | commit, revert, finalize, append, pop, drop | relayer, messenger | `ScrollChain`, `Codec` |
| `L1ScrollMessenger` | sent, replayed, dropped messages | send, replay, drop | queue, layer 2 messenger | `L1ScrollMessenger` |
| `L2MessageQueue` | withdraw trie | append | layer 1 messenger, history service | `WithdrawTrie` |
| bridge-history-api | tables of cross messages and batch events | fetch events of both layers, handle reorganisations, compute withdrawal proofs | both nodes | `BridgeHistory` |
| gateways, rate limiters, `common/`, `database/` | tokens, limits | | | not modelled, see below |

Every service is several goroutines around a database: API handlers and cron jobs of the
coordinator, the loops of the relayer, the check loop of a sender, two fetchers. There are few
transactions, so almost every operation is a read, a decision and a later write, and other
goroutines run in between. The relayer and the event watcher are separate processes that write
the same column. Services restart at any moment and only the database, or a file, survives.
Layer 1 reorganises, nodes drop transactions, requests and answers get lost. The contracts run
one transaction at a time, but their operations come in any order.

What makes it correct, in terms of this state:

- proving attempts stay within the configuration and are given back, or have cost the failing
  statements that lost them; a verified task has the proof; no batch is handed out before its chunks are proved; every open attempt is closed;
- a prover neither loses a task it was given nor proves one for ever;
- a pending transaction is replaced only by a dearer one; what is recorded as confirmed or
  failed is what the chain settled; the relayer is told the chain's verdict, at most once;
- a rollup status says something true about the contract, and proved batches are finalized, but
  for the ways to get stuck that `BatchesRollUp` lists;
- the oracle contracts come to show the price of the other layer;
- blocks, chunks and batches are partitions that respect forks, the contract computes the
  headers the database has, and every block ends in a batch unless a limit stops a proposer;
- committed batches form a chain, finalized ones are final, the message queue moves with them,
  and a message is either executed on layer 2 or refunded on layer 1, never both;
- the history misses no event, but for three exceptions, and the withdrawal proofs it hands out
  verify.

`PROJECT.json` lists every part with its status, the hazards with the lines where they bite,
and for every definition the lines it models.

## Modules

    Coordinator <- Coordinator_proofs        Prover <- Prover_proofs
    Sender <- Sender_proofs                  Sender --implements--> TxService
    RollupRelayer <- RollupRelayer_proofs    RollupRelayer uses two instances of TxService
    Fees <- GasOracle
    BlobSize <- BlobSize_proofs              BlobSize <- Codec <- Proposers
    ScrollChain <- L1ScrollMessenger <- ScrollChain_proofs
    WithdrawTrie <- BridgeHistory
    MCBridgeHistory, MCCoordinator, MCGasOracle, MCMessenger, MCProposers, MCProver,
    MCRelayer, MCSender: instances for TLC

In all modules a *variant* is a definition, marked as such in its comment, that changes the one
after it the way a plausible bug would; `PROJECT.json` ("mutants") says which property notices
it. Variants are used nowhere else.

### Coordinator

State: the proving columns of `chunk` and `batch` (`task`), `chunk_proofs_status`, the
`prover_task` table (a row's uuid is its position), the control point and the locals of every
request goroutine, and what the cron goroutines have read. A step is one SQL statement or one
read. `Assign` is parameter check, two selects in a retry loop, the compare-and-swap on both
attempt counters, insert, format, and recovery. `HandleZkProof` is validation, verification and
`updateProofStatus`, which takes three steps (`TxBegin`, `TxCheck`, `TxCommit`) with the row
locks PostgreSQL holds in between, because it reads through another connection half-way; then
come the check and the update of the batch. `TimeoutScan`/`TimeoutCheck` and
`BatchReadyScan`/`BatchReadyUpdate` are the collector. Any database call may fail (`MaxFaults`),
the API server and the cron server may restart (`MaxCrashes`).

Assumed: a prover submits under its own task id and sends one request at a time, as the client
does; the transaction takes its two row locks at once (nobody takes them in the other order);
proof contents are reduced to the verifier's verdict; the `proof` column of `prover_task`, which
nothing reads, is left out. Age is a free choice: the timeout scan may return any assigned rows.

### Prover

The loop of the client (`peek`, `get_task`, `push`, `update`, `prove`, `submit_proof`), the stack
in its bbolt file with the attempts of each task, and the session: a challenge, a login, a token
that expires. A request is on the wire until the coordinator handles it; it may be lost before or
after, repeated, or arrive after the client gave it up. The coordinator is what one prover sees of
it: its rows, the tasks verified so far, whether the challenge was used, and whether its database
is down (`dbDown`), in which case a handler may answer with a failure and change nothing. Each
handler is one step here; `Coordinator` has the interleavings inside. The process may die at any step, in
particular while it proves. What libzkp computes and whether the layer 2 node answers are inputs.

### Fees and GasOracle

`Fees` has the arithmetic of `estimate*Gas` and `resubmitTransaction` as operators on natural
numbers (`big.Int` in the code, so no width), with the rounding division, the limits and the
1 wei corner cases in the order of the code. `GasOracle` uses it: a process is the gas oracle of
one of the two layers, or the rollup relayer at its start, which imports the genesis batch inside
a database transaction. Its sender has transactions in flight, which are mined in the order of
nonces when they pay the base fee, and resubmits them. The rows of `l1_block`, the confirmations,
and what the relayer keeps in memory (`lastGasPrice`) are state; a write may fail after the
transaction was sent and the process may be killed anywhere.

### TxService and Sender

`TxService` is what a relayer relies on: the chain settles every nonce once, for a context sent
under it; the sender tells of a nonce at most once, after it is settled, with the chain's
verdict; a restart loses what was told and not taken. `Sender` is the implementation: the caller
of `SendTransaction` and the goroutine in `checkPendingTransaction` step by step, the table, the
channel, the node's pool, and a chain with reorganisations. Requests fail, also after they took
effect; the node evicts transactions; the process restarts between any two steps.

Abstracted: block numbers, to whether a mined transaction is in a confirmed block (`final`),
which reorganisations do not touch. How far that holds is the configuration's choice: the
shipped one has `"confirmations": "0x0"` (`rollup/conf/config.json:13` and `:37`), which confirms
a transaction as soon as it is in the latest block, and with it every reorganisation is below the
confirmed height: the theorems and runs are about deployments whose confirmations exceed the
reorganisations they meet. Also abstracted: a fee, to a rank that escalation raises by one (that it rises
is what `BumpRaises` of `GasOracle` checks); whether `EscalateBlocks` have passed, to a free
choice. One goroutine calls a sender, and senders have distinct accounts, as the relayers set
them up.

### RollupRelayer

The loops `ProcessPendingBatches` and `ProcessCommittedBatches` as load, send, and the later
write of the status; `handleConfirmation`; the event watcher as one read of the statuses of all
new events followed by one write per event; restarts of both processes. The senders are two
instances of `TxService`, which `Sender` implements; that a nonce is taken again only after a
restart, and that settled transactions are told (a fairness assumption here), are the two further
things used of it. The contract is reduced to the order in which it accepts batches (`ScrollChain`
has the rest; the owner's `revertBatch` is there and not here). The gas of a batch with blobs, and
of one whose commit has failed, is estimated by executing it, so the estimate refuses what the
contract would. Proofs arrive in any order, and a proof may lapse: the coordinator's timeout check
can set a verified batch to failed (run `verified_is_final`).

### ScrollChain and L1ScrollMessenger

`ScrollChain` is the contract of that name with `L1MessageQueue`, after the genesis import. A
header contains its parent, which stands for the hash. The word size is a constant `W` (256 in
the code); bitmaps are sequences of sets of bits, and `PopWord` splits a word over two buckets
as `popCrossDomainMessage` does. A batch has one block; more blocks repeat the same checks.
Proofs verify; pausing and the lists of sequencers and provers, which only disable operations,
are left out. `L1ScrollMessenger` adds sending, replaying and dropping of messages with the
linked list of replays, enforced transactions that bypass the messenger, and the flag of the
layer 2 messenger as of the last finalized batch.

### BlobSize, Codec and Proposers

`Codec` has both sides of an encoding: what codecv0 and codecv1 compute in Go, and what
`commitBatch` decodes and recomputes on layer 1. A hash is what it is the hash of, a field of
fixed width takes one place of a sequence, a transaction is a sequence of positive numbers, so
lengths, offsets, padding and counts are those of the code at a smaller scale (`W` bits per word,
`Byte` values of the block count, `MaxNumChunks`, `Usable` and `Elements` of a blob). The
commitment and the opening of a blob are left out. `BlobSize` has the two limits on a blob's
size, apart because theorems speak of them.

`Proposers` runs over it: the layer 2 watcher stores ranges of blocks; the chunk proposer and the
batch proposer compute a proposal from what they read (one step) and write it in a transaction
(another), which may fail; the process may restart. Forks and the codec versions that follow from
them, the decoding of the parent's header, the limits on calldata, layer 1 gas and blobs, message
counts and the bitmap are modelled, and so is the refusal of blocks whose counts do not fit in 16
bits; the rows of the circuits and the number of transactions, which limit chunks only, are one size
per block. The limits of a chunk and of a batch are independent constants, as they are independent
lines of the configuration. `CommitPayload` is what the relayer sends for a batch. It starts after the genesis import,
layer 2 does not reorganise below the confirmed height, and timeouts are a free choice.

### WithdrawTrie and BridgeHistory

`WithdrawTrie` has the append-only Merkle tree three times: as the layer 2 contract appends, as
layer 1 verifies a proof, and as bridge-history-api rebuilds it from the last proof it stored.
Hashes are terms. `BridgeHistory` has the two fetchers: reading a range of blocks one after the
other while the chain may reorganise, detection of a reorganisation by parent hashes and the
step back to a safe depth, the parsers, and every statement on the tables `cross_message_v2` and
`batch_event_v2` as a step with its conflict clauses; then the update of finalized batches with
the proofs of their withdrawals. A call may fail and the process may die between statements, and
the node may call the transaction of a commit pending (`ReadLogsPending`). A block has at most one
event of interest and an epoch, which stands for its hash. Rows of batches are keyed by hash, as in
the table; several hashes may have one index, by which the rows are ordered and marked.

One assumption is about time: a batch with blocks that took the place of replaced ones is not
finalized on layer 1 while the fetcher of layer 2 is still in the round it began on the replaced
blocks (`Overtaken` in `ReadBlocks`). The code has no guard for this. A round takes seconds; the
batch has to be proposed, proved, committed and finalized in that time for the assumption to fail.

## Runs

| Run | Instance | Checks | States |
|---|---|---|---|
| `coordinator` | one chunk, two provers at once, two attempts, two tries, two failing calls, one restart | `AttemptsBounded`, `VerifiedHasProof`, `FailedIsExhausted`, `AttemptsAccounted`, `FailedIsFinal` | 1.1M |
| `coordinator_live` | one chunk and its batch, two provers, one attempt each, one failing call, one restart, fairness | `BatchWaitsForChunks`, `AttemptsAccounted`, `ProverTaskCloses`, `BatchBecomesReady` | 64k |
| `prover` | two tasks, two rows, one repetition of a request, two faults of any kind, a database that fails and recovers, fairness | `ProvenAtMostThrice`, `WorksOnItsTask`, `KeepsOpenTasks`, `TaskLeavesStack`, `LogsInAgain` | 586k |
| `gas_oracle` | three services, three transaction types, limit 6, factor 3/2, three prices, two changes, one fault, fairness | `MemoryInStep`, `GenesisImported`, `BumpRaises`, `OracleFollows` | 227k |
| `sender` | two contexts, two nonces, two fees, two failures of any kind | `VerdictsMatchChain`, `OnePendingPerNonce`, `ImplementsTxService` | 485k |
| `sender_live` | one context, an eviction and a reorganisation, fairness | `RowsResolve` | 20k |
| `relayer` | two batches, the second with blobs, two nonces, event watcher, one failure, restart or lapsed proof | `StatusesAreTrue` | 2.4M |
| `relayer_live` | two proved batches, the second with blobs, one reverting commit, the event watcher for one event, fairness | `BatchesRollUp` | 190k |
| `messenger` | word size 2, two batches, four queue entries, one or two replays | `ChainLinked`, `QueueInStep`, `SkippedExactly`, `ReplayListIsComplete`, `DroppedNeverExecuted`, `FinalizedIsFinal` | 82k |
| `proposers` | 12 chains of five blocks, four fork configurations, limits that do not fit together, one failure or restart, fairness | `Partition`, `RowsMatchHeaders`, `CommitReproducesHeader`, `BlobReadsBack`, `BlocksAreBatched` | 21k |
| `bridge_history` | five scenarios (a deposit executed; one skipped and dropped; a batch reverted and replaced; withdrawals of two batches; a withdrawal relayed), one reorganisation, one fault or pending commit | `NothingMissed`, `TerminalIsFinal`, `ProofsVerify`, `UpdatedMeansProved`, `NoncesInStep` | 1.2M |

What they show, besides the sentence with each property in its module: the properties hold with
every interleaving of the goroutines and with the listed faults at every step. Several hold only
with exceptions, because the code has them: `AttemptsAccounted`, `KeepsOpenTasks`, `MemoryInStep`,
`OracleFollows`, `BatchesRollUp`, `BlocksAreBatched`, `NothingMissed`, `ProofsVerify`,
`UpdatedMeansProved` and `NoncesInStep` name theirs in the formula and in the comment. Each way to
get stuck in `BatchesRollUp` and `BlocksAreBatched` and each exception in `BridgeHistory` was left
out once, and TLC found the behaviour that needs it. Exceptions of other kinds are assumptions of
the models and are named with the module above, or are under *Observations*.

One more run shows where the code does not do what its comment says. `verified_is_final`: the
timeout check sets a verified task to failed. The WHERE clause of `UpdateProvingStatusFailed`
compares the column with a constant of another enumeration, which here means *assigned*
(`coordinator/internal/orm/chunk.go:329`). One of two concurrent attempts is verified, the other
times out.

### Why the bounds are enough

*Coordinator.* Races are between two requests, or between a request and a cron goroutine, on one
row; two provers and both crons are there, and two attempts leave a second one open when the
first is verified. Two tries let a lost compare-and-swap be repeated and then given up. Two failing
calls are what it takes to lose an attempt of a chunk. The batch paths are in `coordinator_live`,
where one failing call loses an attempt of a batch. The limit of ten rows per timeout scan is not
reached. The type invariant is proved and not checked by a run.

*Prover.* A second task is needed for a key of the stack that is not the task's; two rows let a
task be handed out again after a timeout; two faults let a lost answer be followed by a crash, an
expired token by a failing login, or a failing database by a crash.

*GasOracle.* The prices are below the minimum, at it, and one tenth above, which is the
configured difference; with a limit of 6 every escalation reaches the limit, and prices of 1 and 2
round down to themselves. Contexts are used in a cycle, since only rows in flight matter.

*Sender.* Two nonces are needed for one transaction to wait behind another, two fees for a
replacement, two failures for a lost answer followed by a restart. Three failures were tried
once (1.45 million states) and gave the same result; the proofs need no bound.

*RollupRelayer.* Two batches have an order: the second waits behind the first when that is committed
again, and of the two only the second needs an estimate at its first commit. Four nonces let both
be sent twice. `relayer_live` was also tried once with a crash or failing request, a watcher that
does nothing and seven nonces (171 046 states), with the same result.

*ScrollChain.* With two bits per word a batch of up to four messages has up to two words, starts
at any offset of a bucket and straddles up to three; the code has the same cases with 256. Two
batches let one be finalized and the next be reverted and replaced.

*Proposers.* The chains have messages skipped at the start of a block, between blocks and inside
one, blocks without transactions, one too large for a chunk and one too long for a blob; the
configurations have the Bernoulli fork at block 0, at block 1, later, and after other forks, so a
batch of each version follows one of each version that can occur. A blob has room for two chunks and
a batch may have three, a chunk within its gas limit exceeds that of a batch when the cost of the
batch itself is added, and some blocks have more transactions than a context of this scale counts,
so each of the four ways to get stuck occurs. The shipped limits do not fit together either (see
*Observations*).

*BridgeHistory.* Blocks are read in ranges of two with a safe depth of two, over one to four
blocks: a reorganisation can hit the range that is read, the one before, and the block a restarted
fetcher resumes from. Four withdrawals make a tree of height two that is rebuilt from a proof for
three; other rebuilds are not reached. The two histories of layer 2 differ in where a withdrawal is
and in whether there is a second one, so rows of replaced blocks occur. In one scenario a third batch
takes the place of the first after a revert or a reorganisation, so two rows with one index occur. That a resumed fetcher misses nothing needs
`FetchLimit <= SafeDepth` (`BridgeAssumption`), which the shipped configuration satisfies (16 and
64 blocks against depths of 64 and 256).

Deadlock checking is off where a run ends because its bounds are reached.

### Fairness

Goroutines keep running and database calls return: weak fairness of each step of a goroutine,
never of the arrival of a request, a failure or a restart. Stronger assumptions, and why:

- `Coordinator`: a timeout scan that can return a row again and again does so at some time: the
  query takes the rows whose age has passed the limit, and an assigned row only grows older. The
  same for the scan of ready batches, which walks through all pages.
- `Prover`: the process is started again after a crash, an outage of the coordinator's database ends,
  and a challenge expires.
- `GasOracle`: what pays the base fee is mined; the watcher and the batch proposer go on inserting
  rows; every transaction in flight is looked at for resubmission.
- `Sender`: what stays in the node's pool is mined at some time and confirmed later; a row looked
  at again and again is overdue at some time, since block numbers rise.
- `RollupRelayer`: transactions are mined and told, in any order relative to the late writes of the
  loops. Nothing is assumed of the event watcher. The orders in which the code leaves a batch behind
  are not excluded by fairness; they are the cases of `Stuck` in `BatchesRollUp`.
- `Proposers`: what waits has timed out at some time and stays so (`ProposeChunk(TRUE)`), and a
  proposal is written or given up (`ChunkProposalEnds`, `BatchProposalEnds`).

## Proofs

Six modules hold proofs. Each theorem is for every value of the constants under the named
assumptions of its module (`TaskAssumption`, `ProverAssumption`, `ConfigAssumption` of the
coordinator; `ProverAssumption` and `NoneAssumption` of the prover; `SenderAssumption`;
`RelayerAssumption`; `ChainAssumption`; `BlobAssumption`): any number of tasks, provers, nonces,
batches and messages, any bounds on failures and restarts. The runs check the same definitions.

| Module | Theorem | States |
|---|---|---|
| `Coordinator_proofs` | `TypeCorrect` | `Spec => []TypeOK` |
| | `AttemptsAreBounded` | `Spec => []AttemptsBounded` |
| | `VerifiedTasksHaveProofs` | `Spec => []VerifiedHasProof` |
| | `FailedTasksAreExhausted` | `Spec => []FailedIsExhausted` |
| | `BatchesWaitForChunks` | `Spec => []BatchWaitsForChunks` |
| | `FailedTasksStayFailed` | `Spec => FailedIsFinal` |
| `Prover_proofs` | `ThreeRunsPerTask` | `Spec => []ProvenAtMostThrice` |
| | `StackKeepsOneTask` | `Spec => []WorksOnItsTask` |
| | `OpenTasksAreKept` | `Spec => KeepsOpenTasks` |
| `Sender_proofs` | `VerdictsAreTheChains` | `Spec => []VerdictsMatchChain` |
| | `SenderImplementsTxService` | `Spec => ImplementsTxService` |
| `RollupRelayer_proofs` | `RollupStatusesAreTrue` | `Spec => []StatusesAreTrue` |
| `ScrollChain_proofs` | `BatchesAreLinked` | `MessengerSpec => []ChainLinked` |
| | `QueueFollowsBatches` | `MessengerSpec => []QueueInStep` |
| | `FinalizedBatchesAreFinal` | `MessengerSpec => FinalizedIsFinal` |
| `BlobSize_proofs` | `EstimateIsExact` | the proposers' estimate passes exactly when the encoder accepts |

All but the last rest on an inductive invariant `IInv` of their module. The properties are not
inductive by themselves, because what a step may write depends on what its goroutine read earlier.

*Coordinator.* `HandlerInv`: a request about to compare and swap has read counters below the
limits; since the swap demands that both are still the same, it keeps `AttemptsBounded`. A request
in a submit step has a row of its task. An open transaction that decreased `active_attempts` can
still do so, and one that saw the task verified has a proof to rely on when it marks its row
valid. `LockInv`: two open transactions do not hold the lock of one row, which is why the previous
fact survives the steps of others. `ReadyInv`: a batch that is ready has the proofs of its chunks;
the status of a chunk may go from verified to failed, but nothing removes a proof, so it is the
proof that the invariant speaks of. The argument goes from lemmas about single rows
(`TakeAttemptRow`, `DecreaseRow`, `FailedRow`, `TimeoutRow`, `CommitRow`) to what any step does to
one task (`TaskStep`) and to the table of prover tasks (`RowsStep`), and from these to the
conjuncts. `FailedTasksStayFailed` follows from `TaskStep`.

*Prover.* `RowsExist`: rows that were handed out stay, and the stack and late requests name them.
`Positions`: the stack is empty where a task is fetched, and a task in memory is the one of the
stack. `RunsCounted`: the attempts on disk are never fewer than the proving runs that began, and
one more while a run is about to begin; this is what a crash while proving relies on.
`OpenTasksAreKept` is about the step that takes a task off the stack: the answer it follows was given
for that task's row, and outside the four exceptions only a row that is closed gets such an answer.

*Sender.* `ChainInv`: the chain uses nonces in order, with transactions that were sent. `CurInv`:
what the check knows of the row it looks at, by its position; in particular a receipt below the
confirmed block is settled, which no reorganisation touches. `TodoInv`: a loaded row is still
unresolved, or has failed since because another of its nonce was confirmed. `ToldInv`: a nonce the
relayer was told of has a confirmed row, which is why no row of it can be taken up again, and so
why a nonce is told once. Steps of the chain satisfy `Grows`: what is final stays. For the
refinement, `Broadcast` is `Submit`, `Finalize` is `Settle`, `SendConfirmation` is `Tell`,
`ReceiveConfirmation` is `Take`, `Restart` is `Forget`, and every other step stutters.

*RollupRelayer.* `CommitInv`, `FinalizeInv` and `EventInv` say that what the loops hold between a
read and a write, what waits in the channels, and what the watcher has read is true of the
contract; `Claim` is what a status says of one batch, and it survives every step that `Grows`. A
proof that lapses was verified before, which is why a finalization sent earlier stays justified.

*ScrollChain.* `ChainType` and `FinalizedCommitted` (batches up to the last finalized one are
committed) are added. The proofs are about `MessengerSpec`, so the messenger's sends, replays and
drops are covered.

*BlobSize.* By arithmetic: rounding up to field elements and comparing with the elements of a blob
is comparing the payload with the usable bytes.

Only model-checked: all liveness, since fairness is out of the prover's reach; properties that
compute over sequences by recursive functions, which need induction over data
(`ReplayListIsComplete`, `DroppedNeverExecuted`, `SkippedExactly`, everything in `Proposers`,
`BridgeHistory` and `WithdrawTrie`); `AttemptsAccounted`, which counts sets of rows;
`OnePendingPerNonce`, whose strengthening speaks of the node's pool; and `GasOracle`.

## Observations

Met while modelling, and not stated as runs.

Coordinator and prover:

- A task whose attempts all timed out stays assigned: the WHERE clause of `verified_is_final`
  skips assigned tasks (`coordinator/internal/orm/chunk.go:329`, and the same in `batch.go`).
- A timeout check acts on rows read before: when the prover task was closed in between, it closes
  it again and decreases `active_attempts` a second time, so that more prover tasks than
  `ProversPerSession` can be open (`cron/collect_proof.go:170`). `AttemptsBounded` speaks of the
  counters for that reason.
- `BatchProverTask.recoverActiveAttempts` gives the attempt back in the chunk table, where the
  hash of a batch matches nothing (`provertask/batch_prover_task.go:238`). `AttemptsAccounted`
  therefore lets one failing statement lose an attempt of a batch, and asks for two to lose one of
  a chunk.
- A crash between the compare-and-swap of `Assign` and the insert loses an active attempt for
  good (`chunk_prover_task.go:141`); `AttemptsAccounted` excludes restarts.
- `checkIsTaskSuccess` asks the pool for a second connection while its transaction holds one
  (`proof_receiver.go:333`); the pool's size is not modelled.
- When the prover cannot report a failure, it decides whether to keep the task by the error of
  proving and not by that of submitting (`prover/prover.go:363`).
- A login that fails leaves the token of the challenge in the client (`client.go:109`); until it
  expires every request is refused, and a submission that is refused this way drops its task.
- A coordinator whose statements fail answers a submission with a failure and leaves its row open;
  the prover takes that for a verdict and deletes the task (`client.go`, `prover.go:333`).
- Three submissions of a good proof that find no connection use up the attempts, and the task ends
  with a report of a panic. A lost answer of `get_task` leaves a row open until its timeout.
- `UpdateTimes` writes under the last key of the bucket (`stack.go:104`); `WorksOnItsTask` shows
  that there is only one key.

Sender, relayers and watcher:

- A transaction that is mined and reverts is recorded as `TxStatusConfirmed`, which
  `common/types/db.go:276` describes as "successfully processed" (`sender.go:495`). The verdict
  told to the relayer is right.
- A check loads 100 rows by nonce and fee (`sender.go:471`); a hundred replaced rows of one nonce
  would hide the pending one until one of them is mined.
- A crash, or a failing insert, between sending and inserting leaves a transaction nobody reports
  (`sender.go:208`); the relayers then depend on the event watcher.
- At the limit the fee cap exceeds `MaxGasPrice` by 1 wei (`sender.go:371`), and after two
  resubmissions there the tip exceeds the cap, because the 1 wei corrections come after the
  comparison (`sender.go:382`); `BumpRaises` states the limit below it.
- A confirmation or an event can be handled before the loop that sent the transaction writes
  *committing* or *finalizing* (`l2_relayer.go:418`). The status stays true of the contract in the
  weak sense of `StatusesAreTrue`, but nothing moves the batch on.
- A batch that is pending or `RollupCommitFailed` although the contract has it (it was sent twice, or
  a confirmation got lost) is tried again for ever: the estimate of its gas refuses it, and the loop
  ends there, so later batches wait too. Nothing retries `RollupFinalizeFailed`.
- The event watcher may set a batch back from finalizing or finalized to committed, because it
  compares an event with a status read before other events were handled
  (`watcher/l1_watcher.go:236`). A batch that is committed in the table and finalized on layer 1
  blocks the finalization of those after it.
- When the write after sending a gas price fails, the relayer forgets the price it sent
  (`l1_relayer.go:141`); `MemoryInStep` and `OracleFollows` exempt the time until the next price.
  A confirmation handled before that write leaves the row *importing*, and a block that is fetched
  again becomes pending again; neither hurts the contract.
- The 5 minutes of `initializeGenesis` start again with every tick of 10 seconds
  (`l2_relayer.go:273`), so they never pass. A crash while the import is in flight leads to a
  second import whose failure is written to the genesis row, and one after it was mined finds the
  import refused and never starts.

Proposers and codecs:

- A failing `InsertBatch` makes the log statement after it dereference a nil row
  (`batch_proposer.go:139`); `Proposers` models it as a restart of the process.
- `codecv1.MaxNumChunks` is 15, and the shipped `max_chunk_num_per_batch` is 112: when more than 15
  chunks wait and fit, `NewDABatch` refuses the batch, and so for every later attempt.
- The shipped limits of layer 1 gas for a chunk and for a batch are equal (11234567), while a batch
  adds a cost of its own: a chunk close to its limit fits in no batch.
- A block with more than 65535 messages, skipped ones included, or transactions is refused by
  `NewDABlock` (`codecv0.go:57`) after the estimates have let it through, so that no chunk is proposed
  from then on.
- `codecv1.NewDAChunk` has no check for more than 255 blocks, which codecv0 has; that limit is an
  assumption on the configuration (`ProposersAssumption`).
- `EstimateBatchL1CommitCalldataSize` leaves out the byte with the number of blocks of each chunk.

bridge-history-api:

- When the node calls the transaction of a commit pending, all batch events of the range are dropped
  without an error and the height moves on (`l1_event_parser.go:185`). The batch is missing until a
  reorganisation or a restart reads the range again, its finalization finds no row, and the proofs
  of later batches fail with "nonce mismatch"; `NothingMissed` and `NoncesInStep` name this
  (`LeftOut`).
- A revert deletes the row of a batch. When a reorganisation undoes the revert and the commit is
  further below than the safe depth, the row does not come back (`batch_event.go:123`); both
  properties name this (`RevertUndone`).
- The mark *updated* goes to all rows with an index (`batch_event.go:136`), and the row of a batch that
  a reorganisation removed stays: a batch that took its place may be marked without its proofs.
  `UpdatedMeansProved` excepts these batches (`besides`) and shows that there is no other way.
- A crash between writing the proofs of a batch and marking the batch makes every later update fail
  with "nonce mismatch" (`event_update.go:128`); `NoncesInStep` names this exception
  (`ProvedInPart`), which a second batch of one index meets as well.
- Rows of blocks that a reorganisation of layer 2 replaced are not deleted. When such a withdrawal
  is not in the new chain, or is in a much later block, its old row still counts for the batch that
  has the old height, and the proofs of that batch are computed for one message too many
  (`event_update.go:107`, `cross_message.go:180`). `ProofsVerify` excepts these batches and those
  after them, which the variable `leftover` records, and shows that there is no other cause.
- A terminal status is not undone when a reorganisation drops the relay; a status that is not
  terminal may fall back on a re-read.
- A relayed message is stored as *relay reverted* when a later transaction of the same range that
  relays it again is reverted: the merge in memory (`cross_message.go:465`) takes the higher block,
  while the comment at line 476 says "Do not update tx status of successfully relayed messages,
  because if a message is handled, the later relayed message tx would be reverted".
  `NothingMissed` names this (`RevertedAfter`).
- `batch_event.go:123` says "Soft delete"; the type of `DeletedAt` (line 46) is not the one gorm
  recognises for that, so the row is removed, and the model removes it.
- Rows without a nonce or a block have 0 there, so the first nonce and block 0 look like no value.

## Not modelled

- The HTTP plumbing, signatures, metrics and configuration parsing; the queries of
  bridge-history-api and their cache, which read only and whose answers may be as old as the
  cache's lifetime.
- Proof generation and verification (`libzkp`, the verifier contracts, blob commitments), which the
  models take as a verdict.
- The terms of the estimates of layer 1 gas in codecv0: `Codec` keeps that they grow with the blocks
  and that a batch has a cost of its own. They decide where a chunk or batch ends, and whether a first
  block or chunk fits at all.
- `revertBatch` by the contract's owner, in `RollupRelayer`: `ScrollChain` has it, but what the relayer
  and the watcher do when a batch they know of is reverted is not checked. The watcher does not read
  that event.
- Gateways, tokens, rate limiters, gas swap and the owner's switches of the contracts: each changes
  balances or flags of its own in one transaction.
- Messages from layer 2 to layer 1 on the side of the contracts, beyond the trie and its proofs:
  `relayMessageWithProof` is one check of a flag and of a proof.
- The size of the database's connection pool, the deletion limit of `InsertL1Blocks`, and the
  `uint64` overflow of `lastGasPrice * gasPriceDiff`, which needs prices far above any real one.
- Migrations and test infrastructure.
