--------------------------- MODULE BridgeHistory ---------------------------
(***************************************************************************)
(* The fetchers of bridge-history-api.  Two loops of one process, one per  *)
(* chain, read ranges of blocks, detect reorganisations, and write what    *)
(* they found to two tables: the cross messages of both directions, and    *)
(* the batch events.  The loop for layer 2 also computes the withdrawal    *)
(* proofs of the batches the other loop has recorded as finalized.  Every  *)
(* statement on the database is a step of its own, and the process may die *)
(* between any two.                                                        *)
(*                                                                         *)
(* A block has at most one event of interest.  Two blocks of one height    *)
(* differ in their epoch, which stands for the hash of the block and of    *)
(* everything below it.  Message rows are keyed by message: deposits by    *)
(* their nonce, which is their queue index, withdrawals by theirs; the     *)
(* event "withdraw" number i is a block with Withdrawn[i] of them.  Batch  *)
(* rows are keyed by hash; two batches may have the same index.            *)
(***************************************************************************)
EXTENDS WithdrawTrie, FiniteSetsExt, SequencesExt

CONSTANTS
    Scenarios,      \* for each, the event sequences that either chain may have
    Deposits,       \* nonces of messages from layer 1 to layer 2
    Withdrawn,      \* how many withdrawals the blocks with withdrawals have
    Batch,          \* for each batch hash, its index and its blocks of layer 2
    SafeDepth,      \* L1ReorgSafeDepth, L2ReorgSafeDepth
    FetchLimit,     \* blocks of a range
    StartHeight,    \* of layer 1
    MaxReorgs,      \* bound on reorganisations
    MaxFaults,      \* bound on failing calls and crashes
    None            \* no row

ASSUME BridgeAssumption ==
    /\ FetchLimit \in 1 .. SafeDepth
    /\ StartHeight \in Nat
    /\ 0 \notin Deposits
    /\ \A b \in DOMAIN Batch : Batch[b].index > 0 /\ Batch[b].start <= Batch[b].end

L1 == "L1"
L2 == "L2"
Layers == {L1, L2}

VARIABLES
    scenario,   \* does not change
    chain,      \* the canonical blocks of each layer, from height 1
    gone,       \* the blocks before a reorganisation, while they may still be read
    peak,       \* the greatest height of each layer that was read
    epoch,      \* number of reorganisations
    fetcher,    \* the state of the two loops
    message,    \* table cross_message_v2
    batchEvent, \* table batch_event_v2
    leftover,   \* the batches with proofs for which a row of a replaced block was used
    deleted,    \* the batches whose row was deleted, and not inserted again
    unread,     \* the batch events that were left out, and not read again
    besides,    \* the batches marked as updated with another of their index
    faults

environment == <<scenario, chain, gone, peak, epoch>>
tables == <<message, batchEvent, leftover, deleted, unread, besides>>   \* with their history
vars == <<scenario, chain, gone, peak, epoch, fetcher, message, batchEvent,
          leftover, deleted, unread, besides, faults>>

Nothing == [kind |-> "nothing", of |-> 0]
Event(kind, of) == [kind |-> kind, of |-> of]

Lesser(a, b) == IF a < b THEN a ELSE b
Greater(a, b) == IF a > b THEN a ELSE b

\* the nonces of the withdrawals in the block with withdrawals number i
NoncesOf(i) ==
    LET before[k \in 0 .. i] == IF k = 0 THEN 0 ELSE before[k - 1] + Withdrawn[k]
    IN  before[i - 1] .. before[i] - 1

Withdrawals == UNION {NoncesOf(i) : i \in DOMAIN Withdrawn}
Batches == DOMAIN Batch
BlocksOf(b) == Batch[b].start .. Batch[b].end

DepositKey(d) == [from |-> L1, nonce |-> d]
WithdrawalKey(w) == [from |-> L2, nonce |-> w]
FailedKey(c) == [from |-> c, nonce |-> -1]      \* a failed transaction has no message
Keys == {DepositKey(d) : d \in Deposits} \cup {WithdrawalKey(w) : w \in Withdrawals}
          \cup {FailedKey(c) : c \in Layers}

-----------------------------------------------------------------------------
(* The chains *)

EpochAt(c, n) == IF n = 0 THEN 0 ELSE chain[c][n].epoch

\* a chain that takes the place of another one above height n
Blocks(history, kept, n, e) ==
    kept \o [k \in 1 .. Len(history) - n |->
        [epoch |-> e, event |-> history[n + k],
         parent |-> IF k > 1 THEN e ELSE IF n = 0 THEN 0 ELSE kept[n].epoch]]

HasEvents(blocks, history) == \A k \in DOMAIN blocks : blocks[k].event = history[k]

\* the batches that blocks of layer 1 finalize
FinalizedIn(heights) ==
    {b \in Batches : \E n \in heights \cap DOMAIN chain[L1] :
                                chain[L1][n].event = Event("finalized", b)}

\* The blocks above n are replaced.  Those SafeDepth below the known height are final,
\* and so are those of layer 2 in finalized batches.
Reorganize(c) ==
    \E history \in scenario[c], n \in Greater(0, peak[c] - SafeDepth) .. Len(chain[c]) - 1 :
        LET kept == SubSeq(chain[c], 1, n)
        IN  /\ epoch < MaxReorgs
            /\ HasEvents(kept, history)
            /\ c = L2 => \A b \in FinalizedIn(1 .. peak[L1]) : Batch[b].end <= n
            /\ epoch' = epoch + 1
            /\ chain' = [chain EXCEPT ![c] = Blocks(history, kept, n, epoch')]
            /\ gone' = [gone EXCEPT ![c] = IF fetcher[c].pc = "idle"
                                           THEN SubSeq(chain[c], 1, Lesser(n + SafeDepth, Len(chain[c])))
                                           ELSE <<>>]
            /\ UNCHANGED <<scenario, peak, fetcher, tables, faults>>

-----------------------------------------------------------------------------
(* The tables *)

\* statuses: TxStatusTypeSent, and so on
Terminal == {"relayed", "dropped"}
Statuses == Terminal \cup {"sent", "sentTxReverted", "failedRelayed", "relayReverted", "skipped"}

NewMessage == [status |-> "sent", block |-> 0, nonce |-> 0, batch |-> 0, proof |-> <<>>]

\* upsert: assigned columns of an existing row, or a row with the other ones at 0
Upsert(key, columns) ==
    columns @@ (IF message[key] = None THEN NewMessage ELSE message[key])

Rows(c) == {key \in Keys : key.from = c /\ message[key] # None}

GetMessageSyncedHeightInDB(c) == Max({0} \cup {message[key].block : key \in Rows(c)})

GetBatchEventSyncedHeightInDB ==
    Max({0} \cup {batchEvent[b].block : b \in {b \in Batches : batchEvent[b] # None}})

\* the rows an event is about
KeysOf(c, e) ==
    CASE e.kind = "withdraw" -> {WithdrawalKey(w) : w \in NoncesOf(e.of)}
      [] e.kind = "failedTx" -> {FailedKey(c)}
      [] e.kind \in {"relayed", "failedRelayed"} /\ c = L1 -> {WithdrawalKey(e.of)}
      [] OTHER -> {DepositKey(e.of)}

About(c, key, events) == SelectSeq(events, LAMBDA e : key \in KeysOf(c, e))

\* tx_status is not assigned
InsertOrUpdateMessages(c, sent) ==
    message' = [key \in Keys |->
        LET about == About(c, key, sent)
        IN  IF about = <<>> THEN message[key]
            ELSE Upsert(key, [block |-> Last(about).block, nonce |-> key.nonce])]

InsertOrUpdateL1Messages(sent) == InsertOrUpdateMessages(L1, sent)
InsertOrUpdateL2Messages(sent) == InsertOrUpdateMessages(L2, sent)

\* of several relays of one message in a range, a successful one or the latest
Merged(about) ==
    FoldLeft(LAMBDA existing, e : IF e.kind = "relayed" \/ e.block > existing.block
                                  THEN e ELSE existing, Head(about), about)

InsertOrUpdateRelayedMessages(c, relayed) ==
    message' = [key \in Keys |->
        LET about == About(c, key, relayed)
        IN  IF about = <<>> \/ (message[key] # None /\ message[key].status \in Terminal)
            THEN message[key]
            ELSE Upsert(key, [status |-> Merged(about).kind])]

InsertOrUpdateL1RelayedMessagesOfL2Withdrawals(relayed) == InsertOrUpdateRelayedMessages(L1, relayed)
InsertOrUpdateL2RelayedMessagesOfL1Deposits(relayed) == InsertOrUpdateRelayedMessages(L2, relayed)

\* nothing on conflict
InsertFailedGatewayTxs(c, failed) ==
    message' = [message EXCEPT ![FailedKey(c)] =
        IF @ # None THEN @
        ELSE Upsert(FailedKey(c), [status |-> "sentTxReverted", block |-> Head(failed).block])]

InsertFailedL1GatewayTxs(failed) == InsertFailedGatewayTxs(L1, failed)
InsertFailedL2GatewayTxs(failed) == InsertFailedGatewayTxs(L2, failed)

\* variant: terminal statuses are overwritten
UpdateAnyStatus(e) ==
    message' = [key \in Keys |->
        IF key \in Rows(L1) /\ message[key].nonce = e.of
        THEN [message[key] EXCEPT !.status = e.kind] ELSE message[key]]

\* one round of UpdateL1MessageQueueEventsInfo: rows are found by their nonce
UpdateL1MessageQueueEventsInfo(e) ==
    message' = [key \in Keys |->
        IF /\ key \in Rows(L1) /\ message[key].nonce = e.of
           /\ message[key].status \notin Terminal
        THEN [message[key] EXCEPT !.status = e.kind] ELSE message[key]]

\* one round of InsertOrUpdateBatchEvents; a reverted batch is marked, then deleted
InsertOrUpdateBatchEvents(e) ==
    batchEvent' = [batchEvent EXCEPT ![e.of] =
        CASE e.kind = "committed" ->
               IF @ # None THEN @
               ELSE [status |-> "committed", updated |-> FALSE, block |-> e.block]
          [] e.kind = "finalized" ->
               IF @ = None THEN None ELSE [@ EXCEPT !.status = "finalized"]
          [] e.kind = "reverted" ->
               IF @ = None \/ @.status = "reverted" THEN None
               ELSE [@ EXCEPT !.status = "reverted"]]

-----------------------------------------------------------------------------
(* The loop of a fetcher: a range is read *)

\* no round is running
Idle(height, hash) ==
    [pc |-> "idle", sync |-> height, hash |-> hash, to |-> 0, last |-> 0,
     blocks |-> <<>>, logs |-> <<>>, todo |-> <<>>, proofs |-> <<>>]

Down == [Idle(0, 0) EXCEPT !.pc = "down"]

Init ==
    /\ scenario \in Scenarios
    /\ \E h1 \in scenario[L1], h2 \in scenario[L2] :
          chain = [L1 |-> Blocks(h1, <<>>, 0, 0), L2 |-> Blocks(h2, <<>>, 0, 0)]
    /\ gone = [c \in Layers |-> <<>>]
    /\ peak = [c \in Layers |-> 0]
    /\ epoch = 0
    /\ fetcher = [c \in Layers |-> Down]
    /\ message = [key \in Keys |-> None]
    /\ batchEvent = [b \in Batches |-> None]
    /\ leftover = {}
    /\ deleted = {}
    /\ unread = {}
    /\ besides = {}
    /\ faults = 0

Becomes(c, state) == fetcher' = [fetcher EXCEPT ![c] = state]

BelowSafeDepth(height) == IF height < SafeDepth THEN 0 ELSE height - SafeDepth

GetL1SyncHeight == Greater(GetMessageSyncedHeightInDB(L1), GetBatchEventSyncedHeightInDB)
GetL2MessageSyncedHeight == GetMessageSyncedHeightInDB(L2)

StartFrom(c, height) ==
    /\ fetcher[c].pc = "down"
    /\ Becomes(c, Idle(height, EpochAt(c, height)))
    /\ UNCHANGED <<environment, tables, faults>>

StartL1 == StartFrom(L1, BelowSafeDepth(IF StartHeight > GetL1SyncHeight THEN StartHeight - 1
                                        ELSE GetL1SyncHeight))
StartL2 == StartFrom(L2, BelowSafeDepth(GetL2MessageSyncedHeight))

Crash ==
    /\ faults < MaxFaults
    /\ faults' = faults + 1
    /\ fetcher' = [c \in Layers |-> Down]
    /\ UNCHANGED <<environment, tables>>

\* the round ends with an error, and the height stays
EndRound(c) == Becomes(c, Idle(fetcher[c].sync, fetcher[c].hash))

\* a call to the node or to the database fails
Fail(c) ==
    /\ fetcher[c].pc \notin {"down", "idle"}
    /\ faults < MaxFaults
    /\ faults' = faults + 1
    /\ EndRound(c)
    /\ UNCHANGED <<environment, tables>>

\* The heights of a range: its end is the height of the chain at some time since the
\* round began.  After the last block there are others, without events, which are
\* not counted.
Ends(c) == LET sync == fetcher[c].sync
           IN  IF sync = Len(chain[c]) THEN {sync}
               ELSE sync + 1 .. Lesser(sync + FetchLimit, Len(chain[c]))

\* Blocks are requested in parallel: each may be the one before or after a reorganisation.
ReadRanges(c, to) ==
    LET first    == fetcher[c].sync + 1
        read(k)  == {chain[c][first + k - 1]}
                      \cup IF first + k - 1 <= Len(gone[c]) THEN {gone[c][first + k - 1]} ELSE {}
        all      == UNION {read(k) : k \in 1 .. to - first + 1}
    IN  {blocks \in [1 .. to - first + 1 -> all] : \A k \in DOMAIN blocks : blocks[k] \in read(k)}

\* a round began on blocks that were replaced since; a batch with the blocks that took
\* their place is not finalized on layer 1 before that round is over
Overtaken ==
    LET f == fetcher[L2]
    IN  \/ gone[L2] # <<>>
        \/ f.pc \notin {"down", "idle"} /\ EpochAt(L2, f.sync) # f.hash

\* variant: the check begins with the second block of the range
MismatchesInside(c, blocks) ==
    {k \in DOMAIN blocks : k > 1 /\ blocks[k].parent # blocks[k - 1].epoch}

\* the blocks that do not follow the block before
Mismatches(c, blocks) ==
    LET f == fetcher[c]
    IN  {k \in DOMAIN blocks :
            blocks[k].parent # IF k = 1 THEN f.hash ELSE blocks[k - 1].epoch}
          \cup IF blocks = <<>> /\ EpochAt(c, f.sync) # f.hash THEN {1} ELSE {}

ResyncHeight(number) == IF number > SafeDepth + 1 THEN number - SafeDepth - 1 ELSE 0

\* getBlocksAndDetectReorg
ReadBlocks(c) ==
    \E to \in Ends(c) : \E blocks \in ReadRanges(c, to) :
        LET f      == fetcher[c]
            bad    == Mismatches(c, blocks)
            resync == ResyncHeight(f.sync + Min(bad))
        IN  /\ f.pc = "idle"
            /\ c = L1 /\ FinalizedIn(f.sync + 1 .. to) # {} => ~Overtaken
            /\ Becomes(c, IF bad # {} THEN Idle(resync, EpochAt(c, resync))
                          ELSE [f EXCEPT !.pc = "logs", !.to = to, !.blocks = blocks,
                                  !.last = IF blocks = <<>> THEN f.hash ELSE Last(blocks).epoch])
            /\ gone' = [gone EXCEPT ![c] = <<>>]
            /\ peak' = [peak EXCEPT ![c] = Greater(@, to)]
            /\ UNCHANGED <<scenario, chain, epoch, tables, faults>>

\* the events of some kinds in a range, with their heights
Found(first, blocks, kinds) ==
    SelectSeq([k \in DOMAIN blocks |-> [kind  |-> blocks[k].event.kind, of |-> blocks[k].event.of,
                                        block |-> first + k - 1]],
              LAMBDA e : e.kind \in kinds)

ParseL1CrossChainEventLogs(first, blocks) == Found(first, blocks, {"sent", "relayed", "failedRelayed"})
BatchEvents(first, blocks) == Found(first, blocks, {"committed", "reverted", "finalized"})
Commits(first, blocks) == Found(first, blocks, {"committed"})

\* no events, and no error, when the transaction of a commit is said to be pending
ParseL1BatchEventLogs(first, blocks, isPending) ==
    IF isPending /\ Commits(first, blocks) # <<>> THEN <<>> ELSE BatchEvents(first, blocks)
ParseL1MessageQueueEventLogs(first, blocks) == Found(first, blocks, {"skipped", "dropped"})
ParseL2EventLogs(first, blocks) == Found(first, blocks, {"withdraw", "relayed", "failedRelayed"})

\* reverted transactions are not in the logs; on layer 2 some of them relay deposits
GetL1RevertedTxs(first, blocks) == Found(first, blocks, {"failedTx"})
GetL2RevertedTxs(first, blocks) == Found(first, blocks, {"failedTx", "relayReverted"})

-----------------------------------------------------------------------------
(* What is read is parsed and saved *)

\* the writes of L1InsertOrUpdate and of L2InsertOrUpdate, in their order; each is left
\* out when it has nothing to write.  The round of layer 2 goes on with the proofs.
PhasesL1 == <<"sent", "relayed", "batches", "queue", "failed">>
PhasesL2 == <<"sent", "relayed", "failed", "finalized">>
Phases(c) == IF c = L1 THEN PhasesL1 ELSE PhasesL2

KindsOf == [sent |-> {"sent", "withdraw"}, relayed |-> {"relayed", "failedRelayed", "relayReverted"},
            batches |-> {"committed", "reverted", "finalized"},
            queue |-> {"skipped", "dropped"}, failed |-> {"failedTx"}, finalized |-> {}]

ToWrite(events, phase) == SelectSeq(events, LAMBDA e : e.kind \in KindsOf[phase])

\* what follows a phase that is done, of which the first has number 1
Enter(c, f, done) ==
    LET phases == Phases(c)
        next   == {k \in done + 1 .. Len(phases) :
                      phases[k] = "finalized" \/ ToWrite(f.logs, phases[k]) # <<>>}
    IN  IF next = {} THEN Idle(f.to, f.last)
        ELSE [f EXCEPT !.pc = phases[Min(next)], !.todo = ToWrite(f.logs, phases[Min(next)])]
After(c, f) == Enter(c, f, CHOOSE k \in DOMAIN Phases(c) : Phases(c)[k] = f.pc)

\* the logs by number; reverted transactions are those of the blocks read before
L1FetcherResult(f, now, isPending) ==
    LET first == f.sync + 1
    IN  ParseL1CrossChainEventLogs(first, now) \o ParseL1BatchEventLogs(first, now, isPending)
          \o ParseL1MessageQueueEventLogs(first, now) \o GetL1RevertedTxs(first, f.blocks)
L2FetcherResult(f, now) ==
    ParseL2EventLogs(f.sync + 1, now) \o GetL2RevertedTxs(f.sync + 1, f.blocks)

FilterLogs(c, isPending) ==
    LET f    == fetcher[c]
        now  == SubSeq(chain[c], f.sync + 1, f.to)
        logs == IF c = L1 THEN L1FetcherResult(f, now, isPending) ELSE L2FetcherResult(f, now)
    IN  /\ f.pc = "logs"
        /\ Becomes(c, Enter(c, [f EXCEPT !.logs = logs, !.blocks = <<>>], 0))
        /\ unread' = IF c = L2 THEN unread
                     ELSE {e \in unread : e.block \notin f.sync + 1 .. f.to}
                            \cup (Range(BatchEvents(f.sync + 1, now)) \ Range(logs))
        /\ UNCHANGED <<environment, message, batchEvent, leftover, deleted, besides>>

ReadLogs(c) == FilterLogs(c, FALSE) /\ UNCHANGED faults

\* The node finds the log, and then says that the transaction is pending: its block was
\* replaced, or another node answers.
ReadLogsPending ==
    LET f == fetcher[L1]
    IN  /\ Commits(f.sync + 1, SubSeq(chain[L1], f.sync + 1, f.to)) # <<>>
        /\ faults < MaxFaults
        /\ faults' = faults + 1
        /\ FilterLogs(L1, TRUE)

\* the writes that are one statement
SaveL1Messages ==
    LET f == fetcher[L1]
    IN  /\ \/ f.pc = "sent"    /\ InsertOrUpdateL1Messages(f.todo)
           \/ f.pc = "relayed" /\ InsertOrUpdateL1RelayedMessagesOfL2Withdrawals(f.todo)
           \/ f.pc = "failed"  /\ InsertFailedL1GatewayTxs(f.todo)
        /\ Becomes(L1, After(L1, f))
        /\ UNCHANGED <<environment, batchEvent, leftover, deleted, unread, besides, faults>>

SaveL2Messages ==
    LET f == fetcher[L2]
    IN  /\ \/ f.pc = "sent"    /\ InsertOrUpdateL2Messages(f.todo)
           \/ f.pc = "relayed" /\ InsertOrUpdateL2RelayedMessagesOfL1Deposits(f.todo)
           \/ f.pc = "failed"  /\ InsertFailedL2GatewayTxs(f.todo)
        /\ Becomes(L2, After(L2, f))
        /\ UNCHANGED <<environment, batchEvent, leftover, deleted, unread, besides, faults>>

\* the event is done with
Next1(c, f) == IF Len(f.todo) = 1 THEN After(c, f) ELSE [f EXCEPT !.todo = Tail(@)]

SaveQueueEvent ==
    LET f == fetcher[L1]
    IN  /\ f.pc = "queue"
        /\ UpdateL1MessageQueueEventsInfo(Head(f.todo))
        /\ Becomes(L1, Next1(L1, f))
        /\ UNCHANGED <<environment, batchEvent, leftover, deleted, unread, besides, faults>>

SaveBatchEvent ==
    LET f == fetcher[L1]
        e == Head(f.todo)
    IN  /\ f.pc = "batches"
        /\ InsertOrUpdateBatchEvents(e)
        /\ Becomes(L1, IF e.kind = "reverted" /\ batchEvent'[e.of] # None THEN f ELSE Next1(L1, f))
        /\ deleted' = {b \in deleted \cup {e.of} : batchEvent'[b] = None /\
                          (b \in deleted \/ e.kind = "reverted")}
        /\ UNCHANGED <<environment, message, leftover, unread, besides, faults>>

-----------------------------------------------------------------------------
(* The proofs of the withdrawals in finalized batches *)

\* finalized batches of which the proofs are to be computed
Finalized ==
    {b \in Batches : /\ batchEvent[b] # None
                     /\ batchEvent[b].status = "finalized" /\ ~batchEvent[b].updated}

\* the orders of some batches in which the indices do not decrease
ByIndex(batches) ==
    {s \in SetToSeqs(batches) : \A i, j \in DOMAIN s : i < j => Batch[s[i]].index <= Batch[s[j]].index}

\* variant: batches that end above the height are not left out
GetFinalizedBatches(height) == ByIndex(Finalized)

\* variant: the last batch first
GetFinalizedBatchesDescending(height) ==
    {Reverse(s) : s \in ByIndex({b \in Finalized : Batch[b].end <= height})}

GetFinalizedBatchesLEBlockHeight(height) == ByIndex({b \in Finalized : Batch[b].end <= height})

\* their nonces, in order
GetL2WithdrawalsByBlockRange(blocks) ==
    SetToSortSeq({w \in Withdrawals : /\ message[WithdrawalKey(w)] # None
                                      /\ message[WithdrawalKey(w)].block \in blocks}, <)

GetL2LatestFinalizedWithdrawal ==
    Max({-1} \cup {w \in Withdrawals : /\ message[WithdrawalKey(w)] # None
                                       /\ message[WithdrawalKey(w)].batch # 0})

Leaf(w) == <<w>>

\* the trie as of the last withdrawal with a proof
LastTrie ==
    LET w == GetL2LatestFinalizedWithdrawal
    IN  IF w = -1 THEN NewWithdrawTrie
        ELSE Initialize(w, Leaf(w), message[WithdrawalKey(w)].proof)

\* the batches up to the height before this round
StartUpdate ==
    \E batches \in GetFinalizedBatchesLEBlockHeight(fetcher[L2].sync) :
        LET f == fetcher[L2] IN
        /\ f.pc = "finalized"
        /\ Becomes(L2, IF batches = <<>> THEN Idle(f.to, f.last)
                       ELSE [f EXCEPT !.pc = "batch", !.todo = batches])
        /\ UNCHANGED <<environment, tables, faults>>

\* the withdrawals that the chain has in some blocks
WithdrawnIn(blocks) ==
    UNION {NoncesOf(i) : i \in {i \in DOMAIN Withdrawn :
        \E n \in blocks : chain[L2][n].event = Event("withdraw", i)}}

\* updateL2WithdrawMessageInfos up to its writes
ComputeProofs ==
    LET f    == fetcher[L2]
        b    == Head(f.todo)
        ws   == GetL2WithdrawalsByBlockRange(BlocksOf(b))
        trie == LastTrie
        proofs == AppendMessages(trie, [k \in DOMAIN ws |-> Leaf(ws[k])])
    IN  /\ f.pc = "batch"
        /\ IF ws = <<>> THEN Becomes(L2, [f EXCEPT !.pc = "mark"])
           ELSE IF trie.NextMessageNonce # message[WithdrawalKey(Head(ws))].nonce THEN EndRound(L2)
           ELSE Becomes(L2, [f EXCEPT !.pc = "proofs",
                   !.proofs = [k \in DOMAIN ws |-> [nonce |-> ws[k], proof |-> proofs[k]]]])
        /\ leftover' = leftover \cup
                {d \in {b} : /\ fetcher'[L2].pc = "proofs"
                            /\ ~ Range(ws) \subseteq WithdrawnIn(BlocksOf(d))}
        /\ UNCHANGED <<environment, message, batchEvent, deleted, unread, besides, faults>>

\* one round of UpdateBatchIndexRollupStatusMerkleProofOfL2Messages; of the batch, the
\* row has the index
SaveProof ==
    LET f == fetcher[L2]
        p == Head(f.proofs)
    IN  /\ f.pc = "proofs"
        /\ message' = [message EXCEPT ![WithdrawalKey(p.nonce)] =
                          [@ EXCEPT !.batch = Head(f.todo), !.proof = p.proof]]
        /\ Becomes(L2, [f EXCEPT !.proofs = Tail(@),
                                 !.pc = IF Len(f.proofs) = 1 THEN "mark" ELSE "proofs"])
        /\ UNCHANGED <<environment, batchEvent, leftover, deleted, unread, besides, faults>>

\* every row with the index of the batch
UpdateBatchEventStatus ==
    LET f      == fetcher[L2]
        b      == Head(f.todo)
        marked == {d \in Batches : batchEvent[d] # None /\ Batch[d].index = Batch[b].index}
    IN  /\ f.pc = "mark"
        /\ batchEvent' = [d \in Batches |-> IF d \in marked THEN [batchEvent[d] EXCEPT !.updated = TRUE]
                                            ELSE batchEvent[d]]
        /\ besides' = besides \cup (marked \ {b})
        /\ Becomes(L2, IF Len(f.todo) = 1 THEN Idle(f.to, f.last)
                       ELSE [f EXCEPT !.pc = "batch", !.todo = Tail(@)])
        /\ UNCHANGED <<environment, message, leftover, deleted, unread, faults>>

-----------------------------------------------------------------------------
\* the loops of the two fetchers
StepL1 == \/ StartL1 \/ ReadBlocks(L1) \/ ReadLogs(L1) \/ ReadLogsPending
          \/ SaveL1Messages \/ SaveQueueEvent \/ SaveBatchEvent
StepL2 == \/ StartL2 \/ ReadBlocks(L2) \/ ReadLogs(L2) \/ SaveL2Messages
          \/ StartUpdate \/ ComputeProofs \/ SaveProof \/ UpdateBatchEventStatus

Next ==
    \/ \E c \in Layers : Reorganize(c) \/ Fail(c)
    \/ StepL1
    \/ StepL2
    \/ Crash

Spec == Init /\ [][Next]_vars

-----------------------------------------------------------------------------
(* Properties *)

\* the hash a fetcher compares with is that of a canonical block
OnCanonical(c) == /\ fetcher[c].pc # "down"
                  /\ EpochAt(c, fetcher[c].sync) = fetcher[c].hash

InChain(c, e) == \E n \in DOMAIN chain[c] : chain[c][n].event = e

\* the row was deleted for a revert that is no longer in the chain; the commit may be
\* below the blocks that are read again
RevertUndone(b) == b \in deleted /\ ~InChain(L1, Event("reverted", b))

\* an event of the batch was left out, as its commit or another one was said to be pending
LeftOut(b, kinds) == \E e \in unread : e.of = b /\ e.kind \in kinds

\* a relay of the message that was reverted is in the same range, and above
RevertedAfter(c, n, of) ==
    \E m \in DOMAIN chain[c] : /\ n < m /\ m < n + FetchLimit
                               /\ chain[c][m].event = Event("relayReverted", of)

\* what the tables say of an event
Recorded(c, n, e) ==
    LET row == message[CHOOSE key \in KeysOf(c, e) : TRUE]
    IN  CASE e.kind \in {"sent", "withdraw"} ->
               \A key \in KeysOf(c, e) : message[key] # None /\ message[key].block = n
                                           /\ message[key].nonce = key.nonce
          [] e.kind = "relayed" -> /\ row # None
                                   /\ row.status = "relayed" \/ RevertedAfter(c, n, e.of)
          [] e.kind = "dropped" -> row # None /\ row.status = "dropped"
          [] e.kind = "failedTx" -> row # None /\ row.status = "sentTxReverted"
          [] e.kind \in {"failedRelayed", "relayReverted", "skipped"} -> row # None /\ row.status # "sent"
          [] OTHER -> TRUE

\* what the table of batches says of an event
BatchRecorded(n, e) ==
    LET row == batchEvent[e.of]
    IN  CASE e.kind = "committed" -> \/ row # None
                                     \/ InChain(L1, Event("reverted", e.of))
                                     \/ RevertUndone(e.of) \/ LeftOut(e.of, {"committed"})
          [] e.kind = "reverted"  -> row = None \/ row.block > n \/ LeftOut(e.of, {"reverted"})
          [] e.kind = "finalized" -> \/ row # None /\ row.status = "finalized"
                                     \/ RevertUndone(e.of) \/ LeftOut(e.of, {"committed", "finalized"})
          [] OTHER -> TRUE

\* Nothing is missed: as long as the last block a fetcher knows is canonical,
\* every event up to it is in the tables, whatever was reorganised, failed or
\* restarted on the way (getBlocksAndDetectReorg, Start).  The code has three
\* exceptions.  A message that is relayed, and of which another relay is
\* reverted later in the range, may be stored as reverted
\* (InsertOrUpdateL2RelayedMessagesOfL1Deposits).  A batch stays deleted when the
\* revert is undone and the commit is too far below to be read again
\* (InsertOrUpdateBatchEvents).  The batch events of a range are left out, and the
\* finalization of a batch that was left out has no row to go to, when the
\* transaction of a commit is said to be pending (ParseL1BatchEventLogs).
NothingMissed ==
    \A c \in Layers : OnCanonical(c) =>
        \A n \in 1 .. fetcher[c].sync :
            LET e == chain[c][n].event
            IN  Recorded(c, n, e) /\ (c = L1 => BatchRecorded(n, e))

\* Terminal statuses are not overwritten, whichever fetcher is ahead ("do not
\* over-write terminal statuses", cross_message.go).
TerminalIsFinal ==
    [][\A key \in Keys : message[key] # None /\ message[key].status \in Terminal =>
          message'[key].status = message[key].status]_vars

MessageRoots == [n \in 0 .. Cardinality(Withdrawals) |-> MessageRoot(n)]

\* Every proof in the table verifies on layer 1 against the root of the batch
\* the row names, and the batch is the one the withdrawal is in.  Rows are not
\* deleted: where the proofs of a batch were computed with the withdrawal of a
\* replaced block, that batch and those after it are excepted
\* (updateL2WithdrawMessageInfos, AppendMessages).
ProofsVerify ==
    \A w \in Withdrawals :
        LET row == message[WithdrawalKey(w)]
        IN  row # None /\ row.batch # 0 =>
              \/ /\ row.block \in BlocksOf(row.batch)
                 /\ VerifyMerkleProof(MessageRoots[Cardinality(WithdrawnIn(1 .. Batch[row.batch].end))],
                                      Leaf(w), w, row.proof)
              \/ \E b \in leftover : Batch[b].index <= Batch[row.batch].index

\* the row names the batch by its index
Names(row, b) == row.batch # 0 /\ Batch[row.batch].index = Batch[b].index

Proved(b) ==
    \A n \in BlocksOf(b) \cap DOMAIN chain[L2] :
        chain[L2][n].event.kind = "withdraw" =>
            \A key \in KeysOf(L2, chain[L2][n].event) : message[key] # None /\ Names(message[key], b)

\* A batch that is marked as updated has all its proofs: nothing will look at
\* it again (UpdateL1BatchIndexAndStatus).  The mark goes to all rows with the
\* index (UpdateBatchEventStatus): a batch that has taken the place of another,
\* the row of which is still there, is marked with it and is excepted.
UpdatedMeansProved ==
    \A b \in Batches : batchEvent[b] # None /\ batchEvent[b].updated => Proved(b) \/ b \in besides

\* a withdrawal has a proof for the index of the batch
ProvedInPart(b) ==
    \E w \in Withdrawals : LET row == message[WithdrawalKey(w)] IN row # None /\ Names(row, b)

\* a batch with a smaller index is not in the table, or will not be finalized there
Lost(b) == \E d \in Batches : /\ Batch[d].index < Batch[b].index
                              /\ RevertUndone(d) \/ LeftOut(d, {"committed", "finalized"})

\* The batches are taken in an order and at a time at which the first
\* withdrawal of each is the one after the last with a proof, so that the
\* error "nonce mismatch" is not met (updateL2WithdrawMessageInfos).  The
\* exceptions: the batch, or another with its index, has proofs already, as its
\* update was cut short or its row was inserted anew; or one before it was lost.
NoncesInStep ==
    LET f  == fetcher[L2]
        b  == Head(f.todo)
        ws == GetL2WithdrawalsByBlockRange(BlocksOf(b))
    IN  f.pc = "batch" =>
            \/ ws = <<>>
            \/ LastTrie.NextMessageNonce = Head(ws)
            \/ ProvedInPart(b)
            \/ Lost(b)
=============================================================================
