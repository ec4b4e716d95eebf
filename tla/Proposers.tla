----------------------------- MODULE Proposers -----------------------------
(***************************************************************************)
(* The loops of the rollup relayer that cut layer 2 into chunks and        *)
(* batches: the watcher stores blocks, the chunk proposer groups blocks,   *)
(* the batch proposer groups chunks.  They share three tables and run      *)
(* concurrently; a proposal is computed from what was read, then written.  *)
(*                                                                         *)
(* Besides what Codec needs a block has a size, which stands for the rows  *)
(* and transactions that only a chunk is limited in, given as the size of  *)
(* the chain up to it.  Whether the first block of a proposal has timed    *)
(* out is a free choice.  Row i of the tables chunk and batch is at i + 1. *)
(***************************************************************************)
EXTENDS Codec

CONSTANTS
    Chains,             \* layer 2 chains: sequences of blocks
    Configs,            \* heights of all forks, and of Bernoulli
    FetchLimit,         \* blocksFetchLimit
    MaxBlocksPerChunk, MaxChunkSize, MaxChunkCalldata, MaxChunkGas,
    MaxChunksPerBatch, MaxBatchCalldata, MaxBatchGas,
    MaxFaults           \* bound on failing transactions and crashes

ASSUME ProposersAssumption ==
    /\ FetchLimit \in Nat \ {0}
    /\ MaxBlocksPerChunk \in 1 .. Byte - 1
    /\ MaxChunksPerBatch \in Nat \ {0}
    /\ \A c \in Configs : c.bernoulli \in c.forks
    /\ \A chain \in Chains : \A m, n \in DOMAIN chain :
         chain[n].number = n /\ (m < n => /\ chain[m].upTo < chain[n].upTo
                  /\ \A p \in Range(chain[m].included), q \in Range(chain[n].included) : p < q)

VARIABLES
    l2, config,     \* the chain and the forks; they do not change
    block,          \* table l2_block: chunk of a block, or None
    chunk,          \* table chunk
    batch,          \* table batch
    chunkProposal,  \* blocks proposeChunk is about to put into a chunk, or 0
    batchProposal,  \* chunks proposeBatch is about to put into a batch, or 0
    faults

vars == <<l2, config, block, chunk, batch, chunkProposal, batchProposal, faults>>

None == -1

IsBernoulli(n) == n >= config.bernoulli
Version(n) == IF IsBernoulli(n) THEN V1 ELSE V0

Lesser(a, b) == IF a < b THEN a ELSE b
LastOf(s) == s[Len(s)]

Fault == faults < MaxFaults /\ faults' = faults + 1

\* initializeGenesis: block 0 is in chunk 0, in batch 0, and in no row of l2_block
Init ==
    /\ l2 \in Chains
    /\ config \in Configs
    /\ block = <<>>
    /\ chunk = <<[start |-> 0, end |-> 0, before |-> 0, popped |-> 0, hash |-> <<>>,
                  batch |-> 0]>>
    /\ batch = <<[startChunk |-> 0, endChunk |-> 0, startHash |-> <<>>, endHash |-> <<>>,
                  header |-> Header(V0, 0, 0, 0, <<>>, <<>>, <<>>)]>>
    /\ chunkProposal = 0
    /\ batchProposal = 0
    /\ faults = 0

-----------------------------------------------------------------------------
(* The watcher *)

\* a range that getAndStoreBlocks stores, up to the confirmed height it was given
TryFetchRunningMissingBlocks ==
    \E to \in Len(block) + 1 .. Lesser(Len(block) + FetchLimit, Len(l2)) :
        /\ block' = block \o [i \in 1 .. to - Len(block) |-> None]
        /\ UNCHANGED <<l2, config, chunk, batch, chunkProposal, batchProposal, faults>>

-----------------------------------------------------------------------------
(* What both proposers do with the items they have loaded *)

\* the size of the blocks from one to another
Size(from, to) == l2[to].upTo - IF from = 1 THEN 0 ELSE l2[from - 1].upTo

Due(timedOut, n, max) == timedOut \/ n = max

\* how many items the proposal takes; none if the first is too large
Proposed(fit, n, max, timedOut) ==
    IF fit < n \/ Due(timedOut, n, max) THEN fit ELSE 0

-----------------------------------------------------------------------------
(* The chunk proposer *)

\* variant: a fork at the height itself counts as one to come
UntilForkOrHere(height) ==
    LET next == {f \in config.forks : f >= height}
    IN  IF next = {} THEN 0 ELSE Min(next) - height

BlocksUntilFork(height) ==
    LET next == {f \in config.forks : f > height}
    IN  IF next = {} THEN 0 ELSE Min(next) - height

MaxBlocksThisChunk(height) ==
    LET until == BlocksUntilFork(height)
    IN  IF until # 0 THEN Lesser(until, MaxBlocksPerChunk) ELSE MaxBlocksPerChunk

GetUnchunkedBlockHeight == LastOf(chunk).end + 1

\* how many blocks from a height are loaded
GetL2BlocksGEHeight(height) == Lesser(MaxBlocksThisChunk(height), Len(block) - height + 1)

\* the limits of the codec on a chunk
ChunkEncodable(blocks) ==
    IF IsBernoulli(blocks[1].number) THEN EstimateChunkL1CommitBlobSize(blocks) <= MaxBlobSize
    ELSE /\ EstimateChunkL1CommitCalldataSize(blocks) <= MaxChunkCalldata
         /\ EstimateChunkL1CommitGas(blocks) <= MaxChunkGas

\* of n blocks from a height, those before the first that exceeds a limit
FittingBlocks(height, n) ==
    Max({0} \cup {k \in 1 .. n : /\ Size(height, height + k - 1) <= MaxChunkSize
                                 /\ ChunkEncodable(SubSeq(l2, height, height + k - 1))})

\* proposeChunk up to its transaction
ProposeChunk(timedOut) ==
    LET height == GetUnchunkedBlockHeight
        n      == GetL2BlocksGEHeight(height)
        fit    == FittingBlocks(height, n)
    IN  /\ chunkProposal = 0
        /\ n > 0
        /\ chunkProposal' = Proposed(fit, n, MaxBlocksThisChunk(height), timedOut)
        /\ UNCHANGED <<l2, config, block, chunk, batch, batchProposal, faults>>

InsertChunk(start, end) ==
    LET before == LastOf(chunk).before + LastOf(chunk).popped
        blocks == SubSeq(l2, start, end)
    IN  /\ chunk' = Append(chunk,
              [start |-> start, end |-> end, before |-> before,
               popped |-> PoppedInChunk(blocks, before),
               hash |-> ChunkHash(Version(start), blocks, before), batch |-> None])
        /\ block' = [n \in DOMAIN block |-> IF n \in start .. end THEN Len(chunk) ELSE block[n]]

\* GetChunkHash returns an error
ChunkRefused(start, end) ==
    RefusesChunk(Version(start), SubSeq(l2, start, end), LastOf(chunk).before + LastOf(chunk).popped)

\* a failing transaction leaves the tables alone
UpdateDBChunkInfo ==
    LET start == GetUnchunkedBlockHeight
        end   == start + chunkProposal - 1
    IN  /\ chunkProposal > 0
        /\ chunkProposal' = 0
        /\ \/ ~ ChunkRefused(start, end) /\ InsertChunk(start, end) /\ UNCHANGED faults
           \/ ChunkRefused(start, end) /\ UNCHANGED <<block, chunk, faults>>
           \/ Fault /\ UNCHANGED <<block, chunk>>
        /\ UNCHANGED <<l2, config, batch, batchProposal>>

-----------------------------------------------------------------------------
(* The batch proposer *)

GetFirstUnbatchedChunkIndex == LastOf(batch).endChunk + 1

\* how many chunks are loaded
GetChunksGEIndex(first) == Lesser(MaxChunksPerBatch, Len(chunk) - first)

BlocksOf(i) == SubSeq(l2, chunk[i + 1].start, chunk[i + 1].end)

\* getDAChunks
DAChunks(from, to) == [i \in 1 .. to - from + 1 |-> BlocksOf(from + i - 1)]

\* the limits of the codec on a batch
BatchEncodable(chunks) ==
    IF IsBernoulli(chunks[1][1].number) THEN EstimateBatchL1CommitBlobSize(chunks) <= MaxBlobSize
    ELSE /\ EstimateBatchL1CommitCalldataSize(chunks) <= MaxBatchCalldata
         /\ EstimateBatchL1CommitGas(chunks) <= MaxBatchGas

\* of n chunks, those before the first that exceeds a limit
FittingChunks(first, n) ==
    Max({0} \cup {k \in 1 .. n : BatchEncodable(DAChunks(first, first + k - 1))})

\* of n chunks, those before one, other than the first, that starts at a fork
BeforeFork(first, n) ==
    Min({i \in 1 .. n - 1 : chunk[first + i + 1].start \in config.forks} \cup {n})

\* codec of the last batch, given its last block
ParentBatchCodecVersion(end) == IF Len(batch) > 1 THEN Version(end) ELSE V0

\* GetTotalL1MessagePoppedBeforeBatch returns no error
ParentDecodes(end) == Decodes(LastOf(batch).header, ParentBatchCodecVersion(end))

\* proposeBatch up to its transaction; an error ends it like a proposal of none
ProposeBatch(timedOut) ==
    LET first   == GetFirstUnbatchedChunkIndex
        loaded  == GetChunksGEIndex(first)
        n       == BeforeFork(first, loaded)
        max     == IF n < loaded THEN n ELSE MaxChunksPerBatch
        start   == chunk[first + 1].start
        fit     == FittingChunks(first, n)
    IN  /\ batchProposal = 0
        /\ loaded > 0
        /\ ParentDecodes(start - 1)
        /\ batchProposal' = Proposed(fit, n, max, timedOut)
        /\ UNCHANGED <<l2, config, block, chunk, batch, chunkProposal, faults>>

\* InsertBatch and GetBatchMetadata
BatchRow(from, to, before) ==
    LET chunks  == DAChunks(from, to)
        version == Version(chunk[from + 1].start)
        end     == before + PoppedInChunk(FlattenSeq(DAChunks(from, to - 1)), before)
    IN  [startChunk |-> from, endChunk |-> to,
         startHash |-> ChunkHash(version, chunks[1], before),
         endHash   |-> ChunkHash(version, LastOf(chunks), end),
         header    |-> NewDABatch(version, Len(batch), chunks, before)]

\* NewDABatch returns an error
Refused(from, to) ==
    RefusesBatch(Version(chunk[from + 1].start), DAChunks(from, to), LastOf(batch).header.total)

InsertBatch(from, to) ==
    /\ ~ Refused(from, to)
    /\ batch' = Append(batch, BatchRow(from, to, LastOf(batch).header.total))
    /\ chunk' = [i \in DOMAIN chunk |->
                    IF i - 1 \in from .. to THEN [chunk[i] EXCEPT !.batch = Len(batch)]
                    ELSE chunk[i]]
    /\ UNCHANGED <<chunkProposal, faults>>

\* the transaction fails; when it is the insertion that fails, the logging of
\* the error dereferences nil and the process, with all its loops, restarts
InsertBatchFails(from, to) ==
    /\ IF Refused(from, to)
       THEN chunkProposal' = 0 /\ UNCHANGED faults
       ELSE chunkProposal' \in {chunkProposal, 0} /\ Fault
    /\ UNCHANGED <<batch, chunk>>

UpdateDBBatchInfo ==
    LET from == GetFirstUnbatchedChunkIndex
        to   == from + batchProposal - 1
    IN  /\ batchProposal > 0
        /\ batchProposal' = 0
        /\ InsertBatch(from, to) \/ InsertBatchFails(from, to)
        /\ UNCHANGED <<l2, config, block>>

-----------------------------------------------------------------------------

(* Of the relayer, what it sends to commit batch row b; RollupRelayer has the rest *)

\* constructCommitBatchPayloadCodecV0: version and bitmap of the stored header
CommitPayloadV0(b) ==
    [version |-> batch[b].header.version, bitmap |-> batch[b].header.skipped, blob |-> <<>>,
     chunks |-> [i \in 1 .. batch[b].endChunk - batch[b].startChunk + 1 |->
                    LET c == batch[b].startChunk + i
                    IN  V0Encode(BlocksOf(c - 1), chunk[c].before)]]

\* constructCommitBatchPayloadCodecV1: the batch is computed anew
CommitPayloadV1(b) ==
    LET from  == batch[b].startChunk
        to    == batch[b].endChunk
        again == NewDABatch(V1, b - 1, DAChunks(from, to), chunk[from + 1].before)
    IN  [version |-> again.version, bitmap |-> again.skipped, blob |-> again.blob,
         chunks |-> [i \in 1 .. to - from + 1 |->
                        V1Encode(BlocksOf(from + i - 1), chunk[from + i].before)]]

CommitPayload(b) ==
    IF IsBernoulli(chunk[batch[b].startChunk + 1].start) THEN CommitPayloadV1(b)
    ELSE CommitPayloadV0(b)

-----------------------------------------------------------------------------

Restart ==
    /\ Fault
    /\ chunkProposal + batchProposal > 0
    /\ chunkProposal' = 0
    /\ batchProposal' = 0
    /\ UNCHANGED <<l2, config, block, chunk, batch>>

Next ==
    \/ TryFetchRunningMissingBlocks
    \/ \E timedOut \in BOOLEAN : ProposeChunk(timedOut)
    \/ UpdateDBChunkInfo
    \/ \E timedOut \in BOOLEAN : ProposeBatch(timedOut)
    \/ UpdateDBBatchInfo
    \/ Restart

(***************************************************************************)
(* The loops run: a proposal is written or given up, and what waits to be  *)
(* proposed has timed out at some time, for good.                          *)
(***************************************************************************)
ChunkProposalEnds == chunkProposal > 0 /\ chunkProposal' = 0
BatchProposalEnds == batchProposal > 0 /\ batchProposal' = 0

Fairness ==
    /\ WF_chunkProposal(ProposeChunk(TRUE))
    /\ WF_chunkProposal(ChunkProposalEnds)
    /\ WF_batchProposal(ProposeBatch(TRUE))
    /\ WF_batchProposal(BatchProposalEnds)

Spec == Init /\ [][Next]_vars /\ Fairness

-----------------------------------------------------------------------------

Chunks == {i \in DOMAIN chunk : i > 1}
Batches == {i \in DOMAIN batch : i > 1}

\* The chunks cut the stored blocks, and the batches cut the chunks, without a
\* gap or an overlap, and the rows point back at each other: what
\* UpdateChunkHashInRange and UpdateBatchHashInRange wrote is what the ranges
\* of the rows say, whatever was stored, failed or restarted in between.  And no
\* batch crosses a fork: its blocks are hashed, encoded and proved by the rules of
\* one codec and one circuit.
Partition ==
    /\ \A i \in Chunks : chunk[i].start = chunk[i - 1].end + 1
    /\ \A i \in Batches : batch[i].startChunk = batch[i - 1].endChunk + 1
    /\ \A n \in DOMAIN block :
         \A i \in Chunks : block[n] = i - 1 <=> n \in chunk[i].start .. chunk[i].end
    /\ \A i \in DOMAIN chunk, b \in DOMAIN batch :
         chunk[i].batch = b - 1 <=> i - 1 \in batch[b].startChunk .. batch[b].endChunk
    /\ \A b \in Batches : \A f \in config.forks :
         f \notin chunk[batch[b].startChunk + 1].start + 1 .. chunk[batch[b].endChunk + 1].end

\* Two computations of the same data agree: the rows of the chunks, which
\* InsertChunk adds up one after the other and whose hashes name the chunk
\* proofs, and the batch, which NewDABatch and GetBatchMetadata compute from
\* the header of its parent and the bitmap of skipped messages.
RowsMatchHeaders ==
    \A b \in Batches :
        LET rows == SubSeq(chunk, batch[b].startChunk + 1, batch[b].endChunk + 1)
        IN  /\ batch[b - 1].header.total = rows[1].before
            /\ batch[b].header.total = LastOf(rows).before + LastOf(rows).popped
            /\ batch[b].header.dataHash = [i \in DOMAIN rows |-> rows[i].hash]
            /\ batch[b].startHash = rows[1].hash /\ batch[b].endHash = LastOf(rows).hash

\* The contract accepts what the relayer sends to commit a batch, and the
\* header it computes is the one of the row, which the relayer later sends to
\* finalize the batch: block contexts, hashes of included messages and of
\* transactions, counts and bitmap agree between the codecs in Go and the
\* contract, across skipped messages, words of the bitmap and both versions.
CommitReproducesHeader ==
    \A b \in Batches :
        LET p == CommitPayload(b)
        IN  /\ CanCommitBatch(p.version, p.chunks, p.bitmap)
            /\ CommitBatch(p.version, batch[b - 1].header, p.chunks, p.bitmap, p.blob)
                 = batch[b].header

\* The blob of a batch, read by its metadata, gives the layer 2 transactions of
\* every chunk of the batch, also of chunks that have none.
BlobReadsBack ==
    \A b \in Batches : batch[b].header.version = V1 =>
        ReadBlob(batch[b].header.blob) =
            [i \in 1 .. batch[b].endChunk - batch[b].startChunk + 1 |->
                FlattenSeq(FlattenSeq([n \in DOMAIN BlocksOf(batch[b].startChunk + i - 1) |->
                    BlocksOf(batch[b].startChunk + i - 1)[n].txs]))]

Batched(n) == \E i \in DOMAIN chunk : n \in chunk[i].start .. chunk[i].end /\ chunk[i].batch # None

\* proposeChunk fails for ever at a block up to n: the first block exceeds the limits of
\* a chunk, or one of those that fit has counts too large for a block context
ChunksStuck(n) ==
    LET height == GetUnchunkedBlockHeight
        fit    == FittingBlocks(height, GetL2BlocksGEHeight(height))
    IN  height <= n /\ (fit = 0 \/ ChunkRefused(height, height + fit - 1))

\* proposeBatch fails for ever at a chunk up to block n: the first chunk, within the
\* limits of a chunk, alone exceeds those of a batch, or more chunks wait than the
\* metadata of a blob holds, and the proposal, which takes all that fit, is refused
BatchesStuck(n) ==
    LET first  == GetFirstUnbatchedChunkIndex
        loaded == GetChunksGEIndex(first)
        fit    == FittingChunks(first, BeforeFork(first, loaded))
        start  == chunk[first + 1].start
    IN  /\ loaded > 0
        /\ start <= n
        /\ fit = 0 \/ (IsBernoulli(start) /\ fit > MaxNumChunks)

\* Every stored block ends in a batch, in spite of failing transactions and
\* restarts, unless one of the proposers is stuck at or before it in one of the four
\* ways above.  Otherwise what the estimates let through is never refused by
\* NewDABatch, and the header of the last batch is always decoded with the codec
\* that encoded it.
BlocksAreBatched ==
    \A n \in 1 .. Max({Len(chain) : chain \in Chains}) :
        n \in DOMAIN block ~> Batched(n) \/ ChunksStuck(n) \/ BatchesStuck(n)

=============================================================================
