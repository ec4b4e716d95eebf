------------------------------- MODULE Codec -------------------------------
(***************************************************************************)
(* How blocks become calldata and blobs, twice: as the codecs of the       *)
(* rollup relayer encode and hash chunks and batches, and as the contract  *)
(* ScrollChain decodes and hashes what is sent to it.                      *)
(*                                                                         *)
(* A block has a number, the queue indices of the layer 1 messages in it,  *)
(* and the encodings of its layer 2 transactions, which are sequences of   *)
(* positive numbers.  A field of fixed width (a count, a length, the block *)
(* context) takes one place of a sequence.  A hash is what it is the hash  *)
(* of.  A word of a bitmap is a set of bit positions.                      *)
(***************************************************************************)
EXTENDS BlobSize, Sequences, SequencesExt, FiniteSetsExt

CONSTANTS
    W,          \* bits in a word of a bitmap, 256 in the code
    Byte,       \* values of the byte that counts the blocks, 256 in the code
    MaxUint16,  \* the largest count in a block context
    BatchGas    \* gas estimated for a batch besides its chunks

ASSUME CodecAssumption ==
    /\ W \in Nat \ {0}
    /\ Byte \in Nat \ {0, 1}
    /\ MaxUint16 \in Nat
    /\ BatchGas \in Nat

V0 == 0
V1 == 1

L1Hash(q) == <<0, q>>

-----------------------------------------------------------------------------
(* Blocks *)

\* variant: the last message itself is not counted
UpToLast(block, before) ==
    IF block.included = <<>> THEN 0 ELSE Last(block.included) - before

\* Block.NumL1Messages: included and skipped messages
NumL1Messages(block, before) ==
    IF block.included = <<>> THEN 0 ELSE Last(block.included) - before + 1

\* the messages popped before each block of a sequence, and after the last
PoppedBefore(blocks, before) ==
    LET total[i \in 1 .. Len(blocks) + 1] ==
            IF i = 1 THEN before
            ELSE LET sofar == total[i - 1] IN sofar + NumL1Messages(blocks[i - 1], sofar)
    IN  total

\* Chunk.NumL1Messages
PoppedInChunk(blocks, before) == PoppedBefore(blocks, before)[Len(blocks) + 1] - before

\* NewDABlock; skipped messages count as transactions
NewDABlock(block, before) ==
    [number          |-> block.number,
     numTransactions |-> NumL1Messages(block, before) + Len(block.txs),
     numL1Messages   |-> NumL1Messages(block, before)]

\* what makes NewDABlock fail; numL1Messages is then at most numTransactions
RefusesBlock(block, before) == NewDABlock(block, before).numTransactions > MaxUint16

NewDAChunk(blocks, before) ==
    LET total == PoppedBefore(blocks, before)
    IN  [i \in 1 .. Len(blocks) |-> NewDABlock(blocks[i], total[i])]

\* what makes NewDAChunk fail; codecv1 does not check the number of blocks
RefusesChunk(version, blocks, before) ==
    \/ version = V0 /\ Len(blocks) >= Byte
    \/ \E i \in DOMAIN blocks : RefusesBlock(blocks[i], PoppedBefore(blocks, before)[i])

\* of the 60 bytes of a context, the 58 that are hashed
Hashed(context) == <<context.number, context.numTransactions>>

HashedContexts(contexts) == [i \in DOMAIN contexts |-> Hashed(contexts[i])]

L1Hashes(block) ==
    [i \in DOMAIN block.included |-> L1Hash(block.included[i])]

Over(s, F(_)) == FlattenSeq([i \in DOMAIN s |-> F(s[i])])

SumOver(s, F(_)) ==
    LET sum[i \in 0 .. Len(s)] == IF i = 0 THEN 0 ELSE sum[i - 1] + F(s[i]) IN sum[Len(s)]

TxBytes(block) == SumOver(block.txs, Len)

-----------------------------------------------------------------------------
(* codecv0 *)

L2Encoding(block) ==
    FlattenSeq([j \in DOMAIN block.txs |-> <<Len(block.txs[j])>> \o block.txs[j]])

V0Encode(blocks, before) ==
    <<Len(blocks) % Byte>> \o NewDAChunk(blocks, before) \o Over(blocks, L2Encoding)

TxHashes(block) == L1Hashes(block) \o block.txs

V0Hash(blocks, before) ==
    HashedContexts(NewDAChunk(blocks, before)) \o Over(blocks, TxHashes)

\* a context, and a length before every transaction
EstimateBlockL1CommitCalldataSize(block) == 1 + Len(block.txs) + TxBytes(block)

EstimateChunkL1CommitCalldataSize(blocks) == SumOver(blocks, EstimateBlockL1CommitCalldataSize)

EstimateBatchL1CommitCalldataSize(chunks) == SumOver(chunks, EstimateChunkL1CommitCalldataSize)

\* the gas grows with the calldata and the messages included; weights are one
EstimateBlockL1CommitGas(block) ==
    EstimateBlockL1CommitCalldataSize(block) + Len(block.included)

EstimateChunkL1CommitGas(blocks) == 1 + SumOver(blocks, EstimateBlockL1CommitGas)

EstimateBatchL1CommitGas(chunks) == BatchGas + SumOver(chunks, EstimateChunkL1CommitGas)

-----------------------------------------------------------------------------
(* codecv1 *)

V1Encode(blocks, before) == <<Len(blocks) % Byte>> \o NewDAChunk(blocks, before)

V1Hash(blocks, before) ==
    HashedContexts(NewDAChunk(blocks, before)) \o Over(blocks, L1Hashes)

L2Txs(block) == FlattenSeq(block.txs)

\* the layer 2 transactions of a chunk, as they are in a blob
BlobData(blocks) == Over(blocks, L2Txs)

\* variant: the ends of the chunks instead of their sizes
EndsOfChunks(chunks) ==
    <<Len(chunks)>> \o [i \in 1 .. MaxNumChunks |->
        IF i <= Len(chunks) THEN Len(FlattenSeq([k \in 1 .. i |-> BlobData(chunks[k])])) ELSE 0]

\* the number of chunks and their sizes
Metadata(chunks) ==
    <<Len(chunks)>> \o [i \in 1 .. MaxNumChunks |->
        IF i <= Len(chunks) THEN Len(BlobData(chunks[i])) ELSE 0]

ConstructBlobPayload(chunks) == Metadata(chunks) \o Over(chunks, BlobData)

\* the payload, with a zero byte before every Usable bytes, and zeros after it
MakeBlobCanonical(payload) ==
    [i \in 1 .. Elements * (Usable + 1) |->
        LET e == (i - 1) \div (Usable + 1)
            r == (i - 1) % (Usable + 1)
            p == e * Usable + r
        IN  IF r = 0 \/ p > Len(payload) THEN 0 ELSE payload[p]]

\* chunkL1CommitBlobDataSize
BlobDataSize(blocks) == SumOver(blocks, TxBytes)

EstimateChunkL1CommitBlobSize(blocks) == EstimateL1CommitBlobSize(BlobDataSize(blocks))

EstimateBatchL1CommitBlobSize(chunks) == EstimateL1CommitBlobSize(SumOver(chunks, BlobDataSize))

-----------------------------------------------------------------------------
(* Batches *)

ChunkHash(version, blocks, before) ==
    IF version = V0 THEN V0Hash(blocks, before) ELSE V1Hash(blocks, before)

\* computeBatchDataHash
BatchDataHash(version, chunks, before) ==
    LET start == PoppedBefore(FlattenSeq(chunks), before)
        size  == [i \in 0 .. Len(chunks) - 1 |-> Len(FlattenSeq(SubSeq(chunks, 1, i)))]
    IN  [i \in 1 .. Len(chunks) |-> ChunkHash(version, chunks[i], start[size[i - 1] + 1])]

\* the queue indices ConstructSkippedBitmap meets, in the order of its loops
Messages(chunks) == Over(FlattenSeq(chunks), LAMBDA b : b.included)

\* words that hold n bits
Words(n) == (n + W - 1) \div W

\* variant: the bits are queue indices
QueueIndices(before, after, included) ==
    [w \in 1 .. Words(after - before) |->
        {q % W : q \in {p \in before .. after - 1 : p \notin included /\ p \div W = w - 1}}]

\* the bits are relative to the first message of the batch
SkippedBitmap(before, after, included) ==
    [w \in 1 .. Words(after - before) |->
        {(q - before) % W :
            q \in {p \in before .. after - 1 : p \notin included /\ (p - before) \div W = w - 1}}]

\* ConstructSkippedBitmap: "unexpected batch payload", a message before nextIndex
UnexpectedPayload(chunks, before) ==
    LET q == Messages(chunks)
        nextIndex(i) == IF i = 1 THEN before ELSE q[i - 1] + 1
    IN  \E i \in DOMAIN q : q[i] < nextIndex(i)

\* what makes NewDABatch fail
RefusesBatch(version, chunks, before) ==
    \/ UnexpectedPayload(chunks, before)
    \/ /\ version = V1
       /\ Len(chunks) > MaxNumChunks \/ Oversized(Len(ConstructBlobPayload(chunks)))

\* the header of a batch; the hash of the parent is left out, since both sides
\* take it from the same bytes
Header(version, index, popped, total, dataHash, blob, bitmap) ==
    [version |-> version, index |-> index, popped |-> popped, total |-> total,
     dataHash |-> dataHash, blob |-> blob, skipped |-> bitmap]

Blob(version, chunks) ==
    IF version = V0 THEN <<>> ELSE MakeBlobCanonical(ConstructBlobPayload(chunks))

NewDABatch(version, index, chunks, before) ==
    LET included == Messages(chunks)
        after    == IF included = <<>> THEN before ELSE Last(included) + 1
    IN  Header(version, index, after - before, after, BatchDataHash(version, chunks, before),
               Blob(version, chunks), SkippedBitmap(before, after, Range(included)))

\* NewDABatchFromBytes: the counts are at the same place in both versions, but a
\* short header is refused; the fixed part of codecv1 is longer by one word
Decodes(header, version) ==
    version = V1 => header.version = V1 \/ header.skipped # <<>>

-----------------------------------------------------------------------------
(* ScrollChain *)

\* bit i of a bitmap; calldata ends with zeros
Skips(bitmap, i) == i \div W < Len(bitmap) /\ i % W \in bitmap[i \div W + 1]

\* _loadL1MessageHashes: the messages of a block that are not skipped
LoadL1MessageHashes(count, popped, overall, bitmap) ==
    LET read == SelectSeq([i \in 1 .. count |-> i - 1], LAMBDA i : ~ Skips(bitmap, popped + i))
    IN  [k \in DOMAIN read |-> L1Hash(overall + read[k])]

LastL1MessageSkipped(count, popped, bitmap) == count > 0 /\ Skips(bitmap, popped + count - 1)

\* loadL2TxHash, count times: where the transactions start, and where the last ends
L2TxPtrs(chunk, ptr, count) ==
    LET at[j \in 0 .. count] ==
            IF j = 0 THEN ptr
            ELSE IF at[j - 1] > Len(chunk) THEN at[j - 1] + 1
            ELSE at[j - 1] + 1 + chunk[at[j - 1]]
    IN  at

LoadL2TxHashes(chunk, ptr, count) ==
    LET at == L2TxPtrs(chunk, ptr, count)
    IN  [j \in 1 .. count |-> SubSeq(chunk, at[j - 1] + 1, at[j] - 1)]

NumL2Txs(context) == context.numTransactions - context.numL1Messages

\* the contexts of an encoded chunk
Contexts(chunk) == SubSeq(chunk, 2, 1 + chunk[1])

\* the messages counted by the first n contexts
Counted(contexts, n) == SumOver(SubSeq(contexts, 1, n), LAMBDA c : c.numL1Messages)

\* the conditions on the blocks of a chunk that both versions share; the limit
\* on the transactions of a chunk is one of the metrics of the proposers
ValidBlocks(contexts, popped, bitmap) ==
    \A i \in DOMAIN contexts :
        /\ contexts[i].numTransactions >= contexts[i].numL1Messages
        /\ ~ LastL1MessageSkipped(contexts[i].numL1Messages, popped + Counted(contexts, i - 1), bitmap)

ContractL1Hashes(contexts, i, popped, overall, bitmap) ==
    LoadL1MessageHashes(contexts[i].numL1Messages, popped + Counted(contexts, i - 1),
                        overall + Counted(contexts, i - 1), bitmap)

\* where the layer 2 transactions of each block start in an encoded chunk
BlockTxPtrs(chunk) ==
    LET contexts == Contexts(chunk)
        at[i \in 1 .. Len(contexts) + 1] ==
            IF i = 1 THEN 2 + Len(contexts)
            ELSE L2TxPtrs(chunk, at[i - 1], NumL2Txs(contexts[i - 1]))[NumL2Txs(contexts[i - 1])]
    IN  at

ValidChunkV0(chunk, popped, bitmap) ==
    /\ chunk[1] > 0
    /\ Len(chunk) >= 1 + chunk[1]
    /\ ValidBlocks(Contexts(chunk), popped, bitmap)
    /\ BlockTxPtrs(chunk)[chunk[1] + 1] = Len(chunk) + 1

CommitChunkV0(chunk, popped, overall, bitmap) ==
    LET contexts == Contexts(chunk)
    IN  HashedContexts(contexts) \o FlattenSeq([i \in DOMAIN contexts |->
            ContractL1Hashes(contexts, i, popped, overall, bitmap)
              \o LoadL2TxHashes(chunk, BlockTxPtrs(chunk)[i], NumL2Txs(contexts[i]))])

ValidChunkV1(chunk, popped, bitmap) ==
    /\ chunk[1] > 0
    /\ Len(chunk) = 1 + chunk[1]
    /\ ValidBlocks(Contexts(chunk), popped, bitmap)

CommitChunkV1(chunk, popped, overall, bitmap) ==
    LET contexts == Contexts(chunk)
    IN  HashedContexts(contexts) \o FlattenSeq([i \in DOMAIN contexts |->
            ContractL1Hashes(contexts, i, popped, overall, bitmap)])

\* messages popped by the first n chunks
PoppedByChunks(chunks, n) ==
    SumOver(SubSeq(chunks, 1, n), LAMBDA c : Counted(Contexts(c), c[1]))

\* the header commitBatch stores the hash of, given the header of the parent
CommitBatch(version, parent, chunks, bitmap, blob) ==
    LET popped == PoppedByChunks(chunks, Len(chunks))
        hash(i) == IF version = V0
                   THEN CommitChunkV0(chunks[i], PoppedByChunks(chunks, i - 1),
                                      parent.total + PoppedByChunks(chunks, i - 1), bitmap)
                   ELSE CommitChunkV1(chunks[i], PoppedByChunks(chunks, i - 1),
                                      parent.total + PoppedByChunks(chunks, i - 1), bitmap)
    IN  Header(version, parent.index + 1, popped, parent.total + popped,
               [i \in DOMAIN chunks |-> hash(i)], blob, bitmap)

\* commitBatch does not revert
CanCommitBatch(version, chunks, bitmap) ==
    /\ chunks # <<>>
    /\ \A i \in DOMAIN chunks :
         IF version = V0 THEN ValidChunkV0(chunks[i], PoppedByChunks(chunks, i - 1), bitmap)
         ELSE ValidChunkV1(chunks[i], PoppedByChunks(chunks, i - 1), bitmap)
    /\ Len(bitmap) = Words(PoppedByChunks(chunks, Len(chunks)))

-----------------------------------------------------------------------------

\* the chunks a reader of the blob finds, from its metadata
ReadBlob(blob) ==
    LET payload  == [p \in 1 .. Usable * Elements |->
                        blob[((p - 1) \div Usable) * (Usable + 1) + ((p - 1) % Usable) + 2]]
        start[i \in 1 .. payload[1] + 1] ==
            IF i = 1 THEN MetadataLength + 1 ELSE start[i - 1] + payload[i]
    IN  [i \in 1 .. payload[1] |-> SubSeq(payload, start[i], start[i + 1] - 1)]

=============================================================================
