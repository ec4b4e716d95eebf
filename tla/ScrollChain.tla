---------------------------- MODULE ScrollChain ----------------------------
(***************************************************************************)
(* The layer 1 contracts ScrollChain and L1MessageQueue after the genesis  *)
(* batch was imported: batches are committed on top of each other, may be  *)
(* reverted, and are finalized in order, which pops the layer 1 messages   *)
(* they consumed and records which of them layer 2 skipped.                *)
(*                                                                         *)
(* A batch header stands for its hash, so it contains its parent.  Words   *)
(* of a bitmap are sets of bit positions; the word size, 256 in the code,  *)
(* is a parameter.  A batch is one block: more blocks only add conditions  *)
(* of the same kind.                                                       *)
(***************************************************************************)
EXTENDS Integers, Sequences

CONSTANTS
    W,          \* bits in a word
    Entries,    \* what the message queue holds
    MaxBatch,   \* bound on the batches of a run
    MaxQueue,   \* bound on the messages of a run
    MaxPopped   \* bound on the messages of a batch

ASSUME ChainAssumption ==
    /\ W \in Nat \ {0}
    /\ MaxBatch \in Nat
    /\ MaxQueue \in Nat
    /\ MaxPopped \in Nat

VARIABLES
    committedBatches,         \* header of a batch index, or None
    lastFinalizedBatchIndex,
    messageQueue,
    pendingQueueIndex,        \* messages before it are popped
    skippedMessageBitmap,     \* one word per bucket
    droppedMessages           \* queue indices

vars == <<committedBatches, lastFinalizedBatchIndex, messageQueue, pendingQueueIndex,
          skippedMessageBitmap, droppedMessages>>

None == [none |-> TRUE]

Word == SUBSET (0 .. W - 1)
Buckets == 0 .. (MaxQueue \div W) + 1
Indices == 0 .. 2 * MaxBatch

Genesis == [index |-> 0, popped |-> 0, total |-> 0, bitmap |-> <<>>, parent |-> None]

\* words that hold n bits
Words(n) == (n + W - 1) \div W

Init ==
    /\ committedBatches = [i \in Indices |-> IF i = 0 THEN Genesis ELSE None]
    /\ lastFinalizedBatchIndex = 0
    /\ messageQueue = <<>>
    /\ pendingQueueIndex = 0
    /\ skippedMessageBitmap = [b \in Buckets |-> {}]
    /\ droppedMessages = {}

-----------------------------------------------------------------------------
(* L1MessageQueue *)

\* appendCrossDomainMessage and appendEnforcedTransaction
QueueTransaction(e) ==
    /\ Len(messageQueue) < MaxQueue
    /\ messageQueue' = Append(messageQueue, e)
    /\ UNCHANGED <<committedBatches, lastFinalizedBatchIndex, pendingQueueIndex,
                   skippedMessageBitmap, droppedMessages>>

\* variant: bits beyond the count are kept
UnmaskedBits(word, count) == word

MaskedBits(word, count) == word \cap 0 .. count - 1

\* popCrossDomainMessage on the bitmap
PopWord(bitmap, start, count, word) ==
    LET bits   == MaskedBits(word, count)
        bucket == start \div W
        offset == start % W
        low    == [bitmap EXCEPT ![bucket] = @ \cup ({b + offset : b \in bits} \cap 0 .. W - 1)]
    IN  IF offset + count > W
        THEN [low EXCEPT ![bucket + 1] = {b + offset - W : b \in {c \in bits : c + offset >= W}}]
        ELSE low

IsMessageSkipped(q) == q % W \in skippedMessageBitmap[q \div W]

DropCrossDomainMessage(q) ==
    /\ q < pendingQueueIndex
    /\ IsMessageSkipped(q)
    /\ q \notin droppedMessages

-----------------------------------------------------------------------------
(* ScrollChain *)

Skips(bitmap, i) == i % W \in bitmap[i \div W + 1]

\* _loadL1MessageHashes reads the messages that are not skipped, and the last
\* one must not be
LoadL1MessageHashes(start, popped, bitmap) ==
    /\ \A i \in 0 .. popped - 1 : ~ Skips(bitmap, i) => start + i < Len(messageQueue)
    /\ popped > 0 => ~ Skips(bitmap, popped - 1)

Header(parent, popped, bitmap) ==
    [index |-> parent.index + 1, popped |-> popped, total |-> parent.total + popped,
     bitmap |-> bitmap, parent |-> parent]

\* _loadBatchHeader accepts the header of a committed batch only
LoadBatchHeader(h) == h # None /\ committedBatches[h.index] = h

CommitBatch(parent, popped, bitmap) ==
    /\ LoadBatchHeader(parent)
    /\ parent.index < MaxBatch
    /\ committedBatches[parent.index + 1] = None
    /\ LoadL1MessageHashes(parent.total, popped, bitmap)
    /\ committedBatches' =
         [committedBatches EXCEPT ![parent.index + 1] = Header(parent, popped, bitmap)]
    /\ UNCHANGED <<lastFinalizedBatchIndex, messageQueue, pendingQueueIndex,
                   skippedMessageBitmap, droppedMessages>>

\* variant: batches may be reverted from the middle
RevertsAny(i, count) == TRUE

RevertsToEnd(i, count) == committedBatches[i + count] = None

\* the loop ends at the first index without a batch
Reverted(i, count) ==
    {j \in i .. i + count - 1 : \A k \in i .. j : committedBatches[k] # None}

\* variant: the last finalized batch can be reverted
RevertibleToo(h) == h.index >= lastFinalizedBatchIndex

Revertible(h) == h.index > lastFinalizedBatchIndex

RevertBatch(h, count) ==
    /\ LoadBatchHeader(h)
    /\ RevertsToEnd(h.index, count)
    /\ Revertible(h)
    /\ committedBatches' =
         [j \in Indices |-> IF j \in Reverted(h.index, count) THEN None ELSE committedBatches[j]]
    /\ UNCHANGED <<lastFinalizedBatchIndex, messageQueue, pendingQueueIndex,
                   skippedMessageBitmap, droppedMessages>>

\* the queue's bitmap after the first words of a batch were popped
Popped(h) ==
    LET start == h.total - h.popped
        count(n) == IF h.popped - (n - 1) * W < W THEN h.popped - (n - 1) * W ELSE W
        pop[n \in 0 .. Words(h.popped)] ==
            IF n = 0 THEN skippedMessageBitmap
            ELSE PopWord(pop[n - 1], start + (n - 1) * W, count(n), h.bitmap[n])
    IN  pop[Words(h.popped)]

\* variant: batches are finalized in any order
AnyIndex(h) == h.index > lastFinalizedBatchIndex

NextIndex(h) == h.index = lastFinalizedBatchIndex + 1

\* finalizeBatchWithProof and finalizeBatchWithProof4844, with a proof that
\* verifies
FinalizeBatch(h) ==
    /\ LoadBatchHeader(h)
    /\ NextIndex(h)
    /\ h.popped > 0 => pendingQueueIndex = h.total - h.popped
    /\ lastFinalizedBatchIndex' = h.index
    /\ pendingQueueIndex' = pendingQueueIndex + h.popped
    /\ skippedMessageBitmap' = Popped(h)
    /\ UNCHANGED <<committedBatches, messageQueue, droppedMessages>>

Committed == {h \in {committedBatches[i] : i \in Indices} : h # None}

Commits ==
    \E h \in Committed, popped \in 0 .. MaxPopped :
        \E bitmap \in [1 .. Words(popped) -> Word] : CommitBatch(h, popped, bitmap)

Reverts == \E h \in Committed, count \in 1 .. MaxBatch : RevertBatch(h, count)

Finalizes == \E h \in Committed : FinalizeBatch(h)

\* one transaction of the messenger may drop several entries
DropEntries(entries) ==
    /\ \A q \in entries : DropCrossDomainMessage(q)
    /\ droppedMessages' = droppedMessages \cup entries
    /\ UNCHANGED <<committedBatches, lastFinalizedBatchIndex, messageQueue,
                   pendingQueueIndex, skippedMessageBitmap>>

Drops == \E entries \in SUBSET (0 .. Len(messageQueue) - 1) : DropEntries(entries)

Next ==
    \/ \E e \in Entries : QueueTransaction(e)
    \/ Commits
    \/ Reverts
    \/ Finalizes
    \/ Drops

Spec == Init /\ [][Next]_vars

-----------------------------------------------------------------------------

Headers == {h \in Committed : h.index > 0}

\* The committed batches are one chain without gaps, in which every batch
\* starts with the message its parent ended with, whatever was reverted and
\* committed again.
ChainLinked ==
    \A i \in Indices \ {0} :
        committedBatches[i] # None =>
            /\ committedBatches[i - 1] # None
            /\ committedBatches[i].parent = committedBatches[i - 1]
            /\ committedBatches[i].total = committedBatches[i - 1].total + committedBatches[i].popped

\* The queue is popped exactly as far as the finalized batches say, so that
\* finalizing the next batch never fails with "start index mismatch", and no
\* batch consumes a message that does not exist: skipped messages are not looked
\* up, it is the check on the last one that ensures it.
QueueInStep ==
    \A h \in Committed :
        /\ h.index = lastFinalizedBatchIndex => pendingQueueIndex = h.total
        /\ h.total <= Len(messageQueue)

FinalizedSkips(q) ==
    \E h \in Headers :
        /\ h.index <= lastFinalizedBatchIndex
        /\ q \in h.total - h.popped .. h.total - 1
        /\ Skips(h.bitmap, q - (h.total - h.popped))

\* The bits of skippedMessageBitmap are those of the finalized batches, with
\* words that straddle two buckets, and none is set for a message that is still
\* to come: the words are combined with |=, and a stray bit would stay.
SkippedExactly ==
    \A b \in Buckets, i \in 0 .. W - 1 :
        i \in skippedMessageBitmap[b] <=> FinalizedSkips(b * W + i)

\* IScrollChain: a finalized batch is neither reverted nor replaced, and popped
\* messages stay popped.
FinalizedIsFinal ==
    [][/\ lastFinalizedBatchIndex' >= lastFinalizedBatchIndex
       /\ pendingQueueIndex' >= pendingQueueIndex
       /\ \A i \in 0 .. lastFinalizedBatchIndex : committedBatches'[i] = committedBatches[i]]_vars

=============================================================================
