------------------------- MODULE ScrollChain_proofs -------------------------
(***************************************************************************)
(* Proofs about the contracts ScrollChain and L1MessageQueue under the     *)
(* messenger's specification, for any word size and any bounds.            *)
(***************************************************************************)
EXTENDS L1ScrollMessenger, TLAPS

\* what committedBatches may hold at an index other than None
IsHeader(h, i) == h # None /\ h.index = i /\ h.popped \in Nat /\ h.total \in Nat

ChainType ==
    /\ lastFinalizedBatchIndex \in Indices
    /\ pendingQueueIndex \in Nat
    /\ messageQueue \in Seq(Int)
    /\ DOMAIN committedBatches = Indices
    /\ \A i \in Indices : committedBatches[i] = None \/ IsHeader(committedBatches[i], i)

\* finalized batches are committed ones
FinalizedCommitted == \A i \in 0 .. lastFinalizedBatchIndex : committedBatches[i] # None

ChainInv == ChainType /\ FinalizedCommitted /\ ChainLinked /\ QueueInStep

\* messages are named by indices of the queue
SentInv == sent \subseteq Nat

IInv == ChainInv /\ SentInv

\* what FinalizedIsFinal says of a step
KeepsFinalized ==
    /\ lastFinalizedBatchIndex' >= lastFinalizedBatchIndex
    /\ pendingQueueIndex' >= pendingQueueIndex
    /\ \A i \in 0 .. lastFinalizedBatchIndex : committedBatches'[i] = committedBatches[i]

-----------------------------------------------------------------------------
(* Headers *)

\* A header of a batch is never the empty slot of committedBatches.
LEMMA HeaderIsSome ==
    ASSUME NEW parent, NEW popped, NEW bitmap
    PROVE  Header(parent, popped, bitmap) # None
<1>1. DOMAIN Header(parent, popped, bitmap) = {"index", "popped", "total", "bitmap", "parent"}
  BY DEF Header
<1>2. DOMAIN None = {"none"}
  BY DEF None
<1> QED BY <1>1, <1>2

\* Nor is the genesis header.
LEMMA GenesisIsSome == Genesis # None
<1>1. DOMAIN Genesis = {"index", "popped", "total", "bitmap", "parent"}
  BY DEF Genesis
<1>2. DOMAIN None = {"none"}
  BY DEF None
<1> QED BY <1>1, <1>2

\* The header of the next batch is one for the next index.
LEMMA NextHeader ==
    ASSUME NEW i \in Nat, NEW h, IsHeader(h, i), NEW popped \in Nat, NEW bitmap
    PROVE  /\ IsHeader(Header(h, popped, bitmap), i + 1)
           /\ Header(h, popped, bitmap).parent = h
           /\ Header(h, popped, bitmap).total = h.total + popped
           /\ Header(h, popped, bitmap).popped = popped
BY HeaderIsSome DEF IsHeader, Header

\* A committed batch is found under its own index.
LEMMA CommittedIndex ==
    ASSUME ChainType, NEW h \in Committed
    PROVE  h.index \in Indices /\ committedBatches[h.index] = h /\ IsHeader(h, h.index)
<1>1. PICK i \in Indices : committedBatches[i] = h /\ h # None
  BY DEF Committed
<1> QED BY <1>1 DEF ChainType, IsHeader

-----------------------------------------------------------------------------
(* The steps of the contracts *)

\* In the beginning there is the genesis batch, and nothing is queued.
LEMMA InitChain == Init => ChainInv
<1> SUFFICES ASSUME Init PROVE ChainInv
  OBVIOUS
<1> USE ChainAssumption
<1>1. 0 \in Indices /\ committedBatches[0] = Genesis
      /\ \A i \in Indices \ {0} : committedBatches[i] = None
  BY DEF Init, Indices
<1>2. IsHeader(Genesis, 0)
  BY GenesisIsSome DEF IsHeader, Genesis
<1>3. messageQueue = <<>> /\ Len(messageQueue) = 0 /\ pendingQueueIndex = 0
      /\ lastFinalizedBatchIndex = 0
  BY DEF Init
<1>4. ChainType
  BY <1>1, <1>2, <1>3 DEF Init, ChainType
<1>5. FinalizedCommitted
  BY <1>1, <1>3, GenesisIsSome DEF FinalizedCommitted
<1>6. ChainLinked
  BY <1>1 DEF ChainLinked
<1>7. QueueInStep
  <2> SUFFICES ASSUME NEW h \in Committed PROVE h.total = 0
    BY <1>3 DEF QueueInStep
  <2> QED BY <1>1 DEF Committed, Genesis
<1> QED BY <1>4, <1>5, <1>6, <1>7 DEF ChainInv

\* Appending to the queue only makes it longer.
LEMMA QueueStep ==
    ASSUME ChainInv, NEW e \in Int, QueueTransaction(e)
    PROVE  ChainInv' /\ KeepsFinalized
<1>1. /\ messageQueue' \in Seq(Int)
      /\ Len(messageQueue) \in Nat
      /\ Len(messageQueue') = Len(messageQueue) + 1
  BY DEF ChainInv, ChainType, QueueTransaction
<1>2. UNCHANGED <<committedBatches, lastFinalizedBatchIndex, pendingQueueIndex>>
  BY DEF QueueTransaction
<1>3. ChainType'
  BY <1>1, <1>2 DEF ChainInv, ChainType, IsHeader
<1>4. FinalizedCommitted' /\ ChainLinked'
  BY <1>2 DEF ChainInv, FinalizedCommitted, ChainLinked
<1>5. QueueInStep'
  <2> SUFFICES ASSUME NEW h \in Committed
               PROVE  /\ h.index = lastFinalizedBatchIndex => pendingQueueIndex = h.total
                      /\ h.total <= Len(messageQueue')
    BY <1>2 DEF QueueInStep, Committed
  <2>1. h.total \in Nat
    BY CommittedIndex DEF ChainInv, IsHeader
  <2>2. /\ h.index = lastFinalizedBatchIndex => pendingQueueIndex = h.total
        /\ h.total <= Len(messageQueue)
    BY DEF ChainInv, QueueInStep
  <2> QED BY <1>1, <2>1, <2>2
<1>6. KeepsFinalized
  BY <1>2, ChainAssumption DEF KeepsFinalized, ChainInv, ChainType, Indices
<1> QED BY <1>3, <1>4, <1>5, <1>6 DEF ChainInv

\* A batch is committed on top of the last one: had its index a successor, it would
\* have a batch already.  Its last message was looked up in the queue.
LEMMA CommitStep ==
    ASSUME ChainInv, NEW h \in Committed, NEW popped \in Nat, NEW bitmap,
           CommitBatch(h, popped, bitmap)
    PROVE  ChainInv' /\ KeepsFinalized
<1> DEFINE i == h.index
           new == Header(h, popped, bitmap)
<1> USE ChainAssumption
<1>1. i \in Nat /\ i < MaxBatch /\ i \in Indices /\ i + 1 \in Indices
  BY CommittedIndex DEF CommitBatch, ChainInv, Indices
<1>2. committedBatches[i] = h /\ IsHeader(h, i)
  BY CommittedIndex DEF ChainInv
<1>3. /\ IsHeader(new, i + 1) /\ new.parent = h /\ new.total = h.total + popped
      /\ new.popped = popped
  BY <1>1, <1>2, NextHeader
<1> HIDE DEF new
<1>4. committedBatches[i + 1] = None
  BY DEF CommitBatch
<1>5. /\ DOMAIN committedBatches' = Indices
      /\ committedBatches'[i + 1] = new
      /\ \A j \in Indices \ {i + 1} : committedBatches'[j] = committedBatches[j]
  BY <1>1 DEF CommitBatch, ChainInv, ChainType, new
<1>6. UNCHANGED <<lastFinalizedBatchIndex, messageQueue, pendingQueueIndex>>
  BY DEF CommitBatch
<1>7. lastFinalizedBatchIndex < i + 1
  BY <1>1, <1>4 DEF ChainInv, ChainType, FinalizedCommitted, Indices
<1>8. new.total <= Len(messageQueue)
  <2>1. h.total <= Len(messageQueue) /\ h.total \in Nat /\ Len(messageQueue) \in Nat
    BY <1>2 DEF ChainInv, ChainType, QueueInStep, IsHeader
  <2>2. CASE popped = 0
    BY <2>1, <2>2, <1>3
  <2>3. CASE popped > 0
    <3>1. ~ Skips(bitmap, popped - 1) /\ popped - 1 \in 0 .. popped - 1
      BY <2>3 DEF CommitBatch, LoadL1MessageHashes
    <3>2. h.total + (popped - 1) < Len(messageQueue)
      BY <3>1 DEF CommitBatch, LoadL1MessageHashes
    <3> QED BY <3>2, <2>1, <1>3
  <2> QED BY <2>2, <2>3
<1>9. ChainType'
  BY <1>3, <1>5, <1>6 DEF ChainInv, ChainType, IsHeader
<1>10. FinalizedCommitted'
  <2> SUFFICES ASSUME NEW j \in 0 .. lastFinalizedBatchIndex
               PROVE  committedBatches'[j] # None
    BY <1>6 DEF FinalizedCommitted
  <2>1. j \in Indices /\ j # i + 1
    BY <1>1, <1>7 DEF ChainInv, ChainType, Indices
  <2> QED BY <2>1, <1>5 DEF ChainInv, FinalizedCommitted
<1>11. ChainLinked'
  <2> SUFFICES ASSUME NEW j \in Indices \ {0}, committedBatches'[j] # None
               PROVE  /\ committedBatches'[j - 1] # None
                      /\ committedBatches'[j].parent = committedBatches'[j - 1]
                      /\ committedBatches'[j].total
                           = committedBatches'[j - 1].total + committedBatches'[j].popped
    BY DEF ChainLinked
  <2>1. j \in Nat /\ j - 1 \in Indices /\ j - 1 \in Nat
    BY DEF Indices
  <2>2. CASE j = i + 1
    BY <2>1, <2>2, <1>1, <1>2, <1>3, <1>5 DEF IsHeader
  <2>3. CASE j - 1 = i + 1
    BY <2>1, <2>3, <1>1, <1>4, <1>5 DEF ChainInv, ChainLinked
  <2>4. CASE j # i + 1 /\ j - 1 # i + 1
    BY <2>1, <2>4, <1>5 DEF ChainInv, ChainLinked
  <2> QED BY <2>2, <2>3, <2>4
<1>12. QueueInStep'
  <2> SUFFICES ASSUME NEW j \in Indices, committedBatches'[j] # None
               PROVE  /\ committedBatches'[j].index = lastFinalizedBatchIndex
                           => pendingQueueIndex = committedBatches'[j].total
                      /\ committedBatches'[j].total <= Len(messageQueue)
    BY <1>6 DEF QueueInStep, Committed
  <2>1. CASE j = i + 1
    BY <2>1, <1>1, <1>3, <1>5, <1>7, <1>8 DEF IsHeader, ChainInv, ChainType, Indices
  <2>2. CASE j # i + 1
    <3>1. committedBatches'[j] = committedBatches[j] /\ committedBatches[j] \in Committed
      BY <2>2, <1>5 DEF Committed
    <3> QED BY <3>1 DEF ChainInv, QueueInStep
  <2> QED BY <2>1, <2>2
<1>13. KeepsFinalized
  BY <1>1, <1>5, <1>6, <1>7 DEF KeepsFinalized, ChainInv, ChainType, Indices
<1> QED BY <1>9, <1>10, <1>11, <1>12, <1>13 DEF ChainInv

\* What is reverted reaches from a batch above the last finalized one to the end of the
\* chain, because the index after it is empty.
LEMMA RevertStep ==
    ASSUME ChainInv, NEW h \in Committed, NEW count \in 1 .. MaxBatch, RevertBatch(h, count)
    PROVE  ChainInv' /\ KeepsFinalized
<1> DEFINE i == h.index
           gone == Reverted(i, count)
<1> USE ChainAssumption
<1>1. i \in Nat /\ i \in Indices /\ i > lastFinalizedBatchIndex
  BY CommittedIndex DEF RevertBatch, Revertible, ChainInv, Indices
<1>2. committedBatches[i + count] = None
  BY DEF RevertBatch, RevertsToEnd
<1>3. /\ DOMAIN committedBatches' = Indices
      /\ \A j \in Indices : committedBatches'[j] = IF j \in gone THEN None ELSE committedBatches[j]
  BY DEF RevertBatch
<1>4. UNCHANGED <<lastFinalizedBatchIndex, messageQueue, pendingQueueIndex>>
  BY DEF RevertBatch
<1>5. \A j \in gone : j \in Int /\ j >= i
  BY <1>1 DEF Reverted
<1>6. ASSUME NEW j \in Indices \ {0}, j - 1 \in gone, committedBatches[j] # None
      PROVE  j \in gone
  <2>1. j \in Nat /\ j - 1 \in i .. i + count - 1 /\ \A k \in i .. j - 1 : committedBatches[k] # None
    BY <1>1, <1>6 DEF Reverted, Indices
  <2>2. j # i + count
    BY <1>2, <1>6
  <2>3. j \in i .. i + count - 1
    BY <1>1, <2>1, <2>2
  <2>4. \A k \in i .. j : k = j \/ k \in i .. j - 1
    BY <1>1, <2>1
  <2> QED BY <1>6, <2>1, <2>3, <2>4 DEF Reverted
<1> HIDE DEF gone
<1>7. ChainType'
  BY <1>3, <1>4 DEF ChainInv, ChainType, IsHeader
<1>8. \A j \in 0 .. lastFinalizedBatchIndex : committedBatches'[j] = committedBatches[j]
  <2> SUFFICES ASSUME NEW j \in 0 .. lastFinalizedBatchIndex
               PROVE  committedBatches'[j] = committedBatches[j]
    OBVIOUS
  <2>1. j \in Indices /\ j \in Int /\ j < i
    BY <1>1 DEF ChainInv, ChainType, Indices
  <2>2. j \notin gone
    BY <1>1, <1>5, <2>1
  <2> QED BY <1>3, <2>1, <2>2
<1>9. FinalizedCommitted'
  BY <1>4, <1>8 DEF ChainInv, FinalizedCommitted
<1>10. ChainLinked'
  <2> SUFFICES ASSUME NEW j \in Indices \ {0}, committedBatches'[j] # None
               PROVE  /\ committedBatches'[j - 1] # None
                      /\ committedBatches'[j].parent = committedBatches'[j - 1]
                      /\ committedBatches'[j].total
                           = committedBatches'[j - 1].total + committedBatches'[j].popped
    BY DEF ChainLinked
  <2>1. j - 1 \in Indices
    BY DEF Indices
  <2>2. j \notin gone /\ committedBatches'[j] = committedBatches[j]
    BY <1>3
  <2>3. committedBatches'[j - 1] = committedBatches[j - 1]
    BY <1>3, <1>6, <2>1, <2>2
  <2> QED BY <2>2, <2>3 DEF ChainInv, ChainLinked
<1>11. QueueInStep'
  <2> SUFFICES ASSUME NEW j \in Indices, committedBatches'[j] # None
               PROVE  /\ committedBatches'[j].index = lastFinalizedBatchIndex
                           => pendingQueueIndex = committedBatches'[j].total
                      /\ committedBatches'[j].total <= Len(messageQueue)
    BY <1>4 DEF QueueInStep, Committed
  <2>1. committedBatches'[j] = committedBatches[j] /\ committedBatches[j] \in Committed
    BY <1>3 DEF Committed
  <2> QED BY <2>1 DEF ChainInv, QueueInStep
<1>12. KeepsFinalized
  BY <1>4, <1>8 DEF KeepsFinalized, ChainInv, ChainType, Indices
<1> QED BY <1>7, <1>9, <1>10, <1>11, <1>12 DEF ChainInv

\* The batch that is finalized follows the last finalized one, so it starts with the
\* first message that is not popped.
LEMMA FinalizeStep ==
    ASSUME ChainInv, NEW h \in Committed, FinalizeBatch(h)
    PROVE  ChainInv' /\ KeepsFinalized
<1> DEFINE i == h.index
           last == committedBatches[lastFinalizedBatchIndex]
<1> USE ChainAssumption
<1>1. /\ i \in Indices /\ i \in Nat /\ i = lastFinalizedBatchIndex + 1
      /\ lastFinalizedBatchIndex \in Indices /\ lastFinalizedBatchIndex \in Nat
  BY CommittedIndex DEF FinalizeBatch, NextIndex, ChainInv, ChainType, Indices
<1>2. committedBatches[i] = h /\ IsHeader(h, i)
  BY CommittedIndex DEF ChainInv
<1>3. last # None /\ h.total = last.total + h.popped
  BY <1>1, <1>2 DEF ChainInv, ChainLinked, IsHeader
<1>4. last \in Committed /\ last.index = lastFinalizedBatchIndex
  BY <1>1, <1>3 DEF Committed, ChainInv, ChainType, IsHeader
<1>5. pendingQueueIndex = last.total /\ pendingQueueIndex \in Nat
  BY <1>4 DEF ChainInv, ChainType, QueueInStep
<1>6. /\ lastFinalizedBatchIndex' = i
      /\ pendingQueueIndex' = h.total
      /\ UNCHANGED <<committedBatches, messageQueue>>
  BY <1>3, <1>5 DEF FinalizeBatch
<1>7. ChainType'
  BY <1>1, <1>2, <1>6 DEF ChainInv, ChainType, IsHeader
<1>8. FinalizedCommitted'
  <2> SUFFICES ASSUME NEW j \in 0 .. i PROVE committedBatches[j] # None
    BY <1>6 DEF FinalizedCommitted
  <2>1. j = i \/ j \in 0 .. lastFinalizedBatchIndex
    BY <1>1
  <2> QED BY <2>1, <1>2 DEF ChainInv, FinalizedCommitted, IsHeader
<1>9. ChainLinked'
  BY <1>6 DEF ChainInv, ChainLinked
<1>10. QueueInStep'
  <2> SUFFICES ASSUME NEW g \in Committed
               PROVE  /\ g.index = i => h.total = g.total
                      /\ g.total <= Len(messageQueue)
    BY <1>6 DEF QueueInStep, Committed
  <2>1. g.index = i => g = h
    BY <1>2, CommittedIndex DEF ChainInv
  <2> QED BY <2>1 DEF ChainInv, QueueInStep
<1>11. KeepsFinalized
  BY <1>1, <1>2, <1>3, <1>5, <1>6 DEF KeepsFinalized, IsHeader
<1> QED BY <1>7, <1>8, <1>9, <1>10, <1>11 DEF ChainInv

\* Steps that change nothing the invariant speaks of.
LEMMA OtherStep ==
    ASSUME ChainInv,
           UNCHANGED <<committedBatches, lastFinalizedBatchIndex, messageQueue, pendingQueueIndex>>
    PROVE  ChainInv' /\ KeepsFinalized
<1>1. ChainInv'
  BY DEF ChainInv, ChainType, IsHeader, FinalizedCommitted, ChainLinked, QueueInStep, Committed
<1>2. KeepsFinalized
  BY ChainAssumption DEF KeepsFinalized, ChainInv, ChainType, Indices
<1> QED BY <1>1, <1>2

-----------------------------------------------------------------------------
(* The messenger *)

\* In the beginning no message was sent.
LEMMA InitIInv == MessengerInit => IInv
BY InitChain DEF MessengerInit, IInv, SentInv

\* Every step of the messenger is a step of the contracts below it or leaves them alone.
LEMMA NextStep ==
    ASSUME IInv, [MessengerNext]_allVars
    PROVE  IInv' /\ KeepsFinalized
<1> USE DEF IInv
<1>1. CASE SendMessage
  <2>1. Len(messageQueue) \in Nat
    BY DEF ChainInv, ChainType
  <2>2. ChainInv' /\ KeepsFinalized
    BY <1>1, <2>1, QueueStep DEF SendMessage, NextIndexOfQueue
  <2>3. SentInv'
    BY <1>1, <2>1 DEF SendMessage, NextIndexOfQueue, SentInv
  <2> QED BY <2>2, <2>3
<1>2. CASE AppendEnforcedTransaction
  <2>1. ChainInv' /\ KeepsFinalized
    BY <1>2, QueueStep DEF AppendEnforcedTransaction, Enforced
  <2> QED BY <1>2, <2>1 DEF AppendEnforcedTransaction, messengerVars, SentInv
<1>3. ASSUME NEW m \in sent, ReplayMessage(m)
      PROVE  IInv' /\ KeepsFinalized
  <2>1. ChainInv' /\ KeepsFinalized
    BY <1>3, QueueStep DEF ReplayMessage, SentInv
  <2> QED BY <1>3, <2>1 DEF ReplayMessage, SentInv
<1>4. ASSUME NEW m \in sent, DropMessage(m)
      PROVE  IInv' /\ KeepsFinalized
  <2>1. ChainInv' /\ KeepsFinalized
    BY <1>4, OtherStep DEF DropMessage, DropEntries
  <2> QED BY <1>4, <2>1 DEF DropMessage, SentInv
<1>5. CASE UpdateMaxReplayTimes
  <2>1. ChainInv' /\ KeepsFinalized
    BY <1>5, OtherStep DEF UpdateMaxReplayTimes, vars
  <2> QED BY <1>5, <2>1 DEF UpdateMaxReplayTimes, SentInv
<1>6. CASE Commits /\ UNCHANGED messengerVars
  <2>1. PICK h \in Committed, popped \in 0 .. MaxPopped :
          \E bitmap \in [1 .. Words(popped) -> Word] : CommitBatch(h, popped, bitmap)
    BY <1>6 DEF Commits
  <2>2. popped \in Nat
    BY ChainAssumption
  <2>3. ChainInv' /\ KeepsFinalized
    BY <2>1, <2>2, CommitStep
  <2> QED BY <1>6, <2>3 DEF messengerVars, SentInv
<1>7. CASE Reverts /\ UNCHANGED messengerVars
  <2>1. ChainInv' /\ KeepsFinalized
    BY <1>7, RevertStep DEF Reverts
  <2> QED BY <1>7, <2>1 DEF messengerVars, SentInv
<1>8. ASSUME NEW h \in Committed, FinalizeAndExecute(h)
      PROVE  IInv' /\ KeepsFinalized
  <2>1. ChainInv' /\ KeepsFinalized
    BY <1>8, FinalizeStep DEF FinalizeAndExecute
  <2> QED BY <1>8, <2>1 DEF FinalizeAndExecute, SentInv
<1>9. CASE UNCHANGED allVars
  <2>1. ChainInv' /\ KeepsFinalized
    BY <1>9, OtherStep DEF allVars, vars
  <2> QED BY <1>9, <2>1 DEF allVars, messengerVars, SentInv
<1> QED BY <1>1, <1>2, <1>3, <1>4, <1>5, <1>6, <1>7, <1>8, <1>9 DEF MessengerNext

-----------------------------------------------------------------------------

\* The inductive invariant holds in all reachable states.
THEOREM IInvHolds == MessengerSpec => []IInv
<1>1. IInv /\ [MessengerNext]_allVars => IInv'
  BY NextStep
<1> QED BY InitIInv, <1>1, PTL DEF MessengerSpec

\* The committed batches of ScrollChain are one chain without gaps in which every batch
\* starts with the message its parent ended with.
THEOREM BatchesAreLinked == MessengerSpec => []ChainLinked
<1>1. IInv => ChainLinked
  BY DEF IInv, ChainInv
<1> QED BY IInvHolds, <1>1, PTL

\* L1MessageQueue is popped as far as the last finalized batch says, and no batch
\* consumes a message that was not queued.
THEOREM QueueFollowsBatches == MessengerSpec => []QueueInStep
<1>1. IInv => QueueInStep
  BY DEF IInv, ChainInv
<1> QED BY IInvHolds, <1>1, PTL

\* Finalized batches of ScrollChain stay committed as they are, and popped messages of
\* L1MessageQueue stay popped.
THEOREM FinalizedBatchesAreFinal == MessengerSpec => FinalizedIsFinal
<1>1. IInv /\ [MessengerNext]_allVars => [KeepsFinalized]_vars
  BY NextStep
<1>2. FinalizedIsFinal <=> [][KeepsFinalized]_vars
  BY DEF FinalizedIsFinal, KeepsFinalized
<1> QED BY IInvHolds, <1>1, <1>2, PTL DEF MessengerSpec
=============================================================================
