------------------------- MODULE L1ScrollMessenger -------------------------
(***************************************************************************)
(* The layer 1 messenger over the contracts of ScrollChain: a message is   *)
(* sent once, may be replayed with another gas limit under a new queue     *)
(* index, and may be dropped, with a refund to its sender, when layer 2    *)
(* skipped it.  Layer 2 executes what a batch consumed without skipping.   *)
(*                                                                         *)
(* A message is named by its nonce, the queue index it was sent with; the  *)
(* queue holds the name of the message an entry carries, or Enforced for a *)
(* transaction that did not come through the messenger.                    *)
(***************************************************************************)
EXTENDS ScrollChain

CONSTANT ReplayLimits   \* values the owner gives maxReplayTimes

VARIABLES
    sent,                \* messages with a messageSendTimestamp
    replayStates,
    prevReplayIndex,     \* with the offset 1; 0 ends the list
    maxReplayTimes,
    isL1MessageDropped,
    isL1MessageExecuted  \* of L2ScrollMessenger, in the last finalized state

messengerVars == <<sent, replayStates, prevReplayIndex, maxReplayTimes, isL1MessageDropped,
                   isL1MessageExecuted>>

allVars == <<vars, messengerVars>>

Enforced == -1
QueueIndices == 0 .. MaxQueue - 1

MessengerInit ==
    /\ Init
    /\ sent = {}
    /\ replayStates = [m \in QueueIndices |-> [times |-> 0, lastIndex |-> 0]]
    /\ prevReplayIndex = [q \in QueueIndices |-> 0]
    /\ maxReplayTimes \in ReplayLimits
    /\ isL1MessageDropped = {}
    /\ isL1MessageExecuted = {}

\* nextCrossDomainMessageIndex
NextIndexOfQueue == Len(messageQueue)

SendMessage ==
    /\ QueueTransaction(NextIndexOfQueue)
    /\ NextIndexOfQueue \notin sent
    /\ sent' = sent \cup {NextIndexOfQueue}
    /\ UNCHANGED <<replayStates, prevReplayIndex, maxReplayTimes, isL1MessageDropped,
                   isL1MessageExecuted>>

\* EnforcedTxGateway, or an account itself, through appendEnforcedTransaction
AppendEnforcedTransaction == QueueTransaction(Enforced) /\ UNCHANGED messengerVars

\* variant: a dropped message can be replayed
ReplaysSent(m) == m \in sent

CanReplay(m) == m \in sent /\ m \notin isL1MessageDropped

\* variant: the list always leads back to the first message
LinkToFirst(m) == m + 1

\* the entry of prevReplayIndex for the next replay
ReplayLink(m) ==
    IF replayStates[m].lastIndex = 0 THEN m + 1 ELSE replayStates[m].lastIndex + 1

ReplayMessage(m) ==
    /\ CanReplay(m)
    /\ replayStates[m].times < maxReplayTimes
    /\ QueueTransaction(m)
    /\ prevReplayIndex' = [prevReplayIndex EXCEPT ![NextIndexOfQueue] = ReplayLink(m)]
    /\ replayStates' = [replayStates EXCEPT ![m] = [times |-> @.times + 1,
                                                    lastIndex |-> NextIndexOfQueue]]
    /\ UNCHANGED <<sent, maxReplayTimes, isL1MessageDropped, isL1MessageExecuted>>

\* the loop of dropMessage along prevReplayIndex
ReplayList(m) ==
    LET last == IF replayStates[m].lastIndex = 0 THEN m ELSE replayStates[m].lastIndex
        from[q \in QueueIndices] ==
            {q} \cup IF prevReplayIndex[q] = 0 THEN {} ELSE from[prevReplayIndex[q] - 1]
    IN  from[last]

\* dropCrossDomainMessage of every entry; one that fails undoes the others
Dropped(m) == ReplayList(m)

DropMessage(m) ==
    /\ m \in sent
    /\ m \notin isL1MessageDropped
    /\ DropEntries(Dropped(m))
    /\ isL1MessageDropped' = isL1MessageDropped \cup {m}
    /\ UNCHANGED <<sent, replayStates, prevReplayIndex, maxReplayTimes, isL1MessageExecuted>>

UpdateMaxReplayTimes ==
    /\ maxReplayTimes' \in ReplayLimits
    /\ maxReplayTimes' # maxReplayTimes
    /\ UNCHANGED <<vars, sent, replayStates, prevReplayIndex, isL1MessageDropped,
                   isL1MessageExecuted>>

\* messages whose relayMessage runs on layer 2 in a batch
Relayed(h) ==
    LET start == h.total - h.popped
    IN  {messageQueue[start + i + 1] :
            i \in {j \in 0 .. h.popped - 1 : ~ Skips(h.bitmap, j)}} \ {Enforced}

\* the messages of a batch that layer 2 had not executed succeed or fail there
FinalizeAndExecute(h) ==
    /\ FinalizeBatch(h)
    /\ \E succeeded \in SUBSET (Relayed(h) \ isL1MessageExecuted) :
         isL1MessageExecuted' = isL1MessageExecuted \cup succeeded
    /\ UNCHANGED <<sent, replayStates, prevReplayIndex, maxReplayTimes, isL1MessageDropped>>

MessengerNext ==
    \/ SendMessage
    \/ AppendEnforcedTransaction
    \/ \E m \in sent : ReplayMessage(m)
    \/ \E m \in sent : DropMessage(m)
    \/ UpdateMaxReplayTimes
    \/ Commits /\ UNCHANGED messengerVars
    \/ Reverts /\ UNCHANGED messengerVars
    \/ \E h \in Committed : FinalizeAndExecute(h)

MessengerSpec == MessengerInit /\ [][MessengerNext]_allVars

-----------------------------------------------------------------------------

Carries(m) == {q \in QueueIndices : q < Len(messageQueue) /\ messageQueue[q + 1] = m}

\* What the comment on prevReplayIndex says of the list: from the last replay it
\* leads through every entry of the queue that carries the message and ends at
\* the first, also for the message with index 0.
ReplayListIsComplete == \A m \in sent : ReplayList(m) = Carries(m)

\* A message whose value was refunded on layer 1 was not executed on layer 2 and
\* no entry that still carries it can be: the two ends of the bridge never both
\* pay out.  A message is dropped with all its entries, so that dropMessage is
\* never refused because of an entry dropped before.
DroppedNeverExecuted ==
    /\ isL1MessageDropped \cap isL1MessageExecuted = {}
    /\ \A m \in isL1MessageDropped : \A q \in Carries(m) : q < pendingQueueIndex
    /\ droppedMessages = UNION {Carries(m) : m \in isL1MessageDropped}

=============================================================================
