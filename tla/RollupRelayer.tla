--------------------------- MODULE RollupRelayer ---------------------------
(***************************************************************************)
(* A batch on its way to layer 1: the loops of the rollup relayer that     *)
(* commit and finalize batches, the goroutine that takes the senders'      *)
(* confirmations, the event watcher, which is another process, and the     *)
(* rollup_status column all of them write.  The two senders are instances  *)
(* of TxService, the contract ScrollChain is reduced to the order in which *)
(* it accepts batches.                                                     *)
(***************************************************************************)
EXTENDS Integers, Sequences, FiniteSets

CONSTANTS
    MaxBatch,      \* batches 1 .. MaxBatch; 0 is the genesis batch
    Backlog,       \* batches 1 .. Backlog are proposed and proved when the relayer
                   \* starts for the first time
    FirstBlob,     \* batches from here on are committed with blobs (codec version 1)
    MaxNonce,      \* bound on the transactions of a sender
    FetchLimit,    \* batches ProcessPendingBatches takes at a time
    Bypass,        \* EnableTestEnvBypassFeatures: finalize without proof
    Reverting,     \* which transactions may revert by accident
    MaxReverts,    \* bound on those that do
    MaxSeen,       \* the watcher rests once it has processed so many events
    MaxFaults      \* bound on crashes, failing requests and lapsed proofs

ASSUME RelayerAssumption ==
    /\ MaxBatch \in Nat \ {0}
    /\ {Backlog, FirstBlob} \subseteq Nat
    /\ MaxNonce \in Nat \ {0}
    /\ FetchLimit \in Nat \ {0}
    /\ Bypass \in BOOLEAN
    /\ Reverting \subseteq {"commit", "finalize"}

Batches == 1 .. MaxBatch
Nonces == 0 .. MaxNonce - 1

\* the numbers of types.RollupStatus; the event watcher compares them
Undefined == 0
Pending == 1
Committing == 2
Committed == 3
Finalizing == 4
Finalized == 5
CommitFailed == 6
FinalizeFailed == 7

VARIABLES
    status,        \* rollup_status of a batch, Undefined before it is proposed
    proving,       \* proving status of a batch: "open", "verified", "failed", or
                   \* "lapsed" when it was verified and then set to failed
    cSent, cSettled, cTold, cInbox,    \* the commit sender
    fSent, fSettled, fTold, fInbox,    \* the finalize sender
    committed,     \* last batch the contract has committed
    finalized,     \* last batch the contract has finalized
    events,        \* the contract's events in confirmed blocks
    commitList,    \* batches ProcessPendingBatches has loaded
    estimating,    \* those whose gas limit is estimated
    writeCommit,   \* batch it has sent and not marked yet: {} or {b}
    finalizeList,  \* batch ProcessCommittedBatches has loaded
    writeFinalize, \* batch it has sent and not marked yet
    seen,          \* events the watcher has processed
    watched,       \* events it is processing, with the statuses it has read
    reverts, faults

commitSender == <<cSent, cSettled, cTold, cInbox>>
finalizeSender == <<fSent, fSettled, fTold, fInbox>>
contract == <<committed, finalized, events>>
loops == <<commitList, estimating, writeCommit, finalizeList, writeFinalize>>
watcher == <<seen, watched>>
vars == <<status, proving, commitSender, finalizeSender, contract, loops, watcher,
          reverts, faults>>

Commit == INSTANCE TxService WITH
    Contexts <- Batches, sent <- cSent, settled <- cSettled, told <- cTold, inbox <- cInbox

Finalize == INSTANCE TxService WITH
    Contexts <- Batches, sent <- fSent, settled <- fSettled, told <- fTold, inbox <- fInbox

-----------------------------------------------------------------------------
(* Batches are proposed in order and proved in any order; the coordinator's  *)
(* timeout check may set a verified batch to failed.                         *)

Fault == faults < MaxFaults /\ faults' = faults + 1

InsertBatch(b) ==
    /\ status[b] = Undefined
    /\ b > 1 => status[b - 1] # Undefined
    /\ status' = [status EXCEPT ![b] = Pending]
    /\ UNCHANGED <<proving, commitSender, finalizeSender, contract, loops, watcher,
                   reverts, faults>>

Prove(b, verdict) ==
    /\ status[b] # Undefined
    /\ <<proving[b], verdict>> \in
          {<<"open", "verified">>, <<"open", "failed">>, <<"verified", "lapsed">>}
    /\ proving' = [proving EXCEPT ![b] = verdict]
    /\ IF verdict = "lapsed" THEN Fault ELSE UNCHANGED faults
    /\ UNCHANGED <<status, commitSender, finalizeSender, contract, loops, watcher, reverts>>

-----------------------------------------------------------------------------
(* ProcessPendingBatches *)

\* variant: failed batches are not committed again
PendingOnly == {b \in Batches : status[b] = Pending}

FailedAndPending == {b \in Batches : status[b] \in {CommitFailed, Pending}}

\* the first FetchLimit batches of the set, in ascending order
Ascending(set) ==
    SelectSeq([b \in Batches |-> b],
              LAMBDA b : b \in set /\ Cardinality({c \in set : c <= b}) <= FetchLimit)

\* the gas of a batch with blobs is estimated, and of one that has failed before
Estimated == {b \in Batches : b >= FirstBlob \/ status[b] = CommitFailed}

GetFailedAndPendingBatches ==
    /\ commitList = <<>> /\ writeCommit = {}
    /\ FailedAndPending # {}
    /\ commitList' = Ascending(FailedAndPending)
    /\ estimating' = Estimated
    /\ UNCHANGED <<status, proving, commitSender, finalizeSender, contract, writeCommit,
                   finalizeList, writeFinalize, watcher, reverts, faults>>

\* the next nonce of a sender; after a restart it may take one again whose
\* transactions the node has dropped
NextNonces(sent, settled) ==
    LET next == Cardinality({t[2] : t \in sent})
    IN  (IF faults > 0 THEN Len(settled) .. next ELSE {next}) \cap Nonces

\* in the pool of the node, not mined yet
Pooled(sent, settled, b) == \E n \in Nonces : n >= Len(settled) /\ <<b, n>> \in sent

\* Where no gas limit is given the node executes the transaction to estimate
\* one, on the last block or on top of its pool, and a transaction that reverts
\* is not sent.  The contract takes batches in order, after last.
EstimatePasses(last, sent, settled, b) ==
    b > last /\ \A c \in last + 1 .. b - 1 : Pooled(sent, settled, c)

EstimateReverts(last, sent, settled, b) ==
    b # last + 1 \/ Pooled(sent, settled, b)

SendCommit ==
    /\ commitList # <<>> /\ writeCommit = {}
    /\ Head(commitList) \in estimating =>
         EstimatePasses(committed, cSent, cSettled, Head(commitList))
    /\ \E n \in NextNonces(cSent, cSettled) : Commit!Submit(Head(commitList), n)
    /\ writeCommit' = {Head(commitList)}
    /\ commitList' = Tail(commitList)
    /\ estimating' = IF Tail(commitList) = <<>> THEN {} ELSE estimating
    /\ UNCHANGED <<status, proving, finalizeSender, contract, finalizeList, writeFinalize,
                   watcher, reverts, faults>>

\* UpdateCommitTxHashAndRollupStatus, whatever the status is by now
WriteCommitting ==
    \E b \in writeCommit :
        /\ status' = [status EXCEPT ![b] = Committing]
        /\ writeCommit' = {}
        /\ UNCHANGED <<proving, commitSender, finalizeSender, contract, commitList, estimating,
                       finalizeList, writeFinalize, watcher, reverts, faults>>

\* the estimate fails: the loop ends, and later batches are not sent
CommitNotSent ==
    /\ commitList # <<>> /\ writeCommit = {}
    /\ Head(commitList) \in estimating
    /\ EstimateReverts(committed, cSent, cSettled, Head(commitList))
    /\ commitList' = <<>> /\ estimating' = {}
    /\ UNCHANGED <<status, proving, commitSender, finalizeSender, contract, writeCommit,
                   finalizeList, writeFinalize, watcher, reverts, faults>>

\* SendTransaction or the write fails: the loop ends
CommitFails ==
    /\ commitList # <<>> \/ writeCommit # {}
    /\ Fault
    /\ commitList' = <<>> /\ estimating' = {}
    /\ writeCommit' = {}
    /\ UNCHANGED <<status, proving, commitSender, finalizeSender, contract, finalizeList,
                   writeFinalize, watcher, reverts>>

-----------------------------------------------------------------------------
(* ProcessCommittedBatches and finalizeBatch *)

FinalizableProving == {"verified"} \cup IF Bypass THEN {"open"} ELSE {}

CommittedBatches == {b \in Batches : status[b] = Committed}

\* the earliest committed batch, when it can be finalized
GetCommittedBatch ==
    /\ finalizeList = {} /\ writeFinalize = {}
    /\ \E b \in CommittedBatches :
        /\ \A c \in CommittedBatches : b <= c
        /\ proving[b] \in FinalizableProving
        /\ finalizeList' = {b}
    /\ UNCHANGED <<status, proving, commitSender, finalizeSender, contract, commitList,
                   estimating, writeCommit, writeFinalize, watcher, reverts, faults>>

SendFinalize ==
    \E b \in finalizeList :
        /\ EstimatePasses(finalized, fSent, fSettled, b)
        /\ \E n \in NextNonces(fSent, fSettled) : Finalize!Submit(b, n)
        /\ writeFinalize' = {b}
        /\ finalizeList' = {}
        /\ UNCHANGED <<status, proving, commitSender, contract, commitList, estimating,
                       writeCommit, watcher, reverts, faults>>

FinalizeNotSent ==
    \E b \in finalizeList :
        /\ EstimateReverts(finalized, fSent, fSettled, b)
        /\ finalizeList' = {}
        /\ UNCHANGED <<status, proving, commitSender, finalizeSender, contract, commitList,
                       estimating, writeCommit, writeFinalize, watcher, reverts, faults>>

WriteFinalizing ==
    \E b \in writeFinalize :
        /\ status' = [status EXCEPT ![b] = Finalizing]
        /\ writeFinalize' = {}
        /\ UNCHANGED <<proving, commitSender, finalizeSender, contract, commitList, estimating,
                       writeCommit, finalizeList, watcher, reverts, faults>>

\* the chain monitor, SendTransaction or the write fails
FinalizeFails ==
    /\ finalizeList # {} \/ writeFinalize # {}
    /\ Fault
    /\ finalizeList' = {}
    /\ writeFinalize' = {}
    /\ UNCHANGED <<status, proving, commitSender, finalizeSender, contract, commitList,
                   estimating, writeCommit, watcher, reverts>>

-----------------------------------------------------------------------------
(* handleConfirmation *)

\* variant: the verdict is not looked at
CommitVerdictIgnored(ok) == Committed

CommitVerdict(ok) == IF ok THEN Committed ELSE CommitFailed

FinalizeVerdict(ok) == IF ok THEN Finalized ELSE FinalizeFailed

ConfirmCommit ==
    /\ Commit!Take
    /\ status' = [status EXCEPT ![Head(cInbox).ctx] = CommitVerdict(Head(cInbox).ok)]
    /\ UNCHANGED <<proving, finalizeSender, contract, loops, watcher, reverts, faults>>

ConfirmFinalize ==
    /\ Finalize!Take
    /\ status' = [status EXCEPT ![Head(fInbox).ctx] = FinalizeVerdict(Head(fInbox).ok)]
    /\ UNCHANGED <<proving, commitSender, contract, loops, watcher, reverts, faults>>

\* the status write fails: it is logged, and the confirmation is gone
CommitConfirmationLost ==
    /\ Commit!Take
    /\ Fault
    /\ UNCHANGED <<status, proving, finalizeSender, contract, loops, watcher, reverts>>

FinalizeConfirmationLost ==
    /\ Finalize!Take
    /\ Fault
    /\ UNCHANGED <<status, proving, commitSender, contract, loops, watcher, reverts>>

-----------------------------------------------------------------------------
(* The senders and the contract *)

\* a transaction the contract accepts may still revert, for want of gas
Verdict(kind, accepted, ok) ==
    \/ accepted /\ ok /\ UNCHANGED reverts
    \/ /\ accepted /\ ~ ok
       /\ kind \in Reverting
       /\ reverts < MaxReverts
       /\ reverts' = reverts + 1
    \/ ~ accepted /\ ~ ok /\ UNCHANGED reverts

SettleCommit(b, ok) ==
    /\ Commit!Settle(b, ok)
    /\ Verdict("commit", b = committed + 1, ok)
    /\ committed' = IF ok THEN b ELSE committed
    /\ events' = IF ok THEN Append(events, [batch |-> b, status |-> Committed]) ELSE events
    /\ UNCHANGED <<status, proving, finalizeSender, finalized, loops, watcher, faults>>

SettleFinalize(b, ok) ==
    /\ Finalize!Settle(b, ok)
    /\ Verdict("finalize", b = finalized + 1 /\ b <= committed, ok)
    /\ finalized' = IF ok THEN b ELSE finalized
    /\ events' = IF ok THEN Append(events, [batch |-> b, status |-> Finalized]) ELSE events
    /\ UNCHANGED <<status, proving, commitSender, committed, loops, watcher, faults>>

TellCommit(n) ==
    /\ Commit!Tell(n)
    /\ UNCHANGED <<status, proving, finalizeSender, contract, loops, watcher, reverts, faults>>

TellFinalize(n) ==
    /\ Finalize!Tell(n)
    /\ UNCHANGED <<status, proving, commitSender, contract, loops, watcher, reverts, faults>>

-----------------------------------------------------------------------------
(* The event watcher: FetchContractEvent *)

\* GetRollupStatusByHashList for the events it has not processed
ReadStatuses ==
    /\ watched = <<>>
    /\ seen < Len(events) /\ seen < MaxSeen
    /\ watched' = [i \in 1 .. Len(events) - seen |->
                     [event |-> events[seen + i], read |-> status[events[seen + i].batch]]]
    /\ UNCHANGED <<status, proving, commitSender, finalizeSender, contract, loops, seen,
                   reverts, faults>>

Processed == seen + 1

Later(w) == w.event.status > w.read

\* one event, compared with the status that was read
ProcessEvent ==
    /\ watched # <<>>
    /\ status' = IF Later(Head(watched))
                 THEN [status EXCEPT ![Head(watched).event.batch] = Head(watched).event.status]
                 ELSE status
    /\ watched' = Tail(watched)
    /\ seen' = Processed
    /\ UNCHANGED <<proving, commitSender, finalizeSender, contract, loops, reverts, faults>>

\* the process ends, or a write fails; it starts again no later than where it was
WatcherRestart ==
    /\ Fault
    /\ watched' = <<>>
    /\ seen' \in 0 .. seen
    /\ UNCHANGED <<status, proving, commitSender, finalizeSender, contract, loops, reverts>>

\* the relayer process ends; the senders forget what was not taken
RelayerRestart ==
    /\ Fault
    /\ Commit!Forget
    /\ Finalize!Forget
    /\ commitList' = <<>> /\ estimating' = {} /\ writeCommit' = {}
    /\ finalizeList' = {} /\ writeFinalize' = {}
    /\ UNCHANGED <<status, proving, contract, watcher, reverts>>

-----------------------------------------------------------------------------

Init ==
    /\ status = [b \in Batches |-> IF b <= Backlog THEN Pending ELSE Undefined]
    /\ proving = [b \in Batches |-> IF b <= Backlog THEN "verified" ELSE "open"]
    /\ Commit!ServiceInit
    /\ Finalize!ServiceInit
    /\ committed = 0 /\ finalized = 0 /\ events = <<>>
    /\ commitList = <<>> /\ estimating = {} /\ writeCommit = {}
    /\ finalizeList = {} /\ writeFinalize = {}
    /\ seen = 0 /\ watched = <<>>
    /\ reverts = 0 /\ faults = 0

CommitLoop == GetFailedAndPendingBatches \/ SendCommit \/ CommitNotSent \/ WriteCommitting

FinalizeLoop == GetCommittedBatch \/ SendFinalize \/ FinalizeNotSent \/ WriteFinalizing

Next ==
    \/ \E b \in Batches : InsertBatch(b) \/ \E v \in {"verified", "failed", "lapsed"} : Prove(b, v)
    \/ CommitLoop \/ CommitFails
    \/ FinalizeLoop \/ FinalizeFails
    \/ ConfirmCommit \/ CommitConfirmationLost
    \/ ConfirmFinalize \/ FinalizeConfirmationLost
    \/ \E b \in Batches, ok \in BOOLEAN : SettleCommit(b, ok) \/ SettleFinalize(b, ok)
    \/ \E n \in Nonces : TellCommit(n) \/ TellFinalize(n)
    \/ ReadStatuses \/ ProcessEvent \/ WatcherRestart
    \/ RelayerRestart

Spec == Init /\ [][Next]_vars

\* The loops run, transactions are mined and their senders report them.  Nothing
\* is assumed of the watcher.
Fairness ==
    /\ WF_vars(CommitLoop)
    /\ WF_vars(FinalizeLoop)
    /\ WF_vars(ConfirmCommit) /\ WF_vars(ConfirmFinalize)
    /\ WF_vars(\E b \in Batches, ok \in BOOLEAN : SettleCommit(b, ok))
    /\ WF_vars(\E b \in Batches, ok \in BOOLEAN : SettleFinalize(b, ok))
    /\ WF_vars(\E n \in Nonces : TellCommit(n))
    /\ WF_vars(\E n \in Nonces : TellFinalize(n))

FairSpec == Spec /\ Fairness

-----------------------------------------------------------------------------

Sent(sent, b) == \E n \in Nonces : <<b, n>> \in sent

Reverted(settled, b) == \E i \in DOMAIN settled : settled[i] = [ctx |-> b, ok |-> FALSE]

\* A rollup status that claims something about layer 1 is true of the contract,
\* in whatever order confirmations, events, restarts and the late writes of the
\* loops arrive.  What db.go says of the statuses holds: a transaction was
\* submitted, is confirmed, or is confirmed but failed.  And a finalization is
\* only sent of a batch that the contract has committed and whose proof is
\* verified, where the test environment does not finalize without proofs.
StatusesAreTrue ==
    \A b \in Batches :
        /\ status[b] = Committing => Sent(cSent, b)
        /\ status[b] \in {Committed, Finalizing, Finalized, FinalizeFailed} => b <= committed
        /\ status[b] = Finalizing => Sent(fSent, b)
        /\ status[b] = Finalized => b <= finalized
        /\ status[b] = CommitFailed => Reverted(cSettled, b)
        /\ status[b] = FinalizeFailed => Reverted(fSettled, b)
        /\ Sent(fSent, b) => b <= committed /\ (Bypass \/ proving[b] \in {"verified", "lapsed"})

UpTo(b) == \A c \in 1 .. b : proving[c] = "verified"

\* a transaction of b may still be mined, or its confirmation handled
Awaited(sent, settled, told, inbox, b) ==
    \/ Pooled(sent, settled, b)
    \/ \E n \in 0 .. Len(settled) - 1 : n \notin told /\ settled[n + 1].ctx = b
    \/ \E i \in DOMAIN inbox : inbox[i].ctx = b

CommitAwaited(b) == Awaited(cSent, cSettled, cTold, cInbox, b)
FinalizeAwaited(b) == Awaited(fSent, fSettled, fTold, fInbox, b)

\* Where the code leaves a batch behind: a transaction it waits for will not be
\* heard of again (its confirmation came before the late write, or was lost); a
\* finalization reverted; a commit or finalization is tried again of a batch that
\* the contract has already, which its gas estimate refuses every time.
Stuck(b) ==
    \/ /\ ~ CommitAwaited(b)
       /\ \/ status[b] = Committing
          \/ status[b] \in {Pending, CommitFailed} /\ b <= committed
    \/ /\ ~ FinalizeAwaited(b)
       /\ \/ status[b] \in {Finalizing, FinalizeFailed}
          \/ status[b] = Committed /\ b <= finalized

\* Once a batch and all before it are proved, it is finalized, also when commits
\* revert, unless a proof lapses or a batch up to it is left in one of the ways
\* Stuck lists: there is no other way for the loops, the confirmations and the
\* watcher to leave a batch behind.
BatchesRollUp ==
    \A b \in Batches :
        UpTo(b) ~> \/ status[b] = Finalized
                   \/ ~ UpTo(b)
                   \/ \E c \in 1 .. b : Stuck(c)

=============================================================================
