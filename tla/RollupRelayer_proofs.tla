------------------------ MODULE RollupRelayer_proofs ------------------------
(***************************************************************************)
(* Proof that the rollup status of a batch is true of the contract, for    *)
(* any number of batches, transactions, failures and restarts.             *)
(***************************************************************************)
EXTENDS RollupRelayer, TLAPS

\* the time the SMT solver has for a step, in seconds
USE SMTT(20)

Report == [ctx: Batches, ok: BOOLEAN]
RollupEvent == [batch: Batches, status: {Committed, Finalized}]
Comparison == [event: RollupEvent, read: 0 .. 7]

TypeInv ==
    /\ status \in [Batches -> 0 .. 7]
    /\ proving \in [Batches -> {"open", "verified", "failed", "lapsed"}]
    /\ committed \in Nat
    /\ finalized \in Nat
    /\ cSettled \in Seq(Report) /\ cInbox \in Seq(Report)
    /\ fSettled \in Seq(Report) /\ fInbox \in Seq(Report)
    /\ fSent \subseteq Batches \X Nonces
    /\ finalizeList \subseteq Batches
    /\ seen \in Nat
    /\ events \in Seq(RollupEvent)
    /\ watched \in Seq(Comparison)

Proved == {"verified", "lapsed"}

Finalizable(b) == b <= committed /\ (Bypass \/ proving[b] \in Proved)

\* what the commit loop and the commit sender hold is true
CommitInv ==
    /\ \A b \in writeCommit : Sent(cSent, b)
    /\ \A i \in DOMAIN cSettled : cSettled[i].ok => cSettled[i].ctx <= committed
    /\ \A i \in DOMAIN cInbox : \E j \in DOMAIN cSettled : cInbox[i] = cSettled[j]

\* what the finalize loop and the finalize sender hold is true
FinalizeInv ==
    /\ finalized <= committed
    /\ \A b \in finalizeList : Finalizable(b)
    /\ \A b \in writeFinalize : Sent(fSent, b)
    /\ \A t \in fSent : Finalizable(t[1])
    /\ \A i \in DOMAIN fSettled : /\ Sent(fSent, fSettled[i].ctx)
                                  /\ fSettled[i].ok => fSettled[i].ctx <= finalized
    /\ \A i \in DOMAIN fInbox : \E j \in DOMAIN fSettled : fInbox[i] = fSettled[j]

\* an event is true of a contract with these batches
Holds(e, com, fin) ==
    /\ e.status = Committed => e.batch <= com
    /\ e.status = Finalized => e.batch <= fin

\* the events, and those the watcher is processing, are true
EventInv ==
    /\ \A i \in DOMAIN events : Holds(events[i], committed, finalized)
    /\ \A i \in DOMAIN watched : Holds(watched[i].event, committed, finalized)

IInv == TypeInv /\ CommitInv /\ FinalizeInv /\ EventInv /\ StatusesAreTrue

-----------------------------------------------------------------------------

\* At the start batches claim nothing and nothing was sent.
LEMMA InitIInv == Init => IInv
<1> SUFFICES ASSUME Init PROVE IInv
  OBVIOUS
<1> USE DEF Init, Commit!ServiceInit, Finalize!ServiceInit
<1>1. TypeInv
  BY DEF TypeInv, Undefined, Pending
<1>2. CommitInv /\ FinalizeInv /\ EventInv
  BY DEF CommitInv, FinalizeInv, EventInv
<1>3. StatusesAreTrue
  BY DEF StatusesAreTrue, Sent, Undefined, Pending, Committing, Committed, Finalizing, Finalized,
         FinalizeFailed, CommitFailed
<1> QED BY <1>1, <1>2, <1>3 DEF IInv

-----------------------------------------------------------------------------
(* What no step takes back *)

Grows ==
    /\ committed' >= committed /\ finalized' >= finalized
    /\ cSent \subseteq cSent' /\ fSent \subseteq fSent'
    /\ \A i \in DOMAIN cSettled : i \in DOMAIN cSettled' /\ cSettled'[i] = cSettled[i]
    /\ \A i \in DOMAIN fSettled : i \in DOMAIN fSettled' /\ fSettled'[i] = fSettled[i]
    /\ \A b \in Batches : proving[b] \in Proved => proving'[b] \in Proved

\* what StatusesAreTrue says of the status of one batch
Claim(b) ==
    /\ status[b] = Committing => Sent(cSent, b)
    /\ status[b] \in {Committed, Finalizing, Finalized, FinalizeFailed} => b <= committed
    /\ status[b] = Finalizing => Sent(fSent, b)
    /\ status[b] = Finalized => b <= finalized
    /\ status[b] = CommitFailed => Reverted(cSettled, b)
    /\ status[b] = FinalizeFailed => Reverted(fSettled, b)

\* The status of a batch stays true while it is not written.
LEMMA ClaimGrows ==
    ASSUME IInv, Grows, TypeInv', NEW b \in Batches, status'[b] = status[b]
    PROVE  Claim(b)'
<1> b \in Nat /\ committed \in Nat /\ committed' \in Nat /\ finalized \in Nat /\ finalized' \in Nat
  BY RelayerAssumption DEF IInv, TypeInv, Batches
<1>1. Claim(b)
  BY DEF IInv, StatusesAreTrue, Claim
<1>2. status[b] = Committing => Sent(cSent', b)
  BY <1>1 DEF Claim, Grows, Sent
<1>3. status[b] \in {Committed, Finalizing, Finalized, FinalizeFailed} => b <= committed'
  BY <1>1 DEF Claim, Grows
<1>4. status[b] = Finalizing => Sent(fSent', b)
  BY <1>1 DEF Claim, Grows, Sent
<1>5. status[b] = Finalized => b <= finalized'
  BY <1>1 DEF Claim, Grows
<1>6. status[b] = CommitFailed => Reverted(cSettled', b)
  BY <1>1 DEF Claim, Grows, Reverted
<1>7. status[b] = FinalizeFailed => Reverted(fSettled', b)
  BY <1>1 DEF Claim, Grows, Reverted
<1> QED BY <1>2, <1>3, <1>4, <1>5, <1>6, <1>7 DEF Claim

\* The parts of the invariant give back StatusesAreTrue.
LEMMA StatusFromParts ==
    ASSUME TypeInv', FinalizeInv', \A b \in Batches : Claim(b)'
    PROVE  StatusesAreTrue'
<1> SUFFICES ASSUME NEW b \in Batches, Sent(fSent', b)
             PROVE  b <= committed' /\ (Bypass \/ proving'[b] \in Proved)
  BY DEF StatusesAreTrue, Claim, Proved
<1>1. PICK n \in Nonces : <<b, n>> \in fSent'
  BY DEF Sent
<1> QED BY <1>1 DEF FinalizeInv, Finalizable

\* Steps that change nothing of what the invariant says of committing.
LEMMA CommitKept ==
    ASSUME CommitInv, UNCHANGED <<commitSender, committed, writeCommit>>
    PROVE  CommitInv'
BY Zenon DEF CommitInv, commitSender, Sent

\* What waits in the commit sender's channel was settled.
LEMMA InboxStep ==
    ASSUME CommitInv, UNCHANGED <<cSent, cSettled, writeCommit, committed>>,
           \A i \in DOMAIN cInbox' : \/ \E k \in DOMAIN cInbox : cInbox'[i] = cInbox[k]
                                     \/ \E k \in DOMAIN cSettled : cInbox'[i] = cSettled[k]
    PROVE  CommitInv'
<1>1. ASSUME NEW i \in DOMAIN cInbox' PROVE \E j \in DOMAIN cSettled' : cInbox'[i] = cSettled'[j]
  <2>1. CASE \E k \in DOMAIN cInbox : cInbox'[i] = cInbox[k]
    BY <2>1 DEF CommitInv
  <2>2. CASE \E k \in DOMAIN cSettled : cInbox'[i] = cSettled[k]
    BY <2>2
  <2> QED BY <2>1, <2>2
<1>2. /\ \A b \in writeCommit' : Sent(cSent', b)
      /\ \A i \in DOMAIN cSettled' : cSettled'[i].ok => cSettled'[i].ctx <= committed'
  BY DEF CommitInv
<1> QED BY <1>1, <1>2 DEF CommitInv

\* Nothing of what the invariant says of finalizing changes.
LEMMA FinalizeKept ==
    ASSUME FinalizeInv,
           UNCHANGED <<finalizeSender, committed, finalized, finalizeList, writeFinalize, proving>>
    PROVE  FinalizeInv'
BY Zenon DEF FinalizeInv, finalizeSender, Sent, Finalizable

\* The same for the events.
LEMMA EventKept ==
    ASSUME EventInv, UNCHANGED <<contract, watched>>
    PROVE  EventInv'
BY DEF EventInv, contract

\* A contract and senders that do not change have grown.
LEMMA SameGrows ==
    ASSUME TypeInv, UNCHANGED <<committed, finalized, cSent, fSent, cSettled, fSettled, proving>>
    PROVE  Grows
BY DEF Grows, TypeInv

-----------------------------------------------------------------------------
(* Steps that write one status *)

\* A step that leaves the senders' transactions, the contract and the proofs alone keeps
\* StatusesAreTrue if the one status it writes is true.
LEMMA StatusStep ==
    ASSUME IInv, TypeInv', FinalizeInv', Grows,
           \A b \in Batches : status'[b] = status[b] \/ Claim(b)'
    PROVE  StatusesAreTrue'
BY ClaimGrows, StatusFromParts

\* A write of one status.
LEMMA WriteStatus ==
    ASSUME TypeInv, NEW b, NEW s \in 0 .. 7, status' = [status EXCEPT ![b] = s]
    PROVE  /\ status' \in [Batches -> 0 .. 7]
           /\ \A c \in Batches : status'[c] = IF c = b THEN s ELSE status[c]
BY Zenon DEF TypeInv

\* A batch is inserted as RollupPending, which claims nothing.
LEMMA InsertStep ==
    ASSUME IInv, NEW b \in Batches, InsertBatch(b)
    PROVE  IInv'
<1> USE DEF InsertBatch, IInv
<1>1. TypeInv'
  BY DEF TypeInv, Pending, commitSender, finalizeSender, contract, loops, watcher
<1>2. CommitInv' /\ FinalizeInv' /\ EventInv'
  BY CommitKept, FinalizeKept, EventKept DEF loops, contract, watcher
<1>3. Grows
  BY SameGrows DEF commitSender, finalizeSender, contract
<1>4. status'[b] = Pending /\ \A c \in Batches \ {b} : status'[c] = status[c]
  BY DEF TypeInv
<1>5. Claim(b)'
  BY <1>4 DEF Claim, Pending, Committing, Committed, Finalizing, Finalized, FinalizeFailed, CommitFailed
<1>6. StatusesAreTrue'
  BY <1>1, <1>2, <1>3, <1>4, <1>5, StatusStep
<1> QED BY <1>1, <1>2, <1>6

\* A batch that was verified once stays so, or lapses.
LEMMA ProveStep ==
    ASSUME IInv, NEW b \in Batches, NEW v \in {"verified", "failed", "lapsed"}, Prove(b, v)
    PROVE  IInv'
<1> USE DEF Prove, IInv
<1>1. TypeInv'
  BY DEF TypeInv, commitSender, finalizeSender, contract, loops, watcher
<1>2. \A c \in Batches : proving[c] \in Proved => proving'[c] \in Proved
  BY DEF TypeInv, Proved
<1>3. Grows
  BY <1>2 DEF Grows, TypeInv, commitSender, finalizeSender, contract
<1>4. CommitInv' /\ EventInv'
  BY CommitKept, EventKept DEF loops, contract, watcher
<1>5. \A c \in Batches : Finalizable(c) => Finalizable(c)'
  BY <1>2 DEF Finalizable, contract
<1>6. FinalizeInv'
  BY <1>5, Zenon DEF FinalizeInv, TypeInv, finalizeSender, contract, loops, Sent
<1>7. StatusesAreTrue'
  BY <1>1, <1>3, <1>6, StatusStep
<1> QED BY <1>1, <1>4, <1>6, <1>7

-----------------------------------------------------------------------------
(* The commit loop *)

\* A step that only changes what ProcessPendingBatches has loaded keeps the invariant.
LEMMA CommitListStep ==
    ASSUME IInv, writeCommit' = {} \/ UNCHANGED writeCommit,
           UNCHANGED <<status, proving, commitSender, finalizeSender, contract, finalizeList,
                       writeFinalize, watcher>>
    PROVE  IInv'
<1> USE DEF IInv
<1>1. TypeInv'
  BY DEF TypeInv, commitSender, finalizeSender, contract, watcher
<1>2. CommitInv'
  BY DEF CommitInv, commitSender, contract, Sent
<1>3. FinalizeInv' /\ EventInv'
  BY FinalizeKept, EventKept DEF contract, watcher
<1>4. Grows
  BY SameGrows DEF commitSender, finalizeSender, contract
<1>5. StatusesAreTrue'
  BY <1>1, <1>3, <1>4, StatusStep
<1> QED BY <1>1, <1>2, <1>3, <1>5

\* The commit of a batch is sent before its status is written.
LEMMA SendCommitStep ==
    ASSUME IInv, SendCommit
    PROVE  IInv'
<1> USE DEF IInv
<1>1. PICK n \in NextNonces(cSent, cSettled) : Commit!Submit(Head(commitList), n)
  BY DEF SendCommit
<1>2. n \in Nonces /\ cSent' = cSent \cup {<<Head(commitList), n>>}
      /\ UNCHANGED <<cSettled, cTold, cInbox>>
  BY <1>1 DEF Commit!Submit, NextNonces
<1>3. writeCommit' = {Head(commitList)}
      /\ UNCHANGED <<status, proving, finalizeSender, contract, finalizeList, writeFinalize, watcher>>
  BY DEF SendCommit
<1>4. TypeInv'
  BY <1>2, <1>3 DEF TypeInv, finalizeSender, contract, watcher
<1>5. CommitInv'
  <2>1. Sent(cSent', Head(commitList))
    BY <1>2 DEF Sent
  <2> QED BY <1>2, <1>3, <2>1 DEF CommitInv, contract
<1>6. FinalizeInv' /\ EventInv'
  BY <1>3, FinalizeKept, EventKept DEF contract, watcher
<1>7. Grows
  BY <1>2, <1>3 DEF Grows, TypeInv, finalizeSender, contract
<1>8. StatusesAreTrue'
  BY <1>3, <1>4, <1>6, <1>7, StatusStep
<1> QED BY <1>4, <1>5, <1>6, <1>8

\* RollupCommitting is written late, and true since the transaction was sent.
LEMMA WriteCommittingStep ==
    ASSUME IInv, WriteCommitting
    PROVE  IInv'
<1> USE DEF IInv
<1>1. PICK b \in writeCommit : status' = [status EXCEPT ![b] = Committing]
  BY Zenon DEF WriteCommitting
<1>2. writeCommit' = {}
      /\ UNCHANGED <<proving, commitSender, finalizeSender, contract, finalizeList,
                     writeFinalize, watcher>>
  BY DEF WriteCommitting
<1>3. TypeInv'
  <2> Committing \in 0 .. 7
    BY DEF Committing
  <2>1. status' \in [Batches -> 0 .. 7]
    BY <1>1, WriteStatus, Zenon
  <2> QED BY <1>2, <2>1 DEF TypeInv, commitSender, finalizeSender, contract, watcher
<1>4. CommitInv'
  BY <1>2 DEF CommitInv, commitSender, contract
<1>5. FinalizeInv' /\ EventInv'
  BY <1>2, FinalizeKept, EventKept DEF contract, watcher
<1>6. Grows
  BY <1>2, SameGrows DEF commitSender, finalizeSender, contract
<1>7. Sent(cSent', b)
  BY <1>2 DEF CommitInv, commitSender
<1>8. ASSUME NEW c \in Batches PROVE status'[c] = status[c] \/ Claim(c)'
  <2>1. CASE c # b
    BY <2>1, <1>1 DEF TypeInv
  <2>2. CASE c = b
    <3>1. status'[c] = Committing
      BY <2>2, <1>1 DEF TypeInv
    <3> QED BY <3>1, <2>2, <1>7
            DEF Claim, Committing, Committed, Finalizing, Finalized, FinalizeFailed, CommitFailed
  <2> QED BY <2>1, <2>2
<1>9. StatusesAreTrue'
  BY <1>3, <1>5, <1>6, <1>8, StatusStep
<1> QED BY <1>3, <1>4, <1>5, <1>9

-----------------------------------------------------------------------------
(* The finalize loop *)

\* A step that only empties what ProcessCommittedBatches holds keeps the invariant.
LEMMA FinalizeListStep ==
    ASSUME IInv, finalizeList' \subseteq Batches, \A b \in finalizeList' : Finalizable(b),
           writeFinalize' = {} \/ UNCHANGED writeFinalize,
           UNCHANGED <<status, proving, commitSender, finalizeSender, contract, writeCommit, watcher>>
    PROVE  IInv'
<1> USE DEF IInv
<1>1. TypeInv'
  BY DEF TypeInv, commitSender, finalizeSender, contract, watcher
<1>2. CommitInv' /\ EventInv'
  BY CommitKept, EventKept DEF contract, watcher
<1>3. FinalizeInv'
  BY Zenon DEF FinalizeInv, finalizeSender, contract, Sent, Finalizable
<1>4. Grows
  BY SameGrows DEF commitSender, finalizeSender, contract
<1>5. StatusesAreTrue'
  BY <1>1, <1>3, <1>4, StatusStep
<1> QED BY <1>1, <1>2, <1>3, <1>5

\* A batch is loaded when its status is RollupCommitted, which is true, and its proof is
\* verified.
LEMMA GetCommittedStep ==
    ASSUME IInv, GetCommittedBatch
    PROVE  IInv'
<1>1. PICK b \in CommittedBatches : proving[b] \in FinalizableProving /\ finalizeList' = {b}
  BY DEF GetCommittedBatch
<1>2. b \in Batches /\ status[b] = Committed
  BY DEF CommittedBatches
<1>3. b <= committed
  BY <1>2 DEF IInv, StatusesAreTrue
<1>4. Bypass \/ proving[b] \in Proved
  BY <1>1, RelayerAssumption DEF FinalizableProving, Proved
<1>5. UNCHANGED <<status, proving, commitSender, finalizeSender, contract, writeCommit,
                  writeFinalize, watcher>>
  BY DEF GetCommittedBatch
<1> QED BY <1>1, <1>2, <1>3, <1>4, <1>5, FinalizeListStep DEF Finalizable

\* Only a batch that was loaded is finalized, and what was true of it then still is.
LEMMA SendFinalizeStep ==
    ASSUME IInv, SendFinalize
    PROVE  IInv'
<1> USE DEF IInv
<1>1. PICK b \in finalizeList : \E m \in NextNonces(fSent, fSettled) :
              Finalize!Submit(b, m) /\ writeFinalize' = {b} /\ finalizeList' = {}
  BY DEF SendFinalize
<1>2. PICK n \in NextNonces(fSent, fSettled) : Finalize!Submit(b, n)
  BY <1>1
<1>3. n \in Nonces /\ fSent' = fSent \cup {<<b, n>>} /\ UNCHANGED <<fSettled, fTold, fInbox>>
  BY <1>2 DEF Finalize!Submit, NextNonces
<1>4. UNCHANGED <<status, proving, commitSender, contract, writeCommit, watcher>>
  BY DEF SendFinalize
<1>5. b \in Batches /\ Finalizable(b)
  BY DEF TypeInv, FinalizeInv
<1>6. TypeInv'
  BY <1>1, <1>3, <1>4, <1>5 DEF TypeInv, commitSender, contract, watcher
<1>7. CommitInv' /\ EventInv'
  BY <1>4, CommitKept, EventKept DEF contract, watcher
<1>8. \A c : Sent(fSent, c) => Sent(fSent', c)
  BY <1>3 DEF Sent
<1>9. Sent(fSent', b)
  BY <1>3 DEF Sent
<1>10. \A t \in fSent' : Finalizable(t[1])'
  <2> SUFFICES ASSUME NEW t \in fSent' PROVE Finalizable(t[1])
    BY <1>4 DEF Finalizable, contract
  <2>1. t \in fSent \/ t = <<b, n>>
    BY <1>3, Zenon
  <2>2. CASE t \in fSent
    BY <2>2, Zenon DEF FinalizeInv
  <2>3. CASE t = <<b, n>>
    <3>1. t[1] = b
      BY <2>3
    <3> QED BY <1>5, <3>1, Zenon
  <2> QED BY <2>1, <2>2, <2>3, Zenon
<1>11. FinalizeInv'
  BY <1>1, <1>3, <1>4, <1>8, <1>9, <1>10, Zenon DEF FinalizeInv, contract
<1>12. Grows
  BY <1>3, <1>4 DEF Grows, TypeInv, commitSender, contract
<1>13. StatusesAreTrue'
  BY <1>4, <1>6, <1>11, <1>12, StatusStep
<1> QED BY <1>6, <1>7, <1>11, <1>13

\* RollupFinalizing is written late, and true since the transaction was sent.
LEMMA WriteFinalizingStep ==
    ASSUME IInv, WriteFinalizing
    PROVE  IInv'
<1> USE DEF IInv
<1>1. PICK b \in writeFinalize : status' = [status EXCEPT ![b] = Finalizing]
  BY Zenon DEF WriteFinalizing
<1>2. writeFinalize' = {}
      /\ UNCHANGED <<proving, commitSender, finalizeSender, contract, writeCommit,
                     finalizeList, watcher>>
  BY DEF WriteFinalizing
<1>3. TypeInv'
  <2> Finalizing \in 0 .. 7
    BY DEF Finalizing
  <2>1. status' \in [Batches -> 0 .. 7]
    BY <1>1, WriteStatus, Zenon
  <2> QED BY <1>2, <2>1 DEF TypeInv, commitSender, finalizeSender, contract, watcher
<1>4. CommitInv' /\ EventInv'
  BY <1>2, CommitKept, EventKept DEF contract, watcher
<1>5. FinalizeInv'
  BY <1>2, Zenon DEF FinalizeInv, finalizeSender, contract, Sent, Finalizable
<1>6. Grows
  BY <1>2, SameGrows DEF commitSender, finalizeSender, contract
<1>7. Sent(fSent', b)
  BY <1>2 DEF FinalizeInv, finalizeSender
<1>8. ASSUME NEW c \in Batches PROVE status'[c] = status[c] \/ Claim(c)'
  <2>1. CASE c # b
    BY <2>1, <1>1 DEF TypeInv
  <2>2. CASE c = b
    <3>1. status'[c] = Finalizing
      BY <2>2, <1>1 DEF TypeInv
    <3>2. c <= committed'
      <4>1. PICK n \in Nonces : <<b, n>> \in fSent'
        BY <1>7 DEF Sent
      <4> QED BY <4>1, <2>2, <1>5 DEF FinalizeInv, Finalizable
    <3> QED BY <3>1, <3>2, <2>2, <1>7
            DEF Claim, Committing, Committed, Finalizing, Finalized, FinalizeFailed, CommitFailed
  <2> QED BY <2>1, <2>2
<1>9. StatusesAreTrue'
  BY <1>3, <1>5, <1>6, <1>8, StatusStep
<1> QED BY <1>3, <1>4, <1>5, <1>9

-----------------------------------------------------------------------------
(* Confirmations *)

\* A confirmation of the commit sender says what the chain settled.
LEMMA ConfirmCommitStep ==
    ASSUME IInv, ConfirmCommit
    PROVE  IInv'
<1> USE DEF IInv
<1> DEFINE r == Head(cInbox)
           s == CommitVerdict(r.ok)
<1>1. cInbox # <<>> /\ cInbox' = Tail(cInbox) /\ UNCHANGED <<cSent, cSettled, cTold>>
  BY DEF ConfirmCommit, Commit!Take
<1>2. UNCHANGED <<proving, finalizeSender, contract, loops, watcher>>
  BY DEF ConfirmCommit
<1>3. r \in Report /\ 1 \in DOMAIN cInbox /\ r = cInbox[1] /\ s \in 0 .. 7
      /\ cInbox' \in Seq(Report)
  BY <1>1 DEF TypeInv, CommitVerdict, Committed, CommitFailed
<1>4. PICK j \in DOMAIN cSettled : r = cSettled[j]
  BY <1>3 DEF CommitInv
<1>5. \A i \in DOMAIN cInbox' : i + 1 \in DOMAIN cInbox /\ cInbox'[i] = cInbox[i + 1]
  BY <1>1 DEF TypeInv
<1>6. status' = [status EXCEPT ![r.ctx] = s]
  BY DEF ConfirmCommit
<1> HIDE DEF r, s
<1>7. status' \in [Batches -> 0 .. 7]
      /\ \A c \in Batches : status'[c] = IF c = r.ctx THEN s ELSE status[c]
  BY <1>3, <1>6, WriteStatus, Zenon
<1>8. TypeInv'
  BY <1>1, <1>2, <1>3, <1>7 DEF TypeInv, finalizeSender, contract, loops, watcher
<1>9. CommitInv'
  <2>1. \A i \in DOMAIN cInbox' : \/ \E k \in DOMAIN cInbox : cInbox'[i] = cInbox[k]
                                  \/ \E k \in DOMAIN cSettled : cInbox'[i] = cSettled[k]
    BY <1>5
  <2>2. UNCHANGED <<cSent, cSettled, writeCommit, committed>>
    BY <1>1, <1>2 DEF contract, loops
  <2> QED BY <2>1, <2>2, InboxStep
<1>10. FinalizeInv' /\ EventInv'
  BY <1>2, FinalizeKept, EventKept DEF contract, loops, watcher
<1>11. Grows
  BY <1>1, <1>2, SameGrows DEF finalizeSender, contract
<1>12. PICK d \in Batches, ok \in BOOLEAN : d = r.ctx /\ ok = r.ok /\ r = [ctx |-> d, ok |-> ok]
  BY <1>3 DEF Report
<1>13. Claim(d)'
  <2>1. CASE ok
    <3>1. status'[d] = Committed
      BY <2>1, <1>7, <1>12 DEF s, CommitVerdict
    <3>2. d <= committed'
      BY <2>1, <1>2, <1>4, <1>12 DEF CommitInv, contract
    <3> QED BY <3>1, <3>2
            DEF Claim, Committing, Committed, Finalizing, Finalized, FinalizeFailed, CommitFailed
  <2>2. CASE ~ ok
    <3>1. status'[d] = CommitFailed
      BY <2>2, <1>7, <1>12 DEF s, CommitVerdict
    <3>2. r = [ctx |-> d, ok |-> FALSE]
      BY <2>2, <1>12, Zenon
    <3>3. Reverted(cSettled', d)
      BY <3>2, <1>1, <1>4 DEF Reverted
    <3> QED BY <3>1, <3>3
            DEF Claim, Committing, Committed, Finalizing, Finalized, FinalizeFailed, CommitFailed
  <2> QED BY <2>1, <2>2
<1>14. StatusesAreTrue'
  <2>1. ASSUME NEW c \in Batches PROVE status'[c] = status[c] \/ Claim(c)'
    BY <1>7, <1>12, <1>13
  <2> QED BY <2>1, <1>8, <1>10, <1>11, StatusStep
<1> QED BY <1>8, <1>9, <1>10, <1>14

\* A confirmation whose write fails is gone, and nothing else changes.
LEMMA CommitLostStep ==
    ASSUME IInv, CommitConfirmationLost
    PROVE  IInv'
<1> USE DEF IInv
<1>1. cInbox # <<>> /\ cInbox' = Tail(cInbox) /\ UNCHANGED <<cSent, cSettled, cTold>>
  BY DEF CommitConfirmationLost, Commit!Take
<1>2. UNCHANGED <<status, proving, finalizeSender, contract, loops, watcher>>
  BY DEF CommitConfirmationLost
<1>3. /\ cInbox' \in Seq(Report)
      /\ \A i \in DOMAIN cInbox' : i + 1 \in DOMAIN cInbox /\ cInbox'[i] = cInbox[i + 1]
  BY <1>1 DEF TypeInv
<1>4. TypeInv'
  BY <1>1, <1>2, <1>3 DEF TypeInv, finalizeSender, contract, loops, watcher
<1>5. CommitInv'
  <2>1. \A i \in DOMAIN cInbox' : \E k \in DOMAIN cInbox : cInbox'[i] = cInbox[k]
    BY <1>3
  <2>2. UNCHANGED <<cSent, cSettled, writeCommit, committed>>
    BY <1>1, <1>2 DEF contract, loops
  <2> QED BY <2>1, <2>2, InboxStep
<1>6. FinalizeInv' /\ EventInv'
  BY <1>2, FinalizeKept, EventKept DEF contract, loops, watcher
<1>7. Grows
  BY <1>1, <1>2, SameGrows DEF finalizeSender, contract
<1>8. StatusesAreTrue'
  BY <1>2, <1>4, <1>6, <1>7, StatusStep
<1> QED BY <1>4, <1>5, <1>6, <1>8

\* The same for a finalization.
LEMMA FinalizeLostStep ==
    ASSUME IInv, FinalizeConfirmationLost
    PROVE  IInv'
<1> USE DEF IInv
<1>1. fInbox # <<>> /\ fInbox' = Tail(fInbox) /\ UNCHANGED <<fSent, fSettled, fTold>>
  BY DEF FinalizeConfirmationLost, Finalize!Take
<1>2. UNCHANGED <<status, proving, commitSender, contract, loops, watcher>>
  BY DEF FinalizeConfirmationLost
<1>3. /\ fInbox' \in Seq(Report)
      /\ \A i \in DOMAIN fInbox' : i + 1 \in DOMAIN fInbox /\ fInbox'[i] = fInbox[i + 1]
  BY <1>1 DEF TypeInv
<1>4. TypeInv'
  BY <1>1, <1>2, <1>3 DEF TypeInv, commitSender, contract, loops, watcher
<1>5. FinalizeInv'
  <2>1. \A i \in DOMAIN fInbox' : \E k \in DOMAIN fSettled : fInbox'[i] = fSettled[k]
    BY <1>3 DEF FinalizeInv
  <2>2. /\ \A c \in finalizeList' : Finalizable(c)'
        /\ \A t \in fSent' : Finalizable(t[1])'
    BY <1>1, <1>2, Zenon DEF FinalizeInv, Finalizable, contract, loops
  <2> QED BY <1>1, <1>2, <2>1, <2>2, Zenon DEF FinalizeInv, contract, loops, Sent
<1>6. CommitInv' /\ EventInv'
  BY <1>2, CommitKept, EventKept DEF contract, loops, watcher
<1>7. Grows
  BY <1>1, <1>2, SameGrows DEF commitSender, contract
<1>8. StatusesAreTrue'
  BY <1>2, <1>4, <1>5, <1>7, StatusStep
<1> QED BY <1>4, <1>5, <1>6, <1>8

\* A confirmation of the finalize sender says what the chain settled.
LEMMA ConfirmFinalizeStep ==
    ASSUME IInv, ConfirmFinalize
    PROVE  IInv'
<1> USE DEF IInv
<1> DEFINE r == Head(fInbox)
           s == FinalizeVerdict(r.ok)
<1>1. fInbox # <<>> /\ fInbox' = Tail(fInbox) /\ UNCHANGED <<fSent, fSettled, fTold>>
  BY DEF ConfirmFinalize, Finalize!Take
<1>2. UNCHANGED <<proving, commitSender, contract, loops, watcher>>
  BY DEF ConfirmFinalize
<1>3. r \in Report /\ 1 \in DOMAIN fInbox /\ r = fInbox[1] /\ s \in 0 .. 7
      /\ fInbox' \in Seq(Report)
  BY <1>1 DEF TypeInv, FinalizeVerdict, Finalized, FinalizeFailed
<1>4. PICK j \in DOMAIN fSettled : r = fSettled[j]
  BY <1>3 DEF FinalizeInv
<1>5. \A i \in DOMAIN fInbox' : i + 1 \in DOMAIN fInbox /\ fInbox'[i] = fInbox[i + 1]
  BY <1>1 DEF TypeInv
<1>6. status' = [status EXCEPT ![r.ctx] = s]
  BY DEF ConfirmFinalize
<1> HIDE DEF r, s
<1>7. status' \in [Batches -> 0 .. 7]
      /\ \A c \in Batches : status'[c] = IF c = r.ctx THEN s ELSE status[c]
  BY <1>3, <1>6, WriteStatus, Zenon
<1>8. TypeInv'
  BY <1>1, <1>2, <1>3, <1>7, Zenon DEF TypeInv, commitSender, contract, loops, watcher
<1>9. FinalizeInv'
  <2>1. \A i \in DOMAIN fInbox' : \E k \in DOMAIN fSettled : fInbox'[i] = fSettled[k]
    BY <1>5 DEF FinalizeInv
  <2>2. /\ finalized' <= committed' /\ finalizeList' = finalizeList
        /\ \A b \in writeFinalize' : Sent(fSent', b)
        /\ \A i \in DOMAIN fSettled : /\ Sent(fSent', fSettled[i].ctx)
                                      /\ fSettled[i].ok => fSettled[i].ctx <= finalized'
    BY <1>1, <1>2, Zenon DEF FinalizeInv, contract, loops, Sent
  <2>3. /\ \A b \in finalizeList : Finalizable(b)'
        /\ \A t \in fSent : Finalizable(t[1])'
    BY <1>2 DEF FinalizeInv, Finalizable, contract
  <2> QED BY <1>1, <2>1, <2>2, <2>3, Zenon DEF FinalizeInv
<1>10. CommitInv' /\ EventInv'
  BY <1>2, CommitKept, EventKept DEF contract, loops, watcher
<1>11. Grows
  BY <1>1, <1>2, SameGrows, Zenon DEF commitSender, contract
<1>12. PICK d \in Batches, ok \in BOOLEAN : d = r.ctx /\ ok = r.ok /\ r = [ctx |-> d, ok |-> ok]
  BY <1>3 DEF Report
<1>13. d <= committed'
  <2>1. Sent(fSent, d)
    BY <1>4, <1>12 DEF FinalizeInv
  <2>2. PICK n \in Nonces : <<d, n>> \in fSent
    BY <2>1 DEF Sent
  <2> QED BY <2>2, <1>2 DEF FinalizeInv, Finalizable, contract
<1>14. Claim(d)'
  <2>1. CASE ok
    <3>1. status'[d] = Finalized
      BY <2>1, <1>7, <1>12 DEF s, FinalizeVerdict
    <3>2. d <= finalized'
      BY <2>1, <1>2, <1>4, <1>12 DEF FinalizeInv, contract
    <3> QED BY <3>1, <3>2, <1>13
            DEF Claim, Committing, Committed, Finalizing, Finalized, FinalizeFailed, CommitFailed
  <2>2. CASE ~ ok
    <3>1. status'[d] = FinalizeFailed
      BY <2>2, <1>7, <1>12 DEF s, FinalizeVerdict
    <3>2. r = [ctx |-> d, ok |-> FALSE]
      BY <2>2, <1>12, Zenon
    <3>3. Reverted(fSettled', d)
      BY <3>2, <1>1, <1>4 DEF Reverted
    <3> QED BY <3>1, <3>3, <1>13
            DEF Claim, Committing, Committed, Finalizing, Finalized, FinalizeFailed, CommitFailed
  <2> QED BY <2>1, <2>2
<1>15. StatusesAreTrue'
  <2>1. ASSUME NEW c \in Batches PROVE status'[c] = status[c] \/ Claim(c)'
    BY <1>7, <1>12, <1>14
  <2> QED BY <2>1, <1>8, <1>9, <1>11, StatusStep
<1> QED BY <1>8, <1>9, <1>10, <1>15

-----------------------------------------------------------------------------
(* The senders and the contract *)

\* Events stay true while the contract moves on, and a new one is added.
LEMMA EventsGrow ==
    ASSUME TypeInv, EventInv, NEW e \in RollupEvent, UNCHANGED watched,
           committed' \in Nat, finalized' \in Nat, committed' >= committed, finalized' >= finalized,
           \/ UNCHANGED events
           \/ events' = Append(events, e) /\ Holds(e, committed', finalized')
    PROVE  EventInv' /\ events' \in Seq(RollupEvent)
<1>1. ASSUME NEW f \in RollupEvent, Holds(f, committed, finalized)
      PROVE  Holds(f, committed', finalized')
  BY <1>1, RelayerAssumption DEF TypeInv, Holds, RollupEvent, Batches
<1>2. \A i \in DOMAIN events : events[i] \in RollupEvent
  BY DEF TypeInv
<1>3. \A i \in DOMAIN watched : watched[i].event \in RollupEvent
  <2>1. \A i \in DOMAIN watched : watched[i] \in Comparison
    BY DEF TypeInv
  <2> QED BY <2>1 DEF Comparison
<1>4. \A i \in DOMAIN watched' : Holds(watched'[i].event, committed', finalized')
  BY <1>1, <1>3 DEF EventInv
<1>5. \A i \in DOMAIN events : Holds(events[i], committed', finalized')
  BY <1>1, <1>2 DEF EventInv
<1>6. CASE UNCHANGED events
  BY <1>4, <1>5, <1>6 DEF EventInv, TypeInv
<1>7. CASE events' = Append(events, e) /\ Holds(e, committed', finalized')
  <2>1. /\ events' \in Seq(RollupEvent)
        /\ \A i \in DOMAIN events' : IF i \in DOMAIN events THEN events'[i] = events[i]
                                     ELSE events'[i] = e
    BY <1>7 DEF TypeInv
  <2>2. \A i \in DOMAIN events' : Holds(events'[i], committed', finalized')
    BY <2>1, <1>5, <1>7
  <2> QED BY <2>1, <2>2, <1>4 DEF EventInv
<1> QED BY <1>6, <1>7

\* A sequence of reports with one more.
LEMMA ReportAppended ==
    ASSUME NEW s \in Seq(Report), NEW r \in Report
    PROVE  /\ Append(s, r) \in Seq(Report)
           /\ \A i \in DOMAIN s : i \in DOMAIN Append(s, r) /\ Append(s, r)[i] = s[i]
           /\ \A i \in DOMAIN Append(s, r) : i \notin DOMAIN s => Append(s, r)[i] = r
OBVIOUS

\* The contract accepts the batch after the last committed one.
LEMMA SettleCommitStep ==
    ASSUME IInv, NEW b \in Batches, NEW ok \in BOOLEAN, SettleCommit(b, ok)
    PROVE  IInv'
<1> USE DEF IInv
<1> DEFINE new == [ctx |-> b, ok |-> ok]
           e == [batch |-> b, status |-> Committed]
<1>1. cSettled' = Append(cSettled, new) /\ UNCHANGED <<cSent, cTold, cInbox>>
  BY DEF SettleCommit, Commit!Settle
<1>2. UNCHANGED <<status, proving, finalizeSender, finalized, loops, watcher>>
  BY DEF SettleCommit
<1>3. /\ committed \in Nat /\ finalized \in Nat /\ b \in Nat
      /\ committed' \in Nat /\ committed' >= committed
      /\ ok => b <= committed'
  BY RelayerAssumption DEF SettleCommit, Verdict, TypeInv, Batches
<1>4. /\ new \in Report /\ cSettled \in Seq(Report)
      /\ new.ctx = b /\ new.ok = ok
  BY DEF TypeInv, Report
<1>5. EventInv' /\ events' \in Seq(RollupEvent)
  <2>1. e \in RollupEvent
    BY DEF RollupEvent
  <2>2. ok => Holds(e, committed', finalized')
    BY <1>3 DEF Holds, Committed, Finalized
  <2>3. events' = IF ok THEN Append(events, e) ELSE events
    BY DEF SettleCommit
  <2>4. UNCHANGED events \/ (events' = Append(events, e) /\ Holds(e, committed', finalized'))
    BY <2>2, <2>3
  <2>5. finalized' \in Nat /\ finalized' >= finalized /\ UNCHANGED watched
    BY <1>2, <1>3 DEF watcher
  <2> HIDE DEF e
  <2> QED BY <2>1, <2>4, <2>5, <1>3, EventsGrow
<1> HIDE DEF new
<1>6. TypeInv'
  BY <1>1, <1>2, <1>3, <1>4, <1>5, ReportAppended, Zenon DEF TypeInv, finalizeSender, loops, watcher
<1>7. /\ \A i \in DOMAIN cSettled : i \in DOMAIN cSettled' /\ cSettled'[i] = cSettled[i]
      /\ \A i \in DOMAIN cSettled' : i \notin DOMAIN cSettled => cSettled'[i] = new
  BY <1>1, <1>4, ReportAppended, Zenon
<1>8. CommitInv'
  <2>1. ASSUME NEW i \in DOMAIN cSettled', cSettled'[i].ok
        PROVE  cSettled'[i].ctx <= committed'
    <3>1. CASE i \in DOMAIN cSettled
      <4>1. cSettled[i] \in Report
        BY <3>1, <1>4
      <4>2. cSettled[i].ctx \in Nat
        BY <4>1, RelayerAssumption DEF Report, Batches
      <4>3. cSettled[i].ctx <= committed
        BY <2>1, <3>1, <1>7 DEF CommitInv
      <4> QED BY <4>2, <4>3, <3>1, <1>3, <1>7
    <3>2. CASE i \notin DOMAIN cSettled
      BY <2>1, <3>2, <1>3, <1>4, <1>7
    <3> QED BY <3>1, <3>2
  <2>2. \A i \in DOMAIN cInbox' : \E j \in DOMAIN cSettled' : cInbox'[i] = cSettled'[j]
    BY <1>1, <1>7 DEF CommitInv
  <2>3. \A c \in writeCommit' : Sent(cSent', c)
    BY <1>1, <1>2 DEF CommitInv, loops
  <2> QED BY <2>1, <2>2, <2>3, Zenon DEF CommitInv
<1>9. FinalizeInv'
  <2>1. \A c \in Batches : Finalizable(c) => Finalizable(c)'
    BY <1>2, <1>3, RelayerAssumption DEF Finalizable, Batches
  <2>2. finalized' <= committed'
    BY <1>2, <1>3 DEF FinalizeInv
  <2>3. \A c \in finalizeList' : Finalizable(c)'
    BY <1>2, <2>1, Zenon DEF FinalizeInv, TypeInv, loops
  <2>4. \A t \in fSent' : Finalizable(t[1])'
    BY <1>2, <2>1, Zenon DEF FinalizeInv, TypeInv, finalizeSender
  <2> QED BY <2>2, <2>3, <2>4, <1>2, Zenon DEF FinalizeInv, finalizeSender, loops, Sent
<1>10. Grows
  <2>1. committed' >= committed /\ finalized' >= finalized
    BY <1>2, <1>3 DEF TypeInv
  <2>2. UNCHANGED <<cSent, fSent, fSettled, proving>>
    BY <1>1, <1>2 DEF finalizeSender
  <2>3. \A i \in DOMAIN cSettled : i \in DOMAIN cSettled' /\ cSettled'[i] = cSettled[i]
    BY <1>7
  <2> QED BY <2>1, <2>2, <2>3 DEF Grows
<1>11. StatusesAreTrue'
  BY <1>2, <1>6, <1>9, <1>10, StatusStep
<1> QED BY <1>5, <1>6, <1>8, <1>9, <1>11

\* The contract finalizes the batch after the last finalized one, if it is committed.
LEMMA SettleFinalizeStep ==
    ASSUME IInv, NEW b \in Batches, NEW ok \in BOOLEAN, SettleFinalize(b, ok)
    PROVE  IInv'
<1> USE DEF IInv
<1> DEFINE new == [ctx |-> b, ok |-> ok]
           e == [batch |-> b, status |-> Finalized]
<1>1. fSettled' = Append(fSettled, new) /\ UNCHANGED <<fSent, fTold, fInbox>>
      /\ <<b, Len(fSettled)>> \in fSent
  BY DEF SettleFinalize, Finalize!Settle
<1>2. UNCHANGED <<status, proving, commitSender, committed, loops, watcher>>
  BY Zenon DEF SettleFinalize
<1>3. /\ committed \in Nat /\ finalized \in Nat /\ b \in Nat
      /\ finalized' \in Nat /\ finalized' >= finalized /\ finalized' <= committed
      /\ ok => b <= finalized'
  <2>1. /\ ok \in BOOLEAN
        /\ ok => b = finalized + 1 /\ b <= committed
        /\ finalized' = IF ok THEN b ELSE finalized
    BY Zenon DEF SettleFinalize, Verdict
  <2>2. committed \in Nat /\ finalized \in Nat
    BY RelayerAssumption DEF TypeInv, Batches
  <2>3. b \in Nat
    BY RelayerAssumption DEF Batches
  <2>4. finalized <= committed
    BY Zenon DEF FinalizeInv
  <2> QED BY <2>1, <2>2, <2>3, <2>4
<1>4. /\ new \in Report /\ fSettled \in Seq(Report)
      /\ new.ctx = b /\ new.ok = ok
  BY DEF TypeInv, Report
<1>5. EventInv' /\ events' \in Seq(RollupEvent)
  <2>1. e \in RollupEvent
    BY DEF RollupEvent
  <2>2. ok => Holds(e, committed', finalized')
    BY <1>3 DEF Holds, Committed, Finalized
  <2>3. events' = IF ok THEN Append(events, e) ELSE events
    BY DEF SettleFinalize
  <2>4. UNCHANGED events \/ (events' = Append(events, e) /\ Holds(e, committed', finalized'))
    BY <2>2, <2>3
  <2>5. committed' \in Nat /\ committed' >= committed /\ UNCHANGED watched
    BY <1>2, <1>3 DEF watcher
  <2> HIDE DEF e
  <2> QED BY <2>1, <2>4, <2>5, <1>3, EventsGrow
<1>6. Sent(fSent, b)
  BY <1>1, Zenon DEF Sent, TypeInv
<1> HIDE DEF new
<1>7. TypeInv'
  BY <1>1, <1>2, <1>3, <1>4, <1>5, ReportAppended, Zenon DEF TypeInv, commitSender, loops, watcher
<1>8. /\ \A i \in DOMAIN fSettled : i \in DOMAIN fSettled' /\ fSettled'[i] = fSettled[i]
      /\ \A i \in DOMAIN fSettled' : i \notin DOMAIN fSettled => fSettled'[i] = new
  BY <1>1, <1>4, ReportAppended
<1>9. FinalizeInv'
  <2>1. ASSUME NEW i \in DOMAIN fSettled'
        PROVE  /\ Sent(fSent', fSettled'[i].ctx)
               /\ fSettled'[i].ok => fSettled'[i].ctx <= finalized'
    <3>1. CASE i \in DOMAIN fSettled
      <4>1. fSettled[i] \in Report
        BY <3>1, <1>4
      <4>2. fSettled[i].ctx \in Nat
        BY <4>1, RelayerAssumption DEF Report, Batches
      <4>3. Sent(fSent, fSettled[i].ctx) /\ (fSettled[i].ok => fSettled[i].ctx <= finalized)
        BY <3>1 DEF FinalizeInv
      <4>4. fSettled'[i] = fSettled[i] /\ fSent' = fSent
        BY <3>1, <1>1, <1>8
      <4>5. Sent(fSent', fSettled'[i].ctx)
        BY <4>3, <4>4
      <4>6. finalized \in Nat /\ finalized' \in Nat /\ finalized' >= finalized
        BY <1>3
      <4>7. fSettled[i].ok => fSettled[i].ctx <= finalized'
        BY <4>2, <4>3, <4>6
      <4> QED BY <4>4, <4>5, <4>7
    <3>2. CASE i \notin DOMAIN fSettled
      BY <3>2, <1>1, <1>3, <1>4, <1>6, <1>8, Zenon
    <3> QED BY <3>1, <3>2
  <2>2. \A i \in DOMAIN fInbox' : \E j \in DOMAIN fSettled' : fInbox'[i] = fSettled'[j]
    <3> SUFFICES ASSUME NEW i \in DOMAIN fInbox
                 PROVE  \E j \in DOMAIN fSettled' : fInbox[i] = fSettled'[j]
      BY <1>1, Zenon
    <3>1. PICK j \in DOMAIN fSettled : fInbox[i] = fSettled[j]
      BY Zenon DEF FinalizeInv
    <3>2. j \in DOMAIN fSettled' /\ fSettled'[j] = fSettled[j]
      BY <1>8, Zenon
    <3> QED BY <3>1, <3>2, Zenon
  <2>3. /\ \A c \in finalizeList' : Finalizable(c)'
        /\ \A t \in fSent' : Finalizable(t[1])'
    BY <1>1, <1>2, Zenon DEF FinalizeInv, Finalizable, loops
  <2>4. finalized' <= committed' /\ \A c \in writeFinalize' : Sent(fSent', c)
    BY <1>1, <1>2, <1>3, Zenon DEF FinalizeInv, loops
  <2> QED BY <2>1, <2>2, <2>3, <2>4, Zenon DEF FinalizeInv
<1>10. CommitInv'
  BY <1>2, CommitKept DEF loops
<1>11. Grows
  BY <1>1, <1>2, <1>3, <1>8 DEF Grows, commitSender
<1>12. StatusesAreTrue'
  BY <1>2, <1>7, <1>9, <1>11, StatusStep
<1> QED BY <1>5, <1>7, <1>9, <1>10, <1>12

\* The commit sender tells what was settled.
LEMMA TellCommitStep ==
    ASSUME IInv, NEW n \in Nonces, TellCommit(n)
    PROVE  IInv'
<1> USE DEF IInv
<1>1. /\ n \in 0 .. Len(cSettled) - 1 /\ cInbox' = Append(cInbox, cSettled[n + 1])
      /\ UNCHANGED <<cSent, cSettled>>
  BY DEF TellCommit, Commit!Tell
<1>2. UNCHANGED <<status, proving, finalizeSender, contract, loops, watcher>>
  BY DEF TellCommit
<1>3. n + 1 \in DOMAIN cSettled /\ cSettled[n + 1] \in Report /\ cInbox \in Seq(Report)
  BY <1>1 DEF TypeInv
<1>4. TypeInv'
  BY <1>1, <1>2, <1>3 DEF TypeInv, finalizeSender, contract, loops, watcher
<1>5. \A i \in DOMAIN cInbox' : \/ i \in DOMAIN cInbox /\ cInbox'[i] = cInbox[i]
                                \/ cInbox'[i] = cSettled[n + 1]
  BY <1>1, <1>3
<1>6. CommitInv'
  <2>1. \A i \in DOMAIN cInbox' : \/ \E k \in DOMAIN cInbox : cInbox'[i] = cInbox[k]
                                  \/ \E k \in DOMAIN cSettled : cInbox'[i] = cSettled[k]
    BY <1>3, <1>5
  <2>2. UNCHANGED <<cSent, cSettled, writeCommit, committed>>
    BY <1>1, <1>2 DEF contract, loops
  <2> QED BY <2>1, <2>2, InboxStep
<1>7. FinalizeInv' /\ EventInv'
  BY <1>2, FinalizeKept, EventKept DEF contract, loops, watcher
<1>8. Grows
  BY <1>1, <1>2, SameGrows DEF finalizeSender, contract
<1>9. StatusesAreTrue'
  BY <1>2, <1>4, <1>7, <1>8, StatusStep
<1> QED BY <1>4, <1>6, <1>7, <1>9

\* The finalize sender tells what was settled.
LEMMA TellFinalizeStep ==
    ASSUME IInv, NEW n \in Nonces, TellFinalize(n)
    PROVE  IInv'
<1> USE DEF IInv
<1>1. /\ n \in 0 .. Len(fSettled) - 1 /\ fInbox' = Append(fInbox, fSettled[n + 1])
      /\ UNCHANGED <<fSent, fSettled>>
  BY DEF TellFinalize, Finalize!Tell
<1>2. UNCHANGED <<status, proving, commitSender, contract, loops, watcher>>
  BY DEF TellFinalize
<1>3. n + 1 \in DOMAIN fSettled /\ fSettled[n + 1] \in Report /\ fInbox \in Seq(Report)
  BY <1>1 DEF TypeInv
<1>4. TypeInv'
  BY <1>1, <1>2, <1>3 DEF TypeInv, commitSender, contract, loops, watcher
<1>5. \A i \in DOMAIN fInbox' : \/ i \in DOMAIN fInbox /\ fInbox'[i] = fInbox[i]
                                \/ fInbox'[i] = fSettled[n + 1]
  BY <1>1, <1>3
<1>6. FinalizeInv'
  <2>1. ASSUME NEW i \in DOMAIN fInbox' PROVE \E j \in DOMAIN fSettled' : fInbox'[i] = fSettled'[j]
    <3>1. CASE i \in DOMAIN fInbox /\ fInbox'[i] = fInbox[i]
      <4>1. PICK j \in DOMAIN fSettled : fInbox[i] = fSettled[j]
        BY <3>1, Zenon DEF FinalizeInv
      <4> QED BY <1>1, <3>1, <4>1, Zenon
    <3>2. CASE fInbox'[i] = fSettled[n + 1]
      BY <1>1, <1>3, <3>2, Zenon
    <3> QED BY <1>5, <3>1, <3>2, Zenon
  <2>2. /\ \A c \in finalizeList' : Finalizable(c)'
        /\ \A t \in fSent' : Finalizable(t[1])'
    BY <1>1, <1>2, Zenon DEF FinalizeInv, Finalizable, contract, loops
  <2> QED BY <1>1, <1>2, <2>1, <2>2, Zenon DEF FinalizeInv, contract, loops, Sent
<1>7. CommitInv' /\ EventInv'
  BY <1>2, CommitKept, EventKept DEF contract, loops, watcher
<1>8. Grows
  BY <1>1, <1>2, SameGrows DEF commitSender, contract
<1>9. StatusesAreTrue'
  BY <1>2, <1>4, <1>6, <1>8, StatusStep
<1> QED BY <1>4, <1>6, <1>7, <1>9

-----------------------------------------------------------------------------
(* The event watcher *)

\* A step that changes only what the watcher holds keeps the invariant, if that is true.
LEMMA WatchStep ==
    ASSUME IInv, watched' \in Seq(Comparison), seen' \in Nat,
           \A i \in DOMAIN watched' : Holds(watched'[i].event, committed, finalized),
           UNCHANGED <<status, proving, commitSender, finalizeSender, contract, loops>>
    PROVE  IInv'
<1> USE DEF IInv
<1>1. TypeInv'
  BY DEF TypeInv, commitSender, finalizeSender, contract, loops
<1>2. CommitInv' /\ FinalizeInv'
  BY CommitKept, FinalizeKept DEF contract, loops
<1>3. EventInv'
  BY Zenon DEF EventInv, contract
<1>4. Grows
  BY SameGrows DEF commitSender, finalizeSender, contract
<1>5. StatusesAreTrue'
  BY <1>1, <1>2, <1>4, StatusStep, Zenon
<1> QED BY <1>1, <1>2, <1>3, <1>5

\* The watcher takes events that have happened.
LEMMA ReadStep ==
    ASSUME IInv, ReadStatuses
    PROVE  IInv'
<1>1. /\ seen < Len(events) /\ seen' = seen
      /\ watched' = [i \in 1 .. Len(events) - seen |->
                       [event |-> events[seen + i], read |-> status[events[seen + i].batch]]]
  BY DEF ReadStatuses
<1>2. seen \in Nat /\ Len(events) \in Nat /\ Len(events) - seen \in Nat
  BY <1>1 DEF IInv, TypeInv
<1>3. ASSUME NEW i \in 1 .. Len(events) - seen
      PROVE  /\ watched'[i] \in Comparison
             /\ Holds(watched'[i].event, committed, finalized)
  <2>1. seen + i \in DOMAIN events
    BY <1>2 DEF IInv, TypeInv
  <2>2. events[seen + i] \in RollupEvent
    BY <2>1 DEF IInv, TypeInv
  <2>3. status[events[seen + i].batch] \in 0 .. 7
    BY <2>2, Zenon DEF IInv, TypeInv, RollupEvent
  <2>4. Holds(events[seen + i], committed, finalized)
    BY <2>1 DEF IInv, EventInv
  <2>5. watched'[i] = [event |-> events[seen + i], read |-> status[events[seen + i].batch]]
    BY <1>1
  <2> QED BY <2>2, <2>3, <2>4, <2>5 DEF Comparison
<1>4. DOMAIN watched' = 1 .. Len(events) - seen
  BY <1>1
<1>5. watched' \in Seq(Comparison)
  <2> DEFINE n == Len(events) - seen
  <2>1. watched' \in [1 .. n -> Comparison]
    BY <1>1, <1>3
  <2>2. n \in Nat
    BY <1>2
  <2> HIDE DEF n
  <2> QED BY <2>1, <2>2
<1> QED BY <1>1, <1>2, <1>3, <1>4, <1>5, WatchStep, Zenon DEF ReadStatuses

\* Whatever it compares an event with, writing it makes the status true.
LEMMA EventStep ==
    ASSUME IInv, ProcessEvent
    PROVE  IInv'
<1> USE DEF IInv
<1>1. /\ watched # <<>> /\ watched' = Tail(watched) /\ seen' = seen + 1
      /\ UNCHANGED <<proving, commitSender, finalizeSender, contract, loops>>
  BY DEF ProcessEvent, Processed
<1>2. /\ watched' \in Seq(Comparison) /\ seen' \in Nat
      /\ Head(watched) \in Comparison /\ 1 \in DOMAIN watched /\ Head(watched) = watched[1]
      /\ \A i \in DOMAIN watched' : i + 1 \in DOMAIN watched /\ watched'[i] = watched[i + 1]
  BY <1>1 DEF TypeInv
<1>3. Holds(Head(watched).event, committed, finalized)
  BY <1>2 DEF EventInv
<1>4. PICK d \in Batches, s \in {Committed, Finalized} :
          /\ Head(watched).event.batch = d
          /\ Head(watched).event.status = s
  BY <1>2 DEF Comparison, RollupEvent
<1>5. s \in 0 .. 7
  BY DEF Committed, Finalized
<1>6. status' = [status EXCEPT ![d] = s] \/ status' = status
  BY <1>4, Zenon DEF ProcessEvent
<1>7. status' \in [Batches -> 0 .. 7] /\ \A c \in Batches \ {d} : status'[c] = status[c]
  BY <1>5, <1>6, WriteStatus, Zenon DEF TypeInv
<1>8. TypeInv'
  BY <1>1, <1>2, <1>7, Zenon DEF TypeInv, commitSender, finalizeSender, contract, loops
<1>9. CommitInv' /\ FinalizeInv'
  BY <1>1, CommitKept, FinalizeKept, Zenon DEF contract, loops
<1>10. EventInv'
  BY <1>1, <1>2, Zenon DEF EventInv, contract
<1>11. Grows
  BY <1>1, SameGrows DEF commitSender, finalizeSender, contract
<1>12. status'[d] = status[d] \/ Claim(d)'
  <2>1. status'[d] = status[d] \/ status'[d] = s
    BY <1>5, <1>6, WriteStatus
  <2>2. (s = Committed => d <= committed') /\ (s = Finalized => d <= finalized' /\ d <= committed')
    <3>1. (s = Committed => d <= committed) /\ (s = Finalized => d <= finalized)
      BY <1>3, <1>4 DEF Holds
    <3>2. UNCHANGED <<committed, finalized>>
      BY <1>1 DEF contract
    <3>3. d \in Nat /\ committed \in Nat /\ finalized \in Nat /\ finalized <= committed
      BY RelayerAssumption DEF FinalizeInv, TypeInv, Batches
    <3> QED BY <3>1, <3>2, <3>3
  <2>3. CASE status'[d] = s
    BY <2>2, <2>3
       DEF Claim, Committing, Committed, Finalizing, Finalized, FinalizeFailed, CommitFailed
  <2> QED BY <2>1, <2>3
<1>13. StatusesAreTrue'
  <2>1. ASSUME NEW c \in Batches PROVE status'[c] = status[c] \/ Claim(c)'
    BY <1>7, <1>12
  <2> QED BY <2>1, <1>8, <1>9, <1>11, StatusStep
<1> QED BY <1>8, <1>9, <1>10, <1>13

\* The watcher starts again without events.
LEMMA WatcherRestartStep ==
    ASSUME IInv, WatcherRestart
    PROVE  IInv'
<1>1. watched' = <<>> /\ seen' \in Nat
  BY DEF WatcherRestart, IInv, TypeInv
<1> QED BY <1>1, WatchStep DEF WatcherRestart

\* The relayer starts again with empty lists and channels; what it had sent is still sent.
LEMMA RelayerRestartStep ==
    ASSUME IInv, RelayerRestart
    PROVE  IInv'
<1> USE DEF IInv
<1>1. /\ cInbox' = <<>> /\ fInbox' = <<>> /\ UNCHANGED <<cSent, cSettled, fSent, fSettled>>
      /\ writeCommit' = {} /\ finalizeList' = {} /\ writeFinalize' = {}
      /\ UNCHANGED <<status, proving, contract, watcher>>
  BY DEF RelayerRestart, Commit!Forget, Finalize!Forget
<1>2. TypeInv'
  BY <1>1 DEF TypeInv, contract, watcher
<1>3. CommitInv'
  BY <1>1 DEF CommitInv, contract
<1>4. FinalizeInv'
  <2>1. \A t \in fSent' : Finalizable(t[1])'
    BY <1>1, Zenon DEF FinalizeInv, Finalizable, contract
  <2>2. UNCHANGED <<fSent, fSettled, finalized, committed>>
    BY <1>1, Zenon DEF contract
  <2>3. ASSUME NEW i \in DOMAIN fSettled
        PROVE  Sent(fSent, fSettled[i].ctx) /\ (fSettled[i].ok => fSettled[i].ctx <= finalized)
    BY DEF FinalizeInv
  <2>4. finalized <= committed
    BY DEF FinalizeInv
  <2>5. finalizeList' = {} /\ writeFinalize' = {} /\ DOMAIN fInbox' = {}
    BY <1>1
  <2>6. /\ \A b \in finalizeList' : Finalizable(b)'
        /\ \A b \in writeFinalize' : Sent(fSent', b)
        /\ \A i \in DOMAIN fInbox' : \E j \in DOMAIN fSettled' : fInbox'[i] = fSettled'[j]
    BY <2>5
  <2>7. \A i \in DOMAIN fSettled' : /\ Sent(fSent', fSettled'[i].ctx)
                                    /\ fSettled'[i].ok => fSettled'[i].ctx <= finalized'
    BY <2>2, <2>3
  <2> QED BY <2>1, <2>2, <2>4, <2>6, <2>7, Zenon DEF FinalizeInv
<1>5. EventInv'
  BY <1>1, EventKept DEF watcher
<1>6. Grows
  BY <1>1, SameGrows DEF contract
<1>7. StatusesAreTrue'
  BY <1>1, <1>2, <1>4, <1>6, StatusStep
<1> QED BY <1>2, <1>3, <1>4, <1>5, <1>7

-----------------------------------------------------------------------------

\* Every step keeps the invariant.
LEMMA NextStep ==
    ASSUME IInv, [Next]_vars
    PROVE  IInv'
<1>1. ASSUME GetFailedAndPendingBatches \/ CommitNotSent PROVE IInv'
  BY <1>1, CommitListStep DEF GetFailedAndPendingBatches, CommitNotSent
<1>2. CASE CommitLoop
  BY <1>1, <1>2, SendCommitStep, WriteCommittingStep DEF CommitLoop
<1>3. CASE CommitFails
  BY <1>3, CommitListStep DEF CommitFails
<1>4. ASSUME FinalizeNotSent PROVE IInv'
  <2>1. finalizeList' = {}
        /\ UNCHANGED <<status, proving, commitSender, finalizeSender, contract, writeCommit,
                       writeFinalize, watcher>>
    BY <1>4 DEF FinalizeNotSent
  <2> QED BY <2>1, FinalizeListStep
<1>5. CASE FinalizeLoop
  BY <1>5, <1>4, GetCommittedStep, SendFinalizeStep, WriteFinalizingStep DEF FinalizeLoop
<1>6. CASE FinalizeFails
  <2>1. finalizeList' = {} /\ writeFinalize' = {}
        /\ UNCHANGED <<status, proving, commitSender, finalizeSender, contract, writeCommit, watcher>>
    BY <1>6 DEF FinalizeFails
  <2> QED BY <2>1, FinalizeListStep
<1>7. CASE UNCHANGED vars
  BY <1>7, CommitListStep DEF vars, loops
<1>8. CASE \E b \in Batches : InsertBatch(b) \/ \E v \in {"verified", "failed", "lapsed"} : Prove(b, v)
  BY <1>8, InsertStep, ProveStep
<1>9. CASE \E b \in Batches, ok \in BOOLEAN : SettleCommit(b, ok) \/ SettleFinalize(b, ok)
  BY <1>9, SettleCommitStep, SettleFinalizeStep
<1>10. CASE \E n \in Nonces : TellCommit(n) \/ TellFinalize(n)
  BY <1>10, TellCommitStep, TellFinalizeStep
<1>11. CASE ConfirmCommit \/ ConfirmFinalize
  BY <1>11, ConfirmCommitStep, ConfirmFinalizeStep
<1>12. CASE CommitConfirmationLost \/ FinalizeConfirmationLost
  BY <1>12, CommitLostStep, FinalizeLostStep
<1>13. CASE ReadStatuses \/ ProcessEvent \/ WatcherRestart \/ RelayerRestart
  BY <1>13, ReadStep, EventStep, WatcherRestartStep, RelayerRestartStep
<1> QED BY <1>2, <1>3, <1>5, <1>6, <1>7, <1>8, <1>9,
           <1>10, <1>11, <1>12, <1>13 DEF Next

\* The inductive invariant holds in all reachable states.
THEOREM IInvHolds == Spec => []IInv
<1>1. IInv /\ [Next]_vars => IInv'
  BY NextStep
<1> QED BY InitIInv, <1>1, PTL DEF Spec

\* What rollup_status says of a batch is true of the contract, and only proved batches
\* are finalized, whatever the order of confirmations, events, late writes and restarts.
THEOREM RollupStatusesAreTrue == Spec => []StatusesAreTrue
<1>1. IInv => StatusesAreTrue
  BY DEF IInv
<1> QED BY IInvHolds, <1>1, PTL
=============================================================================
