--------------------------- MODULE Sender_proofs ---------------------------
(***************************************************************************)
(* Proofs about the sender, for any number of contexts, nonces, fees,      *)
(* failures, evictions, reorganisations and restarts: what it records is   *)
(* what the chain settled, and it implements TxService.                    *)
(***************************************************************************)
EXTENDS Sender, TLAPS

Block == [tx: Tx, ok: BOOLEAN]

TypeInv ==
    /\ net \subseteq Tx
    /\ mined \in Seq(Block)
    /\ final \in Nat /\ final <= Len(mined)
    /\ confirmed \in Nat /\ confirmed <= final
    /\ row \in [Tx -> Status]
    /\ sending \subseteq Tx

\* nonces are used in order, by transactions that were sent
ChainInv == \A i \in 1 .. Len(mined) : mined[i].tx \in net /\ mined[i].tx.nonce = i - 1

\* what the status of a loaded row may be before the row is looked at: another
\* transaction of its nonce may have been confirmed
Open == {"Pending", "Replaced", "ConfirmedFailed"}

TodoInv ==
    /\ \A r \in todo : r.tx \in Tx /\ row[r.tx] \in Open
    /\ \A r, s \in todo : r.tx = s.tx => r = s

\* transaction tx is settled with verdict ok
SettledAs(tx, ok) == Settled(tx) /\ mined[tx.nonce + 1].ok = ok

\* what checkPendingTransaction knows of the row it looks at
CurInv ==
    /\ pc \in {"status", "resubmit", "record", "confirm", "notify"} =>
         cur.tx \in Tx /\ \A r \in todo : r.tx # cur.tx
    /\ pc \in {"status", "resubmit", "record"} => cur.tx.fee < MaxFee
    /\ pc \in {"status", "confirm"} => row[cur.tx] \in Open
    /\ pc \in {"resubmit", "record"} => row[cur.tx] \in Unresolved
    /\ pc \in {"confirm", "notify"} => SettledAs(cur.tx, cur.ok)
    /\ pc = "notify" => row[cur.tx] = "Confirmed" /\ cur.tx.nonce \notin told

\* a nonce the relayer was told of has a confirmed row
ToldInv == \A n \in told : n \in 0 .. final - 1 /\ row[mined[n + 1].tx] = "Confirmed"

IInv == TypeInv /\ ChainInv /\ TodoInv /\ CurInv /\ ToldInv /\ VerdictsMatchChain

\* The chain moves on; what is final stays.
Grows ==
    /\ net' \subseteq Tx /\ mined' \in Seq(Block)
    /\ final' \in Nat /\ final' <= Len(mined') /\ final' >= final
    /\ \A i \in 1 .. final : mined'[i] = mined[i]
    /\ \A i \in 1 .. Len(mined') : mined'[i].tx \in net' /\ mined'[i].tx.nonce = i - 1

-----------------------------------------------------------------------------

\* Nothing was sent at the start.
LEMMA InitIInv == Init => IInv
<1> SUFFICES ASSUME Init PROVE IInv
  OBVIOUS
<1>1. TypeInv
  BY DEF Init, TypeInv, Status, None
<1>2. ChainInv
  BY DEF Init, ChainInv
<1>3. TodoInv /\ CurInv /\ ToldInv
  BY DEF Init, TodoInv, CurInv, ToldInv
<1>4. VerdictsMatchChain
  BY DEF Init, VerdictsMatchChain, None
<1> QED BY <1>1, <1>2, <1>3, <1>4 DEF IInv

\* A transaction has a nonce.
LEMMA NonceOfTx ==
    ASSUME NEW tx \in Tx
    PROVE  tx.nonce \in Nat /\ tx.nonce \in Nonces
BY SenderAssumption DEF Tx, Nonces

\* What is settled stays settled.
LEMMA SettledStays ==
    ASSUME TypeInv, Grows, NEW tx \in Tx, Settled(tx)
    PROVE  Settled(tx)' /\ mined'[tx.nonce + 1] = mined[tx.nonce + 1]
<1>1. tx.nonce \in Nat /\ tx.nonce < final
  BY NonceOfTx DEF Settled
<1>2. tx.nonce + 1 \in 1 .. final /\ tx.nonce < final' /\ tx.nonce < Len(mined')
  BY <1>1 DEF TypeInv, Grows
<1>3. mined'[tx.nonce + 1] = mined[tx.nonce + 1]
  BY <1>2 DEF Grows
<1> QED BY <1>2, <1>3 DEF Settled, Receipt

\* Two settled transactions of one nonce are the same.
LEMMA SettledOnce ==
    ASSUME NEW t \in Tx, NEW u \in Tx, Settled(t), Settled(u), t.nonce = u.nonce
    PROVE  t = u
BY DEF Settled, Receipt

-----------------------------------------------------------------------------
(* Steps of the chain and of the caller of SendTransaction *)

\* The transaction that is looked at stays settled.
LEMMA CurSettled ==
    ASSUME TypeInv, Grows, cur.tx \in Tx, SettledAs(cur.tx, cur.ok), UNCHANGED cur
    PROVE  SettledAs(cur.tx, cur.ok)'
<1>1. PICK t \in Tx : t = cur.tx
  OBVIOUS
<1>2. Settled(t)' /\ mined'[t.nonce + 1] = mined[t.nonce + 1]
  BY <1>1, SettledStays DEF SettledAs
<1> QED BY <1>1, <1>2 DEF SettledAs, Settled, Receipt

\* Verdicts stay right while rows do not change.
LEMMA VerdictsStay ==
    ASSUME IInv, Grows, NEW tx \in Tx
    PROVE  /\ row[tx] = "Confirmed" => Settled(tx)'
           /\ row[tx] = "ConfirmedFailed" =>
                \E other \in Tx \ {tx} : other.nonce = tx.nonce /\ Settled(other)'
<1>1. ASSUME NEW t \in Tx, Settled(t) PROVE Settled(t)'
  BY <1>1, SettledStays DEF IInv
<1>2. row[tx] = "Confirmed" => Settled(tx)
  BY DEF IInv, VerdictsMatchChain
<1>3. row[tx] = "ConfirmedFailed" => \E other \in Tx \ {tx} : other.nonce = tx.nonce /\ Settled(other)
  BY DEF IInv, VerdictsMatchChain
<1> QED BY <1>1, <1>2, <1>3

\* Told nonces stay told of the same transaction.
LEMMA ToldStays ==
    ASSUME IInv, Grows, NEW n \in told
    PROVE  /\ n \in 0 .. final' - 1
           /\ mined'[n + 1] = mined[n + 1] /\ mined[n + 1].tx \in Tx
           /\ row[mined[n + 1].tx] = "Confirmed"
<1>1. n \in 0 .. final - 1 /\ row[mined[n + 1].tx] = "Confirmed"
  BY DEF IInv, ToldInv
<1>2. n \in 0 .. final' - 1 /\ n + 1 \in 1 .. final /\ n + 1 \in 1 .. Len(mined)
  BY <1>1 DEF IInv, TypeInv, Grows
<1>3. mined[n + 1].tx \in Tx
  BY <1>2 DEF IInv, ChainInv, TypeInv
<1> QED BY <1>1, <1>2, <1>3 DEF Grows

\* A step of the chain keeps the invariant.
LEMMA ChainStep ==
    ASSUME IInv, Grows, sending' \subseteq Tx, UNCHANGED <<row, check, told>>
    PROVE  IInv'
<1> USE DEF check
<1>1. TypeInv'
  BY DEF IInv, TypeInv, Grows
<1>2. ChainInv'
  BY DEF ChainInv, Grows
<1>3. TodoInv'
  BY DEF IInv, TodoInv
<1>4. CurInv'
  <2>1. pc \in {"confirm", "notify"} => SettledAs(cur.tx, cur.ok)'
    BY CurSettled DEF IInv, CurInv
  <2> QED BY <2>1 DEF IInv, CurInv
<1>5. ToldInv'
  BY ToldStays DEF ToldInv
<1>6. VerdictsMatchChain'
  BY VerdictsStay DEF VerdictsMatchChain
<1> QED BY <1>1, <1>2, <1>3, <1>4, <1>5, <1>6 DEF IInv

\* A chain that does not change has grown.
LEMMA SameGrows ==
    ASSUME IInv, UNCHANGED <<net, mined, final>>
    PROVE  Grows
BY DEF IInv, TypeInv, ChainInv, Grows

\* A transaction that the node accepts is one more.
LEMMA BroadcastGrows ==
    ASSUME IInv, NEW tx \in Tx, Broadcast(tx)
    PROVE  Grows
BY DEF IInv, TypeInv, ChainInv, Grows, Broadcast

\* Sending keeps the invariant.
LEMMA SendStep ==
    ASSUME IInv, NEW c \in Contexts, NEW f \in Suggested, SendTransaction(c, f)
    PROVE  IInv'
<1> DEFINE tx == [nonce |-> nonce, ctx |-> c, fee |-> f]
<1>1. nonce \in Nonces
  BY DEF SendTransaction
<1>2. PICK t \in Tx : t = tx
  BY <1>1, SenderAssumption DEF Tx
<1> HIDE DEF tx
<1>3. sending' = {tx} \/ sending' = sending
  BY DEF SendTransaction, tx
<1>4. Broadcast(tx) \/ UNCHANGED <<net, mined, final>>
  BY DEF SendTransaction, chain, tx
<1>5. Grows
  <2>1. CASE Broadcast(tx)
    <3>1. Broadcast(t)
      BY <2>1, <1>2 DEF Broadcast, Accepts, NonceTooLow, Underpriced
    <3> QED BY <3>1, BroadcastGrows
  <2> QED BY <2>1, <1>4, SameGrows
<1>6. sending' \subseteq Tx
  BY <1>2, <1>3 DEF IInv, TypeInv
<1>7. UNCHANGED <<row, check, told>>
  BY DEF SendTransaction
<1> QED BY <1>5, <1>6, <1>7, ChainStep

\* A block is mined with the next nonce.
LEMMA MineStep ==
    ASSUME IInv, NEW tx \in net, NEW ok \in BOOLEAN, Mine(tx, ok)
    PROVE  IInv'
<1> DEFINE b == [tx |-> tx, ok |-> ok]
<1>1. tx \in Tx /\ tx.nonce = Len(mined) /\ mined' = Append(mined, b)
      /\ UNCHANGED <<net, final, row, sending, check, told>>
  BY DEF Mine, IInv, TypeInv
<1>2. b \in Block /\ b.tx = tx
  BY <1>1 DEF Block
<1> HIDE DEF b
<1>3. mined \in Seq(Block) /\ final \in Nat /\ final <= Len(mined)
  BY DEF IInv, TypeInv
<1>4. /\ mined' \in Seq(Block) /\ Len(mined') = Len(mined) + 1
      /\ mined'[Len(mined) + 1] = b
      /\ \A i \in 1 .. Len(mined) : mined'[i] = mined[i]
  BY <1>1, <1>2, <1>3
<1>5. ASSUME NEW i \in 1 .. Len(mined')
      PROVE  mined'[i].tx \in net' /\ mined'[i].tx.nonce = i - 1
  <2>1. CASE i \in 1 .. Len(mined)
    BY <2>1, <1>1, <1>4 DEF IInv, ChainInv
  <2>2. CASE i = Len(mined) + 1
    BY <2>2, <1>1, <1>2, <1>3, <1>4
  <2> QED BY <2>1, <2>2, <1>3, <1>4
<1>6. Grows
  BY <1>1, <1>3, <1>4, <1>5 DEF Grows, IInv, TypeInv
<1> QED BY <1>1, <1>6, ChainStep DEF IInv, TypeInv

\* One more block is confirmed.
LEMMA FinalizeStep ==
    ASSUME IInv, Finalize
    PROVE  IInv'
<1>1. Grows
  BY DEF Finalize, Grows, IInv, TypeInv, ChainInv
<1> QED BY <1>1, ChainStep DEF Finalize, IInv, TypeInv

\* A reorganisation takes blocks away that are not confirmed.
LEMMA ReorgStep ==
    ASSUME IInv, Reorg
    PROVE  IInv'
<1>1. PICK n \in final .. Len(mined) - 1 : mined' = SubSeq(mined, 1, n)
  BY DEF Reorg
<1>2. mined \in Seq(Block) /\ final \in Nat /\ n \in Nat /\ n <= Len(mined) /\ final <= n
  BY <1>1 DEF IInv, TypeInv
<1>3. /\ mined' \in Seq(Block) /\ Len(mined') = n
      /\ \A i \in 1 .. n : mined'[i] = mined[i]
  BY <1>1, <1>2
<1>4. UNCHANGED <<net, final, row, sending, check, told>>
  BY DEF Reorg
<1>5. Grows
  <2>1. ASSUME NEW i \in 1 .. n PROVE mined'[i].tx \in net' /\ mined'[i].tx.nonce = i - 1
    <3>1. i \in 1 .. Len(mined)
      BY <1>2
    <3>2. mined[i].tx \in net /\ mined[i].tx.nonce = i - 1
      BY <3>1 DEF IInv, ChainInv
    <3> QED BY <1>3, <1>4, <3>2
  <2>2. net' \subseteq Tx /\ final' \in Nat /\ final' <= Len(mined') /\ final' >= final
    BY <1>2, <1>3, <1>4 DEF IInv, TypeInv
  <2>3. \A i \in 1 .. final : mined'[i] = mined[i]
    BY <1>2, <1>3
  <2> QED BY <1>3, <2>1, <2>2, <2>3 DEF Grows
<1> QED BY <1>4, <1>5, ChainStep DEF IInv, TypeInv

-----------------------------------------------------------------------------
(* Steps that write rows *)

\* A row is inserted where there was none, so nobody looks at it.
LEMMA InsertStep ==
    ASSUME IInv, InsertPendingTransaction
    PROVE  IInv'
<1>1. PICK tx \in sending :
        /\ sending' = {}
        /\ (row[tx] = None /\ row' = [row EXCEPT ![tx] = "Pending"]) \/ UNCHANGED row
  BY DEF InsertPendingTransaction
<1>2. tx \in Tx /\ UNCHANGED <<net, mined, final, check, told>>
  BY DEF InsertPendingTransaction, IInv, TypeInv, chain
<1>3. Grows
  BY <1>2, SameGrows
<1>4. CASE UNCHANGED row
  BY <1>1, <1>2, <1>3, <1>4, ChainStep
<1>5. CASE row[tx] = None /\ row' = [row EXCEPT ![tx] = "Pending"]
  <2>1. /\ row' \in [Tx -> Status]
        /\ \A t \in Tx : row[t] # None => row'[t] = row[t]
        /\ \A t \in Tx : row'[t] = row[t] \/ row'[t] = "Pending"
    BY <1>2, <1>5 DEF IInv, TypeInv, Status
  <2>2. TypeInv' /\ ChainInv'
    BY <1>1, <1>2, <2>1 DEF IInv, TypeInv, ChainInv, check
  <2>3. TodoInv'
    BY <1>2, <2>1 DEF IInv, TodoInv, Open, None, check
  <2>4. CurInv'
    <3>1. pc \in {"confirm", "notify"} => SettledAs(cur.tx, cur.ok)'
      BY <1>2, <1>3, CurSettled DEF IInv, CurInv, check
    <3>2. cur.tx \in Tx /\ row[cur.tx] # None => row'[cur.tx] = row[cur.tx]
      BY <2>1
    <3> QED BY <1>2, <3>1, <3>2 DEF IInv, CurInv, Open, Unresolved, None, check
  <2>5. ToldInv'
    <3> SUFFICES ASSUME NEW n \in told
                 PROVE  n \in 0 .. final' - 1 /\ row'[mined'[n + 1].tx] = "Confirmed"
      BY <1>2 DEF ToldInv
    <3> QED BY <1>3, <2>1, ToldStays DEF None
  <2>6. VerdictsMatchChain'
    <3> SUFFICES ASSUME NEW t \in Tx
                 PROVE  /\ row'[t] = "Confirmed" => Settled(t)'
                        /\ row'[t] = "ConfirmedFailed" =>
                             \E other \in Tx \ {t} : other.nonce = t.nonce /\ Settled(other)'
      BY DEF VerdictsMatchChain
    <3>1. row'[t] \in {"Confirmed", "ConfirmedFailed"} => row'[t] = row[t]
      BY <2>1
    <3> QED BY <1>3, <3>1, VerdictsStay
  <2> QED BY <2>2, <2>3, <2>4, <2>5, <2>6 DEF IInv
<1> QED BY <1>1, <1>4, <1>5

\* A step of the check that writes nothing: the chain may grow meanwhile.
LEMMA LookStep ==
    ASSUME IInv, Grows, TodoInv', CurInv', confirmed' \in Nat, confirmed' <= final',
           UNCHANGED <<row, sending, told>>
    PROVE  IInv'
<1>1. TypeInv' /\ ChainInv'
  BY DEF IInv, TypeInv, ChainInv, Grows
<1>2. ToldInv'
  BY ToldStays DEF ToldInv
<1>3. VerdictsMatchChain'
  BY VerdictsStay DEF VerdictsMatchChain
<1> QED BY <1>1, <1>2, <1>3 DEF IInv

\* Rows that were loaded and not looked at.
LEMMA TodoShrinks ==
    ASSUME TodoInv, todo' \subseteq todo, UNCHANGED row
    PROVE  TodoInv'
BY DEF TodoInv

\* Nothing is claimed of the current row where there is none.
LEMMA NoCur ==
    ASSUME pc' \in {"idle", "confirmed", "receipt"}
    PROVE  CurInv'
BY DEF CurInv

\* Going on with the next row, or ending the check.
LEMMA ContinueStep ==
    ASSUME IInv, Grows, NEW rest, Continue(rest), todo' \subseteq todo, UNCHANGED <<row, sending, told>>
    PROVE  IInv'
<1>1. pc' \in {"idle", "confirmed", "receipt"}
  BY DEF Continue
<1>2. confirmed' \in Nat /\ confirmed' <= final'
  BY DEF Continue, IInv, TypeInv, Grows
<1>3. TodoInv'
  BY TodoShrinks DEF IInv
<1> QED BY <1>1, <1>2, <1>3, NoCur, LookStep

\* The check ends.
LEMMA ReturnStep ==
    ASSUME IInv, Grows, Return, UNCHANGED <<row, told>>, sending' \subseteq Tx
    PROVE  IInv'
<1>1. pc' = "idle" /\ todo' = {} /\ confirmed' = 0
  BY DEF Return
<1>2. TypeInv' /\ ChainInv'
  BY <1>1 DEF IInv, TypeInv, ChainInv, Grows
<1>3. TodoInv' /\ CurInv'
  BY <1>1, NoCur DEF TodoInv
<1>4. ToldInv'
  BY ToldStays DEF ToldInv
<1>5. VerdictsMatchChain'
  BY VerdictsStay DEF VerdictsMatchChain
<1> QED BY <1>2, <1>3, <1>4, <1>5 DEF IInv

-----------------------------------------------------------------------------
(* checkPendingTransaction *)

\* The rows that are loaded are pending or replaced, one per transaction.
LEMMA LoadStep ==
    ASSUME IInv, Load
    PROVE  IInv'
<1>1. UNCHANGED <<net, mined, final, row, sending, confirmed, told>> /\ pc' = "confirmed"
  BY DEF Load, chain
<1>2. todo' \subseteq PendingOrReplaced(Rows)
  BY DEF Load, Loaded
<1>3. \A r \in todo' : r.tx \in Tx /\ r = [tx |-> r.tx, status |-> row[r.tx]] /\ r.status \in Unresolved
  BY <1>2 DEF PendingOrReplaced, Rows
<1>4. \A r \in todo' : row[r.tx] \in Open
  BY <1>3 DEF Unresolved, Open
<1>5. TodoInv'
  BY <1>1, <1>3, <1>4 DEF TodoInv
<1>6. Grows
  BY <1>1, SameGrows
<1>7. confirmed' \in Nat /\ confirmed' <= final'
  BY <1>1 DEF IInv, TypeInv
<1> QED BY <1>1, <1>5, <1>6, <1>7, NoCur, LookStep

\* The confirmed block is one that is final.
LEMMA ConfirmedStep ==
    ASSUME IInv, GetLatestConfirmedBlockNumber
    PROVE  IInv'
<1>1. UNCHANGED <<net, mined, final, row, sending, told>>
  BY DEF GetLatestConfirmedBlockNumber, chain
<1>2. Grows
  BY <1>1, SameGrows
<1>3. CASE Return
  BY <1>1, <1>2, <1>3, ReturnStep DEF IInv, TypeInv
<1>4. CASE confirmed' = final /\ pc' = "receipt" /\ UNCHANGED <<todo, cur>>
  <2>1. TodoInv' /\ CurInv'
    BY <1>1, <1>4, TodoShrinks, NoCur DEF IInv
  <2>2. confirmed' \in Nat /\ confirmed' <= final'
    BY <1>1, <1>4 DEF IInv, TypeInv
  <2> QED BY <1>1, <1>2, <2>1, <2>2, LookStep
<1> QED BY <1>3, <1>4 DEF GetLatestConfirmedBlockNumber

\* A row is taken from those to look at.
LEMMA Taken ==
    ASSUME IInv, NEW r \in todo, LookAt(r)
    PROVE  /\ Grows /\ todo' = todo \ {r} /\ UNCHANGED <<net, mined, final, row, sending, told>>
           /\ r.tx \in Tx /\ row[r.tx] \in Open
           /\ \A s \in todo' : s.tx # r.tx
<1>1. todo' = todo \ {r} /\ UNCHANGED <<net, mined, final, row, sending, told>>
  BY DEF LookAt, chain
<1>2. Grows
  BY <1>1, SameGrows
<1> QED BY <1>1, <1>2 DEF IInv, TodoInv

\* A row without a receipt, or with one that is not deep, is passed over.
LEMMA PassStep ==
    ASSUME IInv, NEW r \in todo, ReceiptNotDeep(r) \/ Waiting(r)
    PROVE  IInv'
<1>1. LookAt(r) /\ \E rest : Continue(rest)
  BY DEF ReceiptNotDeep, Waiting
<1> QED BY <1>1, Taken, ContinueStep

\* A receipt below the confirmed block is settled.
LEMMA DeepStep ==
    ASSUME IInv, NEW r \in todo, ReceiptConfirmed(r)
    PROVE  IInv'
<1>1. /\ Grows /\ todo' = todo \ {r} /\ UNCHANGED <<net, mined, final, row, sending, told>>
      /\ r.tx \in Tx /\ row[r.tx] \in Open
      /\ \A s \in todo' : s.tx # r.tx
  BY Taken DEF ReceiptConfirmed
<1>2. /\ cur' = [tx |-> r.tx, ok |-> mined[r.tx.nonce + 1].ok] /\ pc' = "confirm"
      /\ UNCHANGED confirmed /\ Receipt(r.tx) /\ r.tx.nonce < confirmed
  BY DEF ReceiptConfirmed, With, Deep
<1>3. cur'.tx = r.tx /\ cur'.ok = mined[r.tx.nonce + 1].ok
  BY <1>2
<1>4. r.tx.nonce < final
  <2>1. r.tx.nonce \in Nat
    BY <1>1, NonceOfTx
  <2> QED BY <2>1, <1>2 DEF IInv, TypeInv
<1>5. SettledAs(cur.tx, cur.ok)'
  BY <1>1, <1>2, <1>3, <1>4 DEF SettledAs, Settled, Receipt
<1>6. CurInv'
  BY <1>1, <1>2, <1>3, <1>5 DEF CurInv
<1>7. TodoInv'
  BY <1>1, TodoShrinks DEF IInv
<1> QED BY <1>1, <1>2, <1>6, <1>7, LookStep DEF IInv, TypeInv

\* A row that is overdue is taken.
LEMMA OverdueStep ==
    ASSUME IInv, NEW r \in todo, Overdue(r)
    PROVE  IInv'
<1>1. /\ Grows /\ todo' = todo \ {r} /\ UNCHANGED <<net, mined, final, row, sending, told>>
      /\ r.tx \in Tx /\ row[r.tx] \in Open
      /\ \A s \in todo' : s.tx # r.tx
  BY Taken DEF Overdue
<1>2. cur' = [tx |-> r.tx, ok |-> FALSE] /\ pc' = "status" /\ UNCHANGED confirmed
      /\ r.tx.fee < MaxFee
  BY DEF Overdue, With
<1>3. cur'.tx = r.tx
  BY <1>2
<1>4. CurInv'
  BY <1>1, <1>2, <1>3 DEF CurInv
<1>5. TodoInv'
  BY <1>1, TodoShrinks DEF IInv
<1> QED BY <1>1, <1>2, <1>4, <1>5, LookStep DEF IInv, TypeInv

\* A row that has failed meanwhile is not replaced.
LEMMA StatusStep ==
    ASSUME IInv, GetTxStatusByTxHash
    PROVE  IInv'
<1>1. UNCHANGED <<net, mined, final, row, sending, told>> /\ pc = "status"
  BY DEF GetTxStatusByTxHash, chain
<1>2. Grows
  BY <1>1, SameGrows
<1>3. CASE Return
  BY <1>1, <1>2, <1>3, ReturnStep DEF IInv, TypeInv
<1>4. CASE Continue(todo) /\ UNCHANGED todo
  BY <1>1, <1>2, <1>4, ContinueStep
<1>5. CASE row[cur.tx] # "ConfirmedFailed" /\ pc' = "resubmit" /\ UNCHANGED <<todo, confirmed, cur>>
  <2>1. row[cur.tx] \in Unresolved
    BY <1>1, <1>5 DEF IInv, CurInv, Open, Unresolved
  <2>2. CurInv'
    BY <1>1, <1>5, <2>1 DEF IInv, CurInv
  <2>3. TodoInv'
    BY <1>1, <1>5, TodoShrinks DEF IInv
  <2> QED BY <1>1, <1>2, <1>5, <2>2, <2>3, LookStep DEF IInv, TypeInv
<1> QED BY <1>3, <1>4, <1>5 DEF GetTxStatusByTxHash

\* The replacement of an overdue transaction is a transaction.
LEMMA ReplacementIsTx ==
    ASSUME NEW tx \in Tx, tx.fee < MaxFee
    PROVE  /\ Replacement(tx) \in Tx /\ Replacement(tx) # tx
           /\ Replacement(tx).nonce = tx.nonce
<1>1. tx.fee \in 1 .. MaxFee /\ tx.fee + 1 \in 1 .. MaxFee /\ tx.fee + 1 # tx.fee
  BY SenderAssumption DEF Tx
<1>2. tx = [nonce |-> tx.nonce, ctx |-> tx.ctx, fee |-> tx.fee]
      /\ Replacement(tx) = [nonce |-> tx.nonce, ctx |-> tx.ctx, fee |-> tx.fee + 1]
  BY DEF Tx, Replacement
<1> QED BY <1>1, <1>2 DEF Tx

\* A replacement is sent, or not, and nothing is written yet.
LEMMA ResubmitStep ==
    ASSUME IInv, ResubmitTransaction
    PROVE  IInv'
<1>1. UNCHANGED <<row, sending, todo, told>> /\ pc = "resubmit"
  BY DEF ResubmitTransaction
<1>2. PICK t \in Tx : t = Replacement(cur.tx)
  BY <1>1, ReplacementIsTx DEF IInv, CurInv
<1>3. Broadcast(t) \/ UNCHANGED <<net, mined, final>>
  BY <1>2 DEF ResubmitTransaction, chain
<1>4. Grows
  BY <1>3, BroadcastGrows, SameGrows
<1>5. Continue(todo) \/ (pc' = "record" /\ UNCHANGED <<confirmed, cur>>)
  BY DEF ResubmitTransaction
<1>6. CASE Continue(todo)
  BY <1>1, <1>4, <1>6, ContinueStep
<1>7. CASE pc' = "record" /\ UNCHANGED <<confirmed, cur>>
  <2>1. CurInv'
    BY <1>1, <1>7 DEF IInv, CurInv
  <2>2. TodoInv'
    BY <1>1, TodoShrinks DEF IInv
  <2>3. confirmed' \in Nat /\ confirmed' <= final'
    BY <1>4, <1>7 DEF IInv, TypeInv, Grows
  <2> QED BY <1>1, <1>4, <2>1, <2>2, <2>3, LookStep
<1> QED BY <1>5, <1>6, <1>7

\* Writing rows: a confirmed row stays, and a new verdict is right.
LEMMA RowStep ==
    ASSUME IInv, UNCHANGED <<net, mined, final, sending, told>>, row' \in [Tx -> Status],
           \A t \in Tx : row[t] = "Confirmed" => row'[t] = "Confirmed",
           \A t \in Tx : row'[t] = "Confirmed" => Settled(t),
           \A t \in Tx : row'[t] = "ConfirmedFailed" =>
                \E other \in Tx \ {t} : other.nonce = t.nonce /\ Settled(other),
           TodoInv', CurInv', confirmed' \in Nat, confirmed' <= final
    PROVE  IInv'
<1>1. TypeInv' /\ ChainInv'
  BY DEF IInv, TypeInv, ChainInv
<1>2. ASSUME NEW t \in Tx PROVE Settled(t)' = Settled(t)
  BY DEF Settled, Receipt
<1>3. VerdictsMatchChain'
  BY <1>2 DEF VerdictsMatchChain
<1>4. ToldInv'
  <2> SUFFICES ASSUME NEW n \in told
               PROVE  n \in 0 .. final - 1 /\ row'[mined[n + 1].tx] = "Confirmed"
    BY DEF ToldInv
  <2>1. n \in 0 .. final - 1 /\ row[mined[n + 1].tx] = "Confirmed" /\ mined[n + 1].tx \in Tx
    BY SameGrows, ToldStays
  <2> QED BY <2>1
<1> QED BY <1>1, <1>3, <1>4 DEF IInv

\* A replacement is recorded, and its original with it.
LEMMA RecordStep ==
    ASSUME IInv, RecordReplacement
    PROVE  IInv'
<1>1. UNCHANGED <<net, mined, final, sending, told>> /\ pc = "record"
  BY DEF RecordReplacement, chain
<1>2. CASE Return /\ UNCHANGED row
  BY <1>1, <1>2, SameGrows, ReturnStep DEF IInv, TypeInv
<1>3. CASE /\ row[Replacement(cur.tx)] = None /\ row' = Recorded(cur.tx)
           /\ Continue(todo) /\ UNCHANGED todo
  <2>1. PICK t \in Tx : t = cur.tx
    BY <1>1 DEF IInv, CurInv
  <2>2. PICK u \in Tx : u = Replacement(t) /\ u # t
    BY <1>1, <2>1, ReplacementIsTx DEF IInv, CurInv
  <2>3. row[u] = None /\ row[t] \in Unresolved /\ row \in [Tx -> Status]
        /\ row' = [row EXCEPT ![t] = "Replaced", ![u] = "Pending"]
    BY <1>1, <1>3, <2>1, <2>2 DEF IInv, CurInv, TypeInv, Recorded
  <2>4. /\ row' \in [Tx -> Status] /\ row'[t] = "Replaced" /\ row'[u] = "Pending"
        /\ \A v \in Tx \ {t, u} : row'[v] = row[v]
    BY <2>2, <2>3 DEF Status
  <2>5. TodoInv'
    <3> SUFFICES ASSUME NEW r \in todo PROVE row'[r.tx] \in Open
      BY <1>3 DEF TodoInv, IInv
    <3>1. r.tx \in Tx /\ row[r.tx] \in Open /\ r.tx # t
      BY <1>1, <2>1 DEF IInv, TodoInv, CurInv
    <3>2. r.tx # u
      BY <2>3, <3>1 DEF Open, None
    <3> QED BY <2>4, <3>1, <3>2
  <2>6. CurInv'
    BY <1>3, NoCur DEF Continue
  <2>7. \A v \in Tx : row[v] = "Confirmed" => row'[v] = "Confirmed"
    BY <2>3, <2>4 DEF Unresolved, None
  <2>8. \A v \in Tx : row'[v] \in {"Confirmed", "ConfirmedFailed"} => row'[v] = row[v]
    BY <2>4
  <2>9. confirmed' \in Nat /\ confirmed' <= final
    BY <1>3 DEF Continue, IInv, TypeInv
  <2>10. \A v \in Tx : row'[v] = "Confirmed" => Settled(v)
    BY <2>8 DEF IInv, VerdictsMatchChain
  <2>11. \A v \in Tx : row'[v] = "ConfirmedFailed" =>
            \E other \in Tx \ {v} : other.nonce = v.nonce /\ Settled(other)
    BY <2>8 DEF IInv, VerdictsMatchChain
  <2> QED BY <1>1, <2>4, <2>5, <2>6, <2>7, <2>9, <2>10, <2>11, RowStep
<1> QED BY <1>2, <1>3 DEF RecordReplacement

\* A confirmed transaction is the only one of its nonce.
LEMMA ConfirmStep ==
    ASSUME IInv, ConfirmTransaction
    PROVE  IInv'
<1>1. UNCHANGED <<net, mined, final, sending, told>> /\ pc = "confirm"
  BY DEF ConfirmTransaction, chain
<1>2. CASE Return /\ UNCHANGED row
  BY <1>1, <1>2, SameGrows, ReturnStep DEF IInv, TypeInv
<1>3. CASE /\ row' = [t \in Tx |-> CASE t = cur.tx -> "Confirmed"
                                    [] t \in FailedWith(cur.tx) -> "ConfirmedFailed"
                                    [] OTHER -> row[t]]
           /\ pc' = "notify"
           /\ UNCHANGED <<todo, confirmed, cur>>
  <2>1. PICK c \in Tx : c = cur.tx
    BY <1>1 DEF IInv, CurInv
  <2>2. row[c] \in Open /\ Settled(c) /\ SettledAs(cur.tx, cur.ok) /\ row \in [Tx -> Status]
    BY <1>1, <2>1 DEF IInv, CurInv, SettledAs, TypeInv
  <2> DEFINE F == FailedWith(c)
  <2>3. \A t \in F : t \in Tx /\ t # c /\ t.nonce = c.nonce
    BY DEF FailedWith
  <2>4. row' = [t \in Tx |-> IF t = c THEN "Confirmed" ELSE IF t \in F THEN "ConfirmedFailed" ELSE row[t]]
    <3>1. ASSUME NEW t \in Tx
          PROVE  (CASE t = c -> "Confirmed" [] t \in F -> "ConfirmedFailed" [] OTHER -> row[t])
                 = IF t = c THEN "Confirmed" ELSE IF t \in F THEN "ConfirmedFailed" ELSE row[t]
      <4> HIDE DEF F
      <4> QED BY <2>3
    <3> QED BY <1>3, <2>1, <3>1
  <2> HIDE DEF F
  <2>5. row' \in [Tx -> Status] /\ row'[c] = "Confirmed"
    BY <2>2, <2>4 DEF Status
  <2>6. \A t \in Tx \ {c} : row'[t] = (IF t \in F THEN "ConfirmedFailed" ELSE row[t])
    BY <2>4
  <2>7. \A t \in Tx : row[t] = "Confirmed" => Settled(t)
    BY DEF IInv, VerdictsMatchChain
  <2>8. \A t \in Tx : row[t] = "Confirmed" => row'[t] = "Confirmed"
    <3> SUFFICES ASSUME NEW t \in Tx, row[t] = "Confirmed", t \in F PROVE FALSE
      BY <2>5, <2>6
    <3> QED BY <2>2, <2>3, <2>7, SettledOnce
  <2>9. \A t \in Tx : row'[t] = "Confirmed" => Settled(t)
    BY <2>2, <2>6, <2>7
  <2>10. \A t \in Tx : row'[t] = "ConfirmedFailed" =>
            \E other \in Tx \ {t} : other.nonce = t.nonce /\ Settled(other)
    <3> SUFFICES ASSUME NEW t \in Tx, row'[t] = "ConfirmedFailed"
                 PROVE  \E other \in Tx \ {t} : other.nonce = t.nonce /\ Settled(other)
      OBVIOUS
    <3>1. CASE t \in F
      BY <2>2, <2>3, <3>1
    <3>2. CASE t \notin F
      BY <2>5, <2>6, <3>2 DEF IInv, VerdictsMatchChain
    <3> QED BY <3>1, <3>2
  <2>11. TodoInv'
    <3> SUFFICES ASSUME NEW r \in todo PROVE row'[r.tx] \in Open
      BY <1>3 DEF TodoInv, IInv
    <3>1. r.tx \in Tx /\ row[r.tx] \in Open /\ r.tx # c
      BY <1>1, <2>1 DEF IInv, TodoInv, CurInv
    <3> QED BY <2>6, <3>1 DEF Open
  <2>12. c.nonce \notin told
    <3> SUFFICES ASSUME c.nonce \in told PROVE FALSE
      OBVIOUS
    <3>1. row[mined[c.nonce + 1].tx] = "Confirmed"
      BY DEF IInv, ToldInv
    <3>2. mined[c.nonce + 1].tx = c
      BY <2>2 DEF Settled, Receipt
    <3> QED BY <2>2, <3>1, <3>2 DEF Open
  <2>13. SettledAs(cur.tx, cur.ok)'
    BY <1>1, <1>3, <2>2 DEF SettledAs, Settled, Receipt
  <2>14. cur'.tx = c /\ \A r \in todo' : r.tx # c
    BY <1>1, <1>3, <2>1 DEF IInv, CurInv
  <2>15. CurInv'
    BY <1>1, <1>3, <2>5, <2>12, <2>13, <2>14 DEF CurInv
  <2>16. confirmed' \in Nat /\ confirmed' <= final
    BY <1>3 DEF IInv, TypeInv
  <2> QED BY <1>1, <2>5, <2>8, <2>9, <2>10, <2>11, <2>15, <2>16, RowStep
<1> QED BY <1>2, <1>3 DEF ConfirmTransaction

\* The relayer is told of a nonce that is settled.
LEMMA NotifyStep ==
    ASSUME IInv, SendConfirmation
    PROVE  IInv'
<1>1. UNCHANGED <<net, mined, final, row, sending, todo>> /\ pc = "notify"
      /\ told' = told \cup {cur.tx.nonce} /\ Continue(todo)
  BY DEF SendConfirmation, chain
<1>2. confirmed' \in Nat /\ confirmed' <= final
  BY <1>1 DEF Continue, IInv, TypeInv
<1>3. TypeInv' /\ ChainInv' /\ TodoInv'
  BY <1>1, <1>2 DEF IInv, TypeInv, ChainInv, TodoInv
<1>4. CurInv'
  BY <1>1, NoCur DEF Continue
<1>5. PICK t \in Tx : t = cur.tx
  BY <1>1 DEF IInv, CurInv
<1>6. Settled(t) /\ row[t] = "Confirmed"
  BY <1>1, <1>5 DEF IInv, CurInv, SettledAs
<1>7. t.nonce \in 0 .. final - 1 /\ mined[t.nonce + 1].tx = t
  BY <1>6, NonceOfTx DEF Settled, Receipt, IInv, TypeInv
<1>8. ToldInv'
  BY <1>1, <1>5, <1>6, <1>7 DEF IInv, ToldInv
<1>9. ASSUME NEW u \in Tx PROVE Settled(u)' = Settled(u)
  BY <1>1 DEF Settled, Receipt
<1>10. VerdictsMatchChain'
  BY <1>1, <1>9 DEF IInv, VerdictsMatchChain
<1> QED BY <1>3, <1>4, <1>8, <1>10 DEF IInv

\* Taking a confirmation and dropping a transaction touch nothing of this.
LEMMA OtherStep ==
    ASSUME IInv, ReceiveConfirmation \/ (\E tx \in pool : Evict(tx)) \/ UNCHANGED vars
    PROVE  IInv'
<1>1. UNCHANGED <<net, mined, final, row, sending, check, told>>
  BY DEF ReceiveConfirmation, Evict, vars, chain
<1>2. sending' \subseteq Tx
  BY <1>1 DEF IInv, TypeInv
<1> QED BY <1>1, <1>2, SameGrows, ChainStep

\* A restart ends the check.
LEMMA RestartStep ==
    ASSUME IInv, Restart
    PROVE  IInv'
<1>1. UNCHANGED <<net, mined, final, row, told>> /\ sending' = {} /\ Return
  BY DEF Restart, chain
<1> QED BY <1>1, SameGrows, ReturnStep

\* Every step keeps the invariant.
LEMMA NextStep == IInv /\ [Next]_vars => IInv'
<1> SUFFICES ASSUME IInv, [Next]_vars PROVE IInv'
  OBVIOUS
<1>1. ASSUME NEW c \in Contexts, NEW f \in Suggested, SendTransaction(c, f) PROVE IInv'
  BY <1>1, SendStep
<1>2. ASSUME NEW tx \in net, NEW ok \in BOOLEAN, Mine(tx, ok) PROVE IInv'
  BY <1>2, MineStep
<1>3. ASSUME Step PROVE IInv'
  <2>1. ASSUME NEW r \in todo,
               ReceiptConfirmed(r) \/ ReceiptNotDeep(r) \/ Waiting(r) \/ Overdue(r)
        PROVE  IInv'
    BY <2>1, DeepStep, PassStep, OverdueStep
  <2> QED BY <1>3, <2>1, LoadStep, ConfirmedStep, StatusStep, ResubmitStep, RecordStep,
             ConfirmStep, NotifyStep DEF Step
<1> QED BY <1>1, <1>2, <1>3, InsertStep, FinalizeStep, ReorgStep, OtherStep, RestartStep DEF Next

\* The inductive invariant of the sender.
THEOREM IInvHolds == Spec => []IInv
BY InitIInv, NextStep, PTL DEF Spec

\* What checkPendingTransaction writes down is what the chain settled, for any
\* number of nonces, fees, failing requests, reorganisations and restarts.
THEOREM VerdictsAreTheChains == Spec => []VerdictsMatchChain
<1>1. IInv => VerdictsMatchChain
  BY DEF IInv
<1> QED BY <1>1, IInvHolds, PTL

-----------------------------------------------------------------------------
(* The sender implements TxService *)

SettledSeq == [i \in 1 .. final |-> [ctx |-> mined[i].tx.ctx, ok |-> mined[i].ok]]

\* A function on 1 .. n is a sequence of length n.
LEMMA FunctionIsSeq ==
    ASSUME NEW S, NEW n \in Nat, NEW f \in [1 .. n -> S]
    PROVE  f \in Seq(S) /\ Len(f) = n
<1>1. f \in Seq(S)
  OBVIOUS
<1>2. DOMAIN f = 1 .. Len(f) /\ Len(f) \in Nat
  BY <1>1
<1> QED BY <1>1, <1>2

\* What the service calls settled is a sequence, as long as the final chain.
LEMMA SettledIsSeq ==
    ASSUME IInv
    PROVE  /\ SettledSeq \in Seq([ctx: Contexts, ok: BOOLEAN])
           /\ Len(SettledSeq) = final
           /\ \A i \in 1 .. final : SettledSeq[i] = [ctx |-> mined[i].tx.ctx, ok |-> mined[i].ok]
<1>1. final \in Nat
  BY DEF IInv, TypeInv
<1>2. ASSUME NEW i \in 1 .. final PROVE [ctx |-> mined[i].tx.ctx, ok |-> mined[i].ok] \in [ctx: Contexts, ok: BOOLEAN]
  <2>1. mined[i] \in Block
    BY <1>1 DEF IInv, TypeInv
  <2>2. mined[i].tx \in Tx /\ mined[i].ok \in BOOLEAN
    BY <2>1 DEF Block
  <2>3. mined[i].tx.ctx \in Contexts
    BY <2>2 DEF Tx
  <2> QED BY <2>2, <2>3
<1>3. SettledSeq \in [1 .. final -> [ctx: Contexts, ok: BOOLEAN]]
  BY <1>2 DEF SettledSeq
<1>4. SettledSeq \in Seq([ctx: Contexts, ok: BOOLEAN]) /\ Len(SettledSeq) = final
  BY <1>1, <1>3, FunctionIsSeq
<1> QED BY <1>4 DEF SettledSeq

\* At the start nothing is sent, settled or told.
LEMMA InitRefines == Init => Service!ServiceInit
<1> SUFFICES ASSUME Init PROVE Service!ServiceInit
  OBVIOUS
<1>1. [i \in 1 .. final |-> [ctx |-> mined[i].tx.ctx, ok |-> mined[i].ok]] = <<>>
  BY DEF Init
<1> QED BY <1>1 DEF Init, Service!ServiceInit

\* Where nothing is sent, settled, told or taken, the service does nothing.
LEMMA StutterRefines ==
    ASSUME IInv, UNCHANGED <<net, final, told, confirmCh>>, \A i \in 1 .. final : mined'[i] = mined[i]
    PROVE  UNCHANGED Service!serviceVars
<1>1. SettledSeq' = SettledSeq
  BY DEF SettledSeq
<1> QED BY <1>1 DEF SettledSeq, Service!serviceVars

\* A transaction the node accepts has a nonce that is not settled.
LEMMA BroadcastRefines ==
    ASSUME IInv, NEW tx \in Tx, Broadcast(tx), UNCHANGED <<told, confirmCh>>
    PROVE  Service!ServiceNext
<1>1. net' = net \cup {tx} /\ UNCHANGED <<mined, final>> /\ ~ (tx.nonce < Len(mined))
  BY DEF Broadcast, Accepts, NonceTooLow
<1>2. tx.nonce \in Nonces /\ tx.nonce \in Nat /\ tx.ctx \in Contexts
  BY NonceOfTx DEF Tx
<1>3. tx.nonce \notin 0 .. Len(SettledSeq) - 1
  BY <1>1, <1>2, SettledIsSeq DEF IInv, TypeInv
<1>4. SettledSeq' = SettledSeq
  BY <1>1 DEF SettledSeq
<1>5. {<<t.ctx, t.nonce>> : t \in net'} = {<<t.ctx, t.nonce>> : t \in net} \cup {<<tx.ctx, tx.nonce>>}
  BY <1>1
<1>6. Service!Submit(tx.ctx, tx.nonce)
  BY <1>3, <1>4, <1>5 DEF SettledSeq, Service!Submit
<1>7. tx.nonce \in Service!Nonces
  BY <1>2 DEF Nonces, Service!Nonces
<1> QED BY <1>2, <1>6, <1>7 DEF Service!ServiceNext

\* A block that becomes final settles the next nonce, for a context that was sent.
LEMMA FinalizeRefines ==
    ASSUME IInv, Finalize
    PROVE  Service!ServiceNext
<1>1. final \in Nat /\ final < Len(mined) /\ final' = final + 1
      /\ UNCHANGED <<net, mined, told, confirmCh>> /\ final + 1 \in 1 .. Len(mined)
  BY DEF Finalize, IInv, TypeInv
<1> DEFINE b == mined[final + 1]
           e == [ctx |-> b.tx.ctx, ok |-> b.ok]
<1>2. b \in Block
  BY <1>1 DEF IInv, TypeInv
<1>3. b.tx \in Tx /\ b.ok \in BOOLEAN /\ b.tx \in net /\ b.tx.nonce = final
  BY <1>1, <1>2 DEF Block, IInv, ChainInv
<1>4. b.tx.ctx \in Contexts
  BY <1>3 DEF Tx
<1>5. <<b.tx.ctx, final>> \in {<<t.ctx, t.nonce>> : t \in net}
  BY <1>3
<1>6. /\ SettledSeq \in Seq([ctx: Contexts, ok: BOOLEAN]) /\ Len(SettledSeq) = final
      /\ \A i \in 1 .. final : SettledSeq[i] = [ctx |-> mined[i].tx.ctx, ok |-> mined[i].ok]
  BY SettledIsSeq
<1>7. SettledSeq' = [i \in 1 .. final + 1 |-> [ctx |-> mined[i].tx.ctx, ok |-> mined[i].ok]]
  BY <1>1 DEF SettledSeq
<1>8. SettledSeq' = Append(SettledSeq, e)
  <2>1. Append(SettledSeq, e) = [i \in 1 .. final + 1 |-> IF i <= final THEN SettledSeq[i] ELSE e]
    BY <1>1, <1>6
  <2>2. ASSUME NEW i \in 1 .. final + 1
        PROVE  [ctx |-> mined[i].tx.ctx, ok |-> mined[i].ok] = IF i <= final THEN SettledSeq[i] ELSE e
    <3>1. CASE i <= final
      BY <1>1, <1>6, <3>1
    <3>2. CASE ~ (i <= final)
      <4>1. i = final + 1
        BY <1>1, <3>2
      <4> QED BY <3>2, <4>1
    <3> QED BY <3>1, <3>2
  <2> QED BY <1>7, <2>1, <2>2
<1>9. PICK c \in Contexts, v \in BOOLEAN : c = b.tx.ctx /\ v = b.ok
  BY <1>3, <1>4
<1>10. Service!Settle(c, v)
  BY <1>1, <1>5, <1>6, <1>8, <1>9 DEF SettledSeq, Service!Settle
<1>11. \E cc \in Contexts, ok \in BOOLEAN : Service!Settle(cc, ok)
  BY <1>10
<1> QED BY <1>11 DEF Service!ServiceNext

\* A confirmation is the first of its nonce, and has the chain's verdict.
LEMMA NotifyRefines ==
    ASSUME IInv, SendConfirmation
    PROVE  Service!ServiceNext
<1>1. UNCHANGED <<net, mined, final>> /\ pc = "notify" /\ told' = told \cup {cur.tx.nonce}
      /\ confirmCh' = Append(confirmCh, [ctx |-> cur.tx.ctx, ok |-> cur.ok])
  BY DEF SendConfirmation, chain, Confirmation
<1>2. PICK n : n = cur.tx.nonce
  OBVIOUS
<1>3. cur.tx \in Tx /\ SettledAs(cur.tx, cur.ok) /\ n \notin told
  BY <1>1, <1>2 DEF IInv, CurInv
<1>4. n \in Nat /\ n \in Nonces /\ n < final /\ mined[n + 1].tx = cur.tx /\ mined[n + 1].ok = cur.ok
  BY <1>2, <1>3, NonceOfTx DEF SettledAs, Settled, Receipt
<1>5. n + 1 \in 1 .. final /\ n \in 0 .. Len(SettledSeq) - 1
  BY <1>4, SettledIsSeq DEF IInv, TypeInv
<1>6. SettledSeq[n + 1] = [ctx |-> cur.tx.ctx, ok |-> cur.ok]
  BY <1>4, <1>5, SettledIsSeq
<1>7. SettledSeq' = SettledSeq
  BY <1>1 DEF SettledSeq
<1>8. Service!Tell(n)
  BY <1>1, <1>2, <1>3, <1>5, <1>6, <1>7 DEF SettledSeq, Service!Tell
<1>9. n \in Service!Nonces
  BY <1>4 DEF Nonces, Service!Nonces
<1> QED BY <1>8, <1>9 DEF Service!ServiceNext

\* The relayer takes a confirmation; a restart forgets those not taken.
LEMMA InboxRefines ==
    ASSUME IInv, ReceiveConfirmation \/ Restart
    PROVE  Service!ServiceNext
<1>1. UNCHANGED <<net, mined, final, told>>
  BY DEF ReceiveConfirmation, Restart, chain
<1>2. SettledSeq' = SettledSeq
  BY <1>1 DEF SettledSeq
<1>3. CASE ReceiveConfirmation
  <2>1. Service!Take
    BY <1>1, <1>2, <1>3 DEF ReceiveConfirmation, SettledSeq, Service!Take
  <2> QED BY <2>1 DEF Service!ServiceNext
<1>4. CASE Restart
  <2>1. Service!Forget
    BY <1>1, <1>2, <1>4 DEF Restart, SettledSeq, Service!Forget
  <2> QED BY <2>1 DEF Service!ServiceNext
<1> QED BY <1>3, <1>4

\* A step of checkPendingTransaction other than the two above.
LEMMA CheckRefines ==
    ASSUME IInv, Step
    PROVE  [Service!ServiceNext]_(Service!serviceVars)
<1>1. CASE SendConfirmation
  BY <1>1, NotifyRefines
<1>2. CASE ResubmitTransaction
  <2>1. UNCHANGED <<told, confirmCh>> /\ pc = "resubmit"
    BY <1>2 DEF ResubmitTransaction
  <2>2. PICK t \in Tx : t = Replacement(cur.tx)
    BY <2>1, ReplacementIsTx DEF IInv, CurInv
  <2>3. CASE Broadcast(t)
    BY <2>1, <2>3, BroadcastRefines
  <2>4. CASE UNCHANGED chain
    BY <2>1, <2>4, StutterRefines DEF chain
  <2> QED BY <1>2, <2>2, <2>3, <2>4 DEF ResubmitTransaction
<1>3. CASE \/ Load \/ GetLatestConfirmedBlockNumber \/ GetTxStatusByTxHash
           \/ RecordReplacement \/ ConfirmTransaction
  <2>1. UNCHANGED <<net, mined, final, told, confirmCh>>
    BY <1>3 DEF Load, GetLatestConfirmedBlockNumber, GetTxStatusByTxHash, RecordReplacement,
                ConfirmTransaction, chain
  <2> QED BY <2>1, StutterRefines
<1>4. ASSUME NEW r \in todo, ReceiptConfirmed(r) \/ ReceiptNotDeep(r) \/ Waiting(r) \/ Overdue(r)
      PROVE  [Service!ServiceNext]_(Service!serviceVars)
  <2>1. UNCHANGED <<net, mined, final, told, confirmCh>>
    BY <1>4 DEF ReceiptConfirmed, ReceiptNotDeep, Waiting, Overdue, LookAt, chain
  <2> QED BY <2>1, StutterRefines
<1> QED BY <1>1, <1>2, <1>3, <1>4 DEF Step

\* Every step of the sender is a step of the service or none.
LEMMA NextRefines == IInv /\ [Next]_vars => [Service!ServiceNext]_(Service!serviceVars)
<1> SUFFICES ASSUME IInv, [Next]_vars PROVE [Service!ServiceNext]_(Service!serviceVars)
  OBVIOUS
<1>1. ASSUME NEW c \in Contexts, NEW f \in Suggested, SendTransaction(c, f)
      PROVE  [Service!ServiceNext]_(Service!serviceVars)
  <2>1. nonce \in Nonces /\ f \in 1 .. MaxFee /\ UNCHANGED <<told, confirmCh>>
    BY <1>1, SenderAssumption DEF SendTransaction
  <2>2. PICK t \in Tx : t = [nonce |-> nonce, ctx |-> c, fee |-> f]
    BY <2>1 DEF Tx
  <2>3. CASE Broadcast(t)
    BY <2>1, <2>3, BroadcastRefines
  <2>4. CASE UNCHANGED chain
    BY <2>1, <2>4, StutterRefines DEF chain
  <2> QED BY <1>1, <2>2, <2>3, <2>4 DEF SendTransaction
<1>2. ASSUME NEW tx \in net, NEW ok \in BOOLEAN, Mine(tx, ok)
      PROVE  [Service!ServiceNext]_(Service!serviceVars)
  <2>1. mined \in Seq(Block) /\ final \in Nat /\ final <= Len(mined)
    BY DEF IInv, TypeInv
  <2>2. mined' = Append(mined, [tx |-> tx, ok |-> ok]) /\ UNCHANGED <<net, final, told, confirmCh>>
    BY <1>2 DEF Mine
  <2>3. \A i \in 1 .. final : mined'[i] = mined[i]
    BY <2>1, <2>2
  <2> QED BY <2>2, <2>3, StutterRefines
<1>3. CASE Reorg
  <2>1. mined \in Seq(Block) /\ final \in Nat /\ final <= Len(mined)
    BY DEF IInv, TypeInv
  <2>2. PICK n \in final .. Len(mined) - 1 : mined' = SubSeq(mined, 1, n)
    BY <1>3 DEF Reorg
  <2>3. \A i \in 1 .. final : mined'[i] = mined[i]
    BY <2>1, <2>2
  <2> QED BY <1>3, <2>3, StutterRefines DEF Reorg
<1>4. CASE InsertPendingTransaction \/ (\E tx \in pool : Evict(tx)) \/ UNCHANGED vars
  <2>1. UNCHANGED <<net, mined, final, told, confirmCh>>
    BY <1>4 DEF InsertPendingTransaction, Evict, vars, chain
  <2> QED BY <2>1, StutterRefines
<1> QED BY <1>1, <1>2, <1>3, <1>4, CheckRefines, FinalizeRefines, InboxRefines DEF Next

\* The sender implements the service its relayers rely on: one confirmation per
\* nonce at most, of a settled transaction, with the chain's context and verdict.
THEOREM SenderImplementsTxService == Spec => ImplementsTxService
<1>1. IInv /\ [Next]_vars => [Service!ServiceNext]_(Service!serviceVars)
  BY NextRefines
<1> QED BY <1>1, InitRefines, IInvHolds, PTL DEF Spec, ImplementsTxService, Service!Spec
=============================================================================
