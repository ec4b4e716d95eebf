------------------------------- MODULE Sender -------------------------------
(***************************************************************************)
(* A sender of the rollup services: the goroutine that calls               *)
(* SendTransaction, the loop that checks the pending transactions, their   *)
(* rows in the database, the channel of confirmations, the node's pool and *)
(* the chain.                                                              *)
(*                                                                         *)
(* Block numbers are abstracted to what they are compared for.  final      *)
(* counts the mined transactions in confirmed blocks; a reorganisation     *)
(* only removes the others.  Whether EscalateBlocks have passed since a    *)
(* row was submitted is a free choice.  A fee is its rank: escalating      *)
(* raises it by one (module Fees shows that it rises).                     *)
(***************************************************************************)
EXTENDS Integers, Sequences, FiniteSets

CONSTANTS
    Contexts,      \* context IDs: batch or block hashes
    MaxNonce,      \* bound on the nonces of a run
    MaxFee,        \* bound on the fees of a run
    Suggested,     \* fees a new transaction may start with
    Limit,         \* rows a check loads
    ChanSize,      \* capacity of confirmCh
    MaxFaults,     \* bound on failing requests to the node and the database
    MaxEvictions,  \* bound on transactions the node drops
    MaxReorgs,
    MaxCrashes,
    MaxTrouble     \* bound on all of these together

ASSUME SenderAssumption ==
    /\ MaxNonce \in Nat \ {0}
    /\ MaxFee \in Nat
    /\ Suggested \subseteq 1 .. MaxFee
    /\ Limit \in Nat \ {0}
    /\ ChanSize \in Nat \ {0}

Nonces == 0 .. MaxNonce - 1

\* a transaction: its hash is determined by these
Tx == [nonce: Nonces, ctx: Contexts, fee: 1 .. MaxFee]

None == "None"
Status == {None, "Pending", "Replaced", "Confirmed", "ConfirmedFailed"}
Unresolved == {"Pending", "Replaced"}
NoRow == [none |-> None]

VARIABLES
    net,        \* transactions some miner may hold
    pool,       \* transactions in the pool of the sender's node
    mined,      \* the chain: nonce n was used by mined[n + 1]
    final,      \* how many of them are in confirmed blocks
    row,        \* status of a transaction in table pending_transaction
    nonce,      \* auth.Nonce
    sending,    \* sent by SendTransaction and not inserted yet: {} or {tx}
    pc,         \* where checkPendingTransaction is
    todo,       \* rows it has loaded and not looked at
    confirmed,  \* confirmed block it has read
    cur,        \* row it looks at, with the receipt's status
    confirmCh,
    told,       \* nonces whose confirmation was put into confirmCh
    faults, evictions, reorgs, crashes

chain == <<net, pool, mined, final>>
check == <<pc, todo, confirmed, cur>>
bounds == <<faults, evictions, reorgs, crashes>>
vars == <<chain, row, nonce, sending, check, confirmCh, told, bounds>>

Receipt(tx) == tx.nonce < Len(mined) /\ mined[tx.nonce + 1].tx = tx

\* PendingNonceAt: the first nonce neither the chain nor the pool has
PendingNonceAt ==
    CHOOSE n \in Len(mined) .. MaxNonce :
        /\ \A m \in Len(mined) .. n - 1 : \E tx \in pool : tx.nonce = m
        /\ ~ \E tx \in pool : tx.nonce = n

NonceTooLow(tx) == tx.nonce < Len(mined)

\* the pool has the transaction, or one of its nonce that pays as much
Underpriced(tx) == \E other \in pool : other.nonce = tx.nonce /\ other.fee >= tx.fee

Accepts(tx) == ~ NonceTooLow(tx) /\ ~ Underpriced(tx)

Broadcast(tx) ==
    /\ Accepts(tx)
    /\ net' = net \cup {tx}
    /\ pool' = {other \in pool : other.nonce # tx.nonce} \cup {tx}
    /\ UNCHANGED <<mined, final>>

Trouble == faults + evictions + reorgs + crashes < MaxTrouble

Fault == Trouble /\ faults < MaxFaults /\ faults' = faults + 1

NoFault == faults' = faults

-----------------------------------------------------------------------------
(* The caller of SendTransaction *)

SendTransaction(c, f) ==
    LET tx == [nonce |-> nonce, ctx |-> c, fee |-> f]
    IN  /\ sending = {}
        /\ nonce \in Nonces
        /\ \/ /\ Broadcast(tx)
              /\ nonce' = nonce + 1
              /\ sending' = {tx}
              /\ NoFault
           \/ /\ Broadcast(tx)            \* the node's answer is lost
              /\ Fault
              /\ UNCHANGED <<nonce, sending>>
           \/ /\ NonceTooLow(tx)          \* resetNonce
              /\ nonce' = PendingNonceAt
              /\ NoFault
              /\ UNCHANGED <<chain, sending>>
        /\ UNCHANGED <<row, check, confirmCh, told, evictions, reorgs, crashes>>

\* the hash is a unique key: inserting it again fails
InsertFails(tx) == IF row[tx] = None THEN Fault ELSE NoFault

InsertPendingTransaction ==
    \E tx \in sending :
        /\ sending' = {}
        /\ \/ row[tx] = None /\ NoFault /\ row' = [row EXCEPT ![tx] = "Pending"]
           \/ InsertFails(tx) /\ UNCHANGED row
        /\ UNCHANGED <<chain, nonce, check, confirmCh, told, evictions, reorgs, crashes>>

-----------------------------------------------------------------------------
(* The loop: checkPendingTransaction *)

Precedes(t, u) == t.nonce < u.nonce \/ (t.nonce = u.nonce /\ t.fee < u.fee)

\* variant: replaced transactions are not looked at
LoadPendingOnly(rows) == {r \in rows : r.status = "Pending"}

PendingOrReplaced(rows) == {r \in rows : r.status \in Unresolved}

Rows == {[tx |-> tx, status |-> row[tx]] : tx \in {t \in Tx : row[t] # None}}

\* the lists of at most Limit rows that ORDER BY nonce, gas_fee_cap may return
Loaded ==
    LET all == PendingOrReplaced(Rows)
    IN  {some \in SUBSET all :
            /\ Cardinality(some) = IF Cardinality(all) < Limit THEN Cardinality(all) ELSE Limit
            /\ \A r \in some, s \in all \ some : ~ Precedes(s.tx, r.tx)}

Load ==
    /\ pc = "idle"
    /\ todo' \in Loaded \ {{}}
    /\ pc' = "confirmed"
    /\ UNCHANGED <<chain, row, nonce, sending, confirmed, cur, confirmCh, told, bounds>>

\* the next iteration, or the end of the loop
Continue(rest) ==
    /\ pc' = IF rest = {} THEN "idle" ELSE "receipt"
    /\ confirmed' = IF rest = {} THEN 0 ELSE confirmed
    /\ cur' = NoRow

Return == pc' = "idle" /\ todo' = {} /\ confirmed' = 0 /\ cur' = NoRow

GetLatestConfirmedBlockNumber ==
    /\ pc = "confirmed"
    /\ \/ confirmed' = final /\ pc' = "receipt" /\ NoFault /\ UNCHANGED <<todo, cur>>
       \/ Fault /\ Return
    /\ UNCHANGED <<chain, row, nonce, sending, confirmCh, told, evictions, reorgs, crashes>>

First(r) == r \in todo /\ \A s \in todo : ~ Precedes(s.tx, r.tx)

LookAt(r) ==
    /\ pc = "receipt"
    /\ First(r)
    /\ todo' = todo \ {r}
    /\ UNCHANGED <<chain, row, nonce, sending, confirmCh, told, evictions, reorgs, crashes>>

\* go on with the row that LookAt has taken
With(r, ok) == cur' = [tx |-> r.tx, ok |-> ok] /\ UNCHANGED confirmed

\* variant: a receipt counts without waiting for confirmations
AnyReceipt(r) == Receipt(r.tx)

Deep(r) == Receipt(r.tx) /\ r.tx.nonce < confirmed

ReceiptConfirmed(r) ==
    /\ Deep(r)
    /\ LookAt(r) /\ With(r, mined[r.tx.nonce + 1].ok)
    /\ pc' = "confirm"
    /\ NoFault

ReceiptNotDeep(r) ==
    /\ Receipt(r.tx) /\ ~ Deep(r)
    /\ LookAt(r)
    /\ Continue(todo')
    /\ NoFault

\* no receipt, or an error that is taken for none
NoReceipt(r) == (~ Receipt(r.tx) /\ NoFault) \/ (Receipt(r.tx) /\ Fault)

Waiting(r) ==
    /\ NoReceipt(r)
    /\ LookAt(r)
    /\ Continue(todo')

\* EscalateBlocks have passed
Overdue(r) ==
    /\ r.status = "Pending"
    /\ r.tx.fee < MaxFee
    /\ NoReceipt(r)
    /\ LookAt(r) /\ With(r, FALSE)
    /\ pc' = "status"

GetTxStatusByTxHash ==
    /\ pc = "status"
    /\ \/ row[cur.tx] = "ConfirmedFailed" /\ Continue(todo) /\ NoFault /\ UNCHANGED todo
       \/ /\ row[cur.tx] # "ConfirmedFailed"
          /\ pc' = "resubmit"
          /\ NoFault
          /\ UNCHANGED <<todo, confirmed, cur>>
       \/ Fault /\ Return
    /\ UNCHANGED <<chain, row, nonce, sending, confirmCh, told, evictions, reorgs, crashes>>

Replacement(tx) == [tx EXCEPT !.fee = @ + 1]

ResubmitTransaction ==
    LET tx == Replacement(cur.tx)
    IN  /\ pc = "resubmit"
        /\ \/ Broadcast(tx) /\ pc' = "record" /\ NoFault /\ UNCHANGED <<confirmed, cur>>
           \/ Broadcast(tx) /\ Continue(todo) /\ Fault    \* the node's answer is lost
           \/ Fault /\ Continue(todo) /\ UNCHANGED chain
           \/ ~ Accepts(tx) /\ Continue(todo) /\ NoFault /\ UNCHANGED chain
        /\ UNCHANGED <<row, nonce, sending, todo, confirmCh, told, evictions, reorgs, crashes>>

\* variant: the original stays pending
KeepOriginal(tx) == [row EXCEPT ![Replacement(tx)] = "Pending"]

Recorded(tx) == [row EXCEPT ![tx] = "Replaced", ![Replacement(tx)] = "Pending"]

RecordReplacement ==
    /\ pc = "record"
    /\ \/ row[Replacement(cur.tx)] = None /\ NoFault /\ row' = Recorded(cur.tx)
          /\ Continue(todo) /\ UNCHANGED todo
       \/ InsertFails(Replacement(cur.tx)) /\ UNCHANGED row /\ Return
    /\ UNCHANGED <<chain, nonce, sending, confirmCh, told, evictions, reorgs, crashes>>

\* UpdateOtherTransactionsAsFailedByNonce
FailedWith(tx) == {t \in Tx : row[t] # None /\ t.nonce = tx.nonce /\ t # tx}

ConfirmTransaction ==
    /\ pc = "confirm"
    /\ \/ /\ row' = [t \in Tx |-> CASE t = cur.tx -> "Confirmed"
                                    [] t \in FailedWith(cur.tx) -> "ConfirmedFailed"
                                    [] OTHER -> row[t]]
          /\ pc' = "notify"
          /\ NoFault
          /\ UNCHANGED <<todo, confirmed, cur>>
       \/ Fault /\ Return /\ UNCHANGED row
    /\ UNCHANGED <<chain, nonce, sending, confirmCh, told, evictions, reorgs, crashes>>

\* variant: inclusion is taken for success
SuccessByInclusion == [ctx |-> cur.tx.ctx, ok |-> TRUE]

Confirmation == [ctx |-> cur.tx.ctx, ok |-> cur.ok]

SendConfirmation ==
    /\ pc = "notify"
    /\ Len(confirmCh) < ChanSize
    /\ confirmCh' = Append(confirmCh, Confirmation)
    /\ told' = told \cup {cur.tx.nonce}
    /\ Continue(todo)
    /\ UNCHANGED <<chain, row, nonce, sending, todo, bounds>>

Step ==
    \/ Load
    \/ GetLatestConfirmedBlockNumber
    \/ \E r \in todo : ReceiptConfirmed(r) \/ ReceiptNotDeep(r) \/ Waiting(r) \/ Overdue(r)
    \/ GetTxStatusByTxHash
    \/ ResubmitTransaction
    \/ RecordReplacement
    \/ ConfirmTransaction
    \/ SendConfirmation

-----------------------------------------------------------------------------
(* The relayer, the node and the chain *)

ReceiveConfirmation ==
    /\ confirmCh # <<>>
    /\ confirmCh' = Tail(confirmCh)
    /\ UNCHANGED <<chain, row, nonce, sending, check, told, bounds>>

\* any transaction of the next nonce that was ever sent may be mined
Mine(tx, ok) ==
    /\ tx.nonce = Len(mined)
    /\ mined' = Append(mined, [tx |-> tx, ok |-> ok])
    /\ UNCHANGED <<net, pool, final, row, nonce, sending, check, confirmCh, told, bounds>>

Finalize ==
    /\ final < Len(mined)
    /\ final' = final + 1
    /\ UNCHANGED <<net, pool, mined, row, nonce, sending, check, confirmCh, told, bounds>>

Reorg ==
    /\ Trouble /\ reorgs < MaxReorgs
    /\ reorgs' = reorgs + 1
    /\ \E n \in final .. Len(mined) - 1 : mined' = SubSeq(mined, 1, n)
    /\ UNCHANGED <<net, pool, final, row, nonce, sending, check, confirmCh, told,
                   faults, evictions, crashes>>

\* the node drops a transaction that pays too little
Evict(tx) ==
    /\ Trouble /\ evictions < MaxEvictions
    /\ evictions' = evictions + 1
    /\ tx.fee < MaxFee
    /\ pool' = pool \ {tx}
    /\ UNCHANGED <<net, mined, final, row, nonce, sending, check, confirmCh, told,
                   faults, reorgs, crashes>>

\* the process stops and NewSender starts again
Restart ==
    /\ Trouble /\ crashes < MaxCrashes
    /\ crashes' = crashes + 1
    /\ nonce' = PendingNonceAt
    /\ sending' = {}
    /\ Return
    /\ confirmCh' = <<>>
    /\ UNCHANGED <<chain, row, told, faults, evictions, reorgs>>

-----------------------------------------------------------------------------

Init ==
    /\ net = {} /\ pool = {} /\ mined = <<>> /\ final = 0
    /\ row = [tx \in Tx |-> None]
    /\ nonce = 0
    /\ sending = {}
    /\ pc = "idle" /\ todo = {} /\ confirmed = 0
    /\ cur = NoRow
    /\ confirmCh = <<>>
    /\ told = {}
    /\ faults = 0 /\ evictions = 0 /\ reorgs = 0 /\ crashes = 0

Next ==
    \/ \E c \in Contexts, f \in Suggested : SendTransaction(c, f)
    \/ InsertPendingTransaction
    \/ Step
    \/ ReceiveConfirmation
    \/ \E tx \in net, ok \in BOOLEAN : Mine(tx, ok)
    \/ Finalize
    \/ Reorg
    \/ \E tx \in pool : Evict(tx)
    \/ Restart

Spec == Init /\ [][Next]_vars

(***************************************************************************)
(* The goroutines run, the relayer takes confirmations, what stays in the  *)
(* node's pool is mined, and blocks become confirmed.  A row that is       *)
(* looked at again and again is overdue at some time.                      *)
(***************************************************************************)
Fairness ==
    /\ WF_vars(InsertPendingTransaction)
    /\ WF_vars(Step)
    /\ WF_vars(ReceiveConfirmation)
    /\ WF_vars(\E tx \in pool, ok \in BOOLEAN : Mine(tx, ok))
    /\ WF_vars(Finalize)
    /\ \A tx \in Tx : SF_vars(\E r \in todo : r.tx = tx /\ Overdue(r))

FairSpec == Spec /\ Fairness

-----------------------------------------------------------------------------

Settled(tx) == tx.nonce < final /\ Receipt(tx)

\* What checkPendingTransaction writes down is what the chain settled, for
\* good: a confirmed row is the transaction that used its nonce in a confirmed
\* block, and a failed row lost its nonce to another transaction, whatever
\* reorganisations, crashes and failing requests come between.
VerdictsMatchChain ==
    \A tx \in Tx :
        /\ row[tx] = "Confirmed" => Settled(tx)
        /\ row[tx] = "ConfirmedFailed" =>
              \E other \in Tx \ {tx} : other.nonce = tx.nonce /\ Settled(other)

\* sender.go:519 resubmits "based on gas price of the last transaction (status
\* pending) with same ContextID": as long as the node's pool does not lose
\* transactions, a nonce has at most one pending row, and it pays the most of
\* the nonce's rows, also across restarts and lost answers of the node.
OnePendingPerNonce ==
    evictions = 0 => \A tx, other \in Tx :
        row[tx] = "Pending" /\ other.nonce = tx.nonce /\ other # tx /\ row[other] # None
        => row[other] = "Replaced" /\ other.fee < tx.fee

Service ==
    INSTANCE TxService WITH
        sent <- {<<tx.ctx, tx.nonce>> : tx \in net},
        settled <- [i \in 1 .. final |-> [ctx |-> mined[i].tx.ctx, ok |-> mined[i].ok]],
        told <- told,
        inbox <- confirmCh

\* The sender implements the service its relayer relies on: at most one
\* confirmation per nonce, of the context and with the verdict the chain
\* settled, with crashes, reorganisations, evictions and failing requests.
ImplementsTxService == Service!Spec

\* Every row ends confirmed or failed, and the relayer hears of every nonce
\* that ends confirmed, when requests do not fail and the process does not
\* crash: also when the node drops transactions, a replaced transaction is
\* mined, or a block is reorganised away.
RowsResolve ==
    /\ \A tx \in Tx : row[tx] \in Unresolved ~> row[tx] \notin Unresolved
    /\ \A tx \in Tx : row[tx] = "Confirmed" ~> tx.nonce \in told

=============================================================================
