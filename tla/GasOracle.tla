----------------------------- MODULE GasOracle -----------------------------
(***************************************************************************)
(* The services of the relayers and the transactions they wait for: the    *)
(* two gas price oracles, which carry the price of one layer to a contract *)
(* on the other, and the start of the rollup relayer, which imports the    *)
(* genesis batch before it commits batches.                                *)
(*                                                                         *)
(* A process runs one of the services.  Its sender has transactions in     *)
(* flight, in the order of nonces, and raises their fees while the base    *)
(* fee of the chain it sends to moves.                                     *)
(***************************************************************************)
EXTENDS Fees, Sequences

CONSTANTS
    Suggested,      \* prices or tips the node may suggest, for each service
    BaseFees,       \* base fees a block of the target may have
    BlobBaseFees,
    Prices,         \* prices the oracle may have to carry
    MinGasPrice,    \* GasOracleConfig
    GasPriceDiff,
    GasPriceDiffPrecision,
    Contexts,       \* hashes of blocks or batches, used in a cycle
    MaxPending,     \* bound on transactions in flight
    MaxMoves,       \* bound on the changes of the price
    MaxFaults,      \* bound on crashes, failing writes and transactions
    None

Oracles == {"L1GasOracle", "L2GasOracle"}
Services == Oracles \cup {"L2RollupRelayer"}
Genesis == 0

ASSUME OracleAssumption ==
    /\ Suggested \in [Services -> SUBSET Nat]
    /\ BaseFees \in [Services -> SUBSET Nat]
    /\ BlobBaseFees \in [Services -> SUBSET Nat]
    /\ Prices \subseteq Nat \ {0}
    /\ {MinGasPrice, GasPriceDiff} \subseteq Nat
    /\ GasPriceDiffPrecision \in Nat \ {0}
    /\ GasPriceDiff <= GasPriceDiffPrecision
    /\ Contexts \in Nat \ {0}
    /\ {MaxPending, MaxMoves, MaxFaults} \subseteq Nat

VARIABLES
    service,       \* ServiceType
    market,        \* the price to carry: base fee of layer 1, gas price of layer 2
    row,           \* latest row of l1_block or batch, None before there is one
    lastGasPrice,  \* the relayer's memory, 0 when it starts
    job,           \* the row it has sent a transaction for, and the price sent
    pc,            \* the rollup relayer: "start", "wait" for genesis, "run"
    genesis,       \* rollup_status of the genesis batch, None before its row
    imported,      \* the contract ScrollChain has the genesis batch
    pending,       \* transactions in flight, in the order of their nonces
    contract,      \* the price the oracle's contract shows
    inbox,         \* confirmations of the sender
    baseFee, blobBaseFee,   \* of the target's last block
    astray,        \* the relayer's memory is not the price it sent last
    moves, faults

oracle == <<row, lastGasPrice, job>>
start == <<pc, genesis>>
target == <<imported, contract, baseFee, blobBaseFee>>
vars == <<service, market, oracle, start, pending, target, inbox, astray, moves, faults>>

Init ==
    /\ service \in Services
    /\ market \in Prices
    /\ row = None /\ lastGasPrice = 0 /\ job = None
    /\ pc = IF service \in Oracles THEN "run" ELSE "start"
    /\ genesis = None /\ imported = FALSE
    /\ pending = <<>> /\ contract = 0 /\ inbox = <<>>
    /\ baseFee \in BaseFees[service] /\ blobBaseFee \in BlobBaseFees[service]
    /\ astray = FALSE
    /\ moves = 0 /\ faults = 0

Fault == faults < MaxFaults /\ faults' = faults + 1

-----------------------------------------------------------------------------
(* The sender *)

\* the oracle of layer 1 has a legacy sender; a commit carries a blob
TypeOf(context) ==
    CASE service = "L1GasOracle" -> "Legacy"
      [] service = "L2GasOracle" \/ context = Genesis -> "Dynamic"
      [] OTHER -> "Blob"

\* SendTransaction; a transaction whose row is not stored has no context
SendTransaction(context, price, stored) ==
    /\ Len(pending) < MaxPending
    /\ \E suggested \in Suggested[service] :
          pending' = Append(pending,
              [context |-> IF stored THEN context ELSE None,
               type    |-> TypeOf(context),
               price   |-> price,
               fee     |-> Estimate(TypeOf(context), suggested, baseFee, blobBaseFee)])

\* the rollup relayer's only transaction without a blob
ImportsGenesis(tx) == service = "L2RollupRelayer" /\ tx.type = "Dynamic"

\* The node refuses a tip above the fee cap.
Accepts(f) == f.tip <= f.cap

\* resubmitTransaction: the new fees count when the node accepts them
Resubmit(i) ==
    /\ pending[i].context # None
    /\ LET fee == Bump(pending[i].type, pending[i].fee, baseFee, blobBaseFee)
       IN  /\ Accepts(fee)
           /\ pending' = [pending EXCEPT ![i].fee = fee]
    /\ UNCHANGED <<service, market, oracle, start, target, inbox, astray, moves, faults>>

\* a transaction is included when its fees pay for the block
Pays(tx) == tx.fee.cap >= baseFee /\ (tx.type = "Blob" => tx.fee.blob >= blobBaseFee)

\* the contract imports one genesis batch; others succeed but for a fault
Succeeds(tx) == ~(ImportsGenesis(tx) /\ imported)
Outcomes(tx) == {Succeeds(tx)} \cup (IF tx.type # "Blob" /\ faults < MaxFaults THEN {FALSE} ELSE {})

\* the first transaction in flight is mined, and the sender reports it; the
\* batches the rollup relayer commits are not followed here
Mine(ok) ==
    /\ pending # <<>> /\ Pays(Head(pending)) /\ ok \in Outcomes(Head(pending))
    /\ LET tx   == Head(pending)
           last == ~ok /\ Len(pending) = 1
       IN  /\ imported' = (imported \/ (ok /\ ImportsGenesis(tx)))
           /\ contract' = IF ok /\ service \in Oracles THEN tx.price ELSE contract
           /\ faults' = IF ok = Succeeds(tx) THEN faults ELSE faults + 1
           /\ astray' = (astray \/ (last /\ job = None))
           /\ job' = IF last /\ job # None THEN [job EXCEPT !.failed = TRUE] ELSE job
           /\ inbox' = IF tx.context = None \/ tx.type = "Blob" THEN inbox
                       ELSE Append(inbox, [context |-> tx.context, isSuccessful |-> ok])
    /\ pending' = Tail(pending)
    /\ UNCHANGED <<service, market, row, lastGasPrice, start, baseFee, blobBaseFee, moves>>

BaseFeeMoves ==
    /\ pending # <<>>
    /\ baseFee' \in BaseFees[service] /\ blobBaseFee' \in BlobBaseFees[service]
    /\ UNCHANGED <<service, market, oracle, start, pending, imported, contract, inbox,
                   astray, moves, faults>>

-----------------------------------------------------------------------------
(* The price and the rows the oracles read *)

MarketMoves ==
    /\ service \in Oracles
    /\ moves < MaxMoves
    /\ moves' = moves + 1
    /\ market' \in Prices \ {market}
    /\ UNCHANGED <<service, oracle, start, pending, target, inbox, astray, faults>>

InUse == {pending[i].context : i \in DOMAIN pending} \cup {inbox[i].context : i \in DOMAIN inbox}
         \cup (IF row = None THEN {} ELSE {row.context})
         \cup (IF job = None THEN {} ELSE {job.context})

Fresh == {c \in 1 .. Contexts : c \notin InUse /\ \A d \in 1 .. c - 1 : d \in InUse}

\* the rows from the block on are replaced, the row of the same block too
InsertL1Blocks(block) == row' = block

\* the latest block but one, a new one or again the one of the last time; its
\* row is pending in either case
FetchBlockHeader ==
    /\ service = "L1GasOracle"
    /\ \E c \in Fresh \cup (IF row # None /\ row.price = market THEN {row.context} ELSE {}) :
          InsertL1Blocks([context |-> c, price |-> market, status |-> "Pending"])
    /\ UNCHANGED <<service, market, lastGasPrice, job, start, pending, target, inbox, astray,
                   moves, faults>>

\* a batch is proposed, by another process
InsertBatch ==
    /\ service = "L2GasOracle"
    /\ \E c \in Fresh : row' = [context |-> c, price |-> 0, status |-> "Pending"]
    /\ UNCHANGED <<service, market, lastGasPrice, job, start, pending, target, inbox, astray,
                   moves, faults>>

-----------------------------------------------------------------------------
(* ProcessGasPriceOracle *)

ExpectedDelta(last) ==
    LET delta == (last * GasPriceDiff) \div GasPriceDiffPrecision
    IN  IF last > 0 /\ delta = 0 THEN 1 ELSE delta

\* variant: a price at the edge is not carried
ExceedsStrictly(last, price) ==
    \/ last = 0
    \/ /\ price >= MinGasPrice
       /\ price > last + ExpectedDelta(last) \/ price < last - ExpectedDelta(last)

Exceeds(last, price) ==
    \/ last = 0
    \/ /\ price >= MinGasPrice
       /\ price >= last + ExpectedDelta(last) \/ price <= last - ExpectedDelta(last)

\* a transaction is sent for the latest row; when the sender cannot store
\* the transaction it says that it could not send it
Carry(price) ==
    /\ job = None
    /\ row # None /\ row.status = "Pending"
    /\ Exceeds(lastGasPrice, price)
    /\ \/ /\ SendTransaction(row.context, price, TRUE)
          /\ job' = [context |-> row.context, price |-> price, failed |-> FALSE]
          /\ UNCHANGED <<astray, faults>>
       \/ /\ SendTransaction(row.context, price, FALSE)
          /\ astray' = TRUE
          /\ Fault
          /\ UNCHANGED job
    /\ UNCHANGED <<service, market, row, lastGasPrice, start, target, inbox, moves>>

L1ProcessGasPriceOracle == service = "L1GasOracle" /\ row # None /\ Carry(row.price)
L2ProcessGasPriceOracle == service = "L2GasOracle" /\ Carry(market)

\* UPDATE ... WHERE hash = context
SetStatus(context, status) ==
    row' = IF row # None /\ row.context = context THEN [row EXCEPT !.status = status] ELSE row

\* variant: the price is read again for the memory
UpdateAndReadAgain ==
    /\ job # None
    /\ \/ /\ SetStatus(job.context, "Importing")
          /\ lastGasPrice' = market
          /\ astray' = job.failed
          /\ UNCHANGED faults
       \/ /\ Fault
          /\ astray' = TRUE
          /\ UNCHANGED <<row, lastGasPrice>>
    /\ job' = None
    /\ UNCHANGED <<service, market, start, pending, target, inbox, moves>>

UpdateGasOracleStatus ==
    /\ job # None
    /\ \/ /\ SetStatus(job.context, "Importing")
          /\ lastGasPrice' = job.price
          /\ astray' = job.failed
          /\ UNCHANGED faults
       \/ /\ Fault
          /\ astray' = TRUE
          /\ UNCHANGED <<row, lastGasPrice>>
    /\ job' = None
    /\ UNCHANGED <<service, market, start, pending, target, inbox, moves>>

-----------------------------------------------------------------------------
(* The start of the rollup relayer: initializeGenesis, commitGenesisBatch *)

(* With a row in the table there is nothing to import.  Otherwise the rows *)
(* are written in a database transaction that stays open while the sender  *)
(* imports the batch; the import is not sent when it would revert.         *)
InitializeGenesis ==
    /\ pc = "start"
    /\ \/ genesis # None /\ pc' = "run" /\ UNCHANGED <<pending, faults>>
       \/ /\ genesis = None /\ ~imported
          /\ SendTransaction(Genesis, 0, TRUE)
          /\ pc' = "wait"
          /\ UNCHANGED faults
       \/ /\ genesis = None /\ ~imported
          /\ SendTransaction(Genesis, 0, FALSE)
          /\ Fault
          /\ UNCHANGED pc
    /\ UNCHANGED <<service, market, oracle, genesis, target, inbox, astray, moves>>

\* variant: any confirmation will do
CommitGenesisUnchecked ==
    /\ pc = "wait" /\ inbox # <<>>
    /\ pc' = "run" /\ genesis' = "Finalized"
    /\ inbox' = Tail(inbox)
    /\ UNCHANGED <<service, market, oracle, pending, target, astray, moves, faults>>

(* The wait for a confirmation.  Each tick of the progress ticker starts   *)
(* the timer of five minutes again, so it does not fire.  On an error the  *)
(* rows are rolled back, the process ends and is started again.            *)
CommitGenesisBatch ==
    /\ pc = "wait" /\ inbox # <<>>
    /\ \/ Head(inbox).isSuccessful /\ pc' = "run" /\ genesis' = "Finalized"
       \/ ~Head(inbox).isSuccessful /\ pc' = "start" /\ UNCHANGED genesis
    /\ inbox' = IF pc' = "start" THEN <<>> ELSE Tail(inbox)
    /\ UNCHANGED <<service, market, oracle, pending, target, astray, moves, faults>>

\* ProcessPendingBatches sends a blob, but never past a failed genesis batch
ProcessPendingBatches ==
    /\ service = "L2RollupRelayer" /\ pc = "run"
    /\ genesis # "CommitFailed"
    /\ SendTransaction(1, 0, TRUE)
    /\ UNCHANGED <<service, market, oracle, start, target, inbox, astray, moves, faults>>

-----------------------------------------------------------------------------
(* Confirmations, crashes *)

Verdict(cfm) == IF cfm.isSuccessful THEN "Imported" ELSE "ImportedFailed"

TakeConfirmation ==
    /\ pc = "run" /\ inbox # <<>>
    /\ inbox' = Tail(inbox)
    /\ UNCHANGED <<service, market, lastGasPrice, job, pc, pending, target, astray, moves, faults>>

L1HandleConfirmation ==
    /\ service = "L1GasOracle"
    /\ TakeConfirmation
    /\ SetStatus(Head(inbox).context, Verdict(Head(inbox)))
    /\ UNCHANGED genesis

\* for the rollup relayer it is a confirmation of a commit, although only
\* the genesis batch's are followed here
L2HandleConfirmation ==
    /\ service # "L1GasOracle"
    /\ TakeConfirmation
    /\ \/ /\ service = "L2GasOracle"
          /\ SetStatus(Head(inbox).context, Verdict(Head(inbox)))
          /\ UNCHANGED genesis
       \/ /\ service = "L2RollupRelayer"
          /\ genesis' = IF Head(inbox).isSuccessful THEN "Committed" ELSE "CommitFailed"
          /\ UNCHANGED row

\* the process is killed and started again; the transactions are on their way
Crash ==
    /\ Fault
    /\ lastGasPrice' = 0 /\ job' = None
    /\ pc' = IF service \in Oracles THEN "run" ELSE "start"
    /\ inbox' = <<>>
    /\ astray' = FALSE
    /\ UNCHANGED <<service, market, row, genesis, pending, target, moves>>

Next ==
    \/ \E i \in DOMAIN pending : Resubmit(i)
    \/ \E ok \in BOOLEAN : Mine(ok)
    \/ BaseFeeMoves \/ MarketMoves
    \/ FetchBlockHeader \/ InsertBatch
    \/ L1ProcessGasPriceOracle \/ L2ProcessGasPriceOracle \/ UpdateGasOracleStatus
    \/ InitializeGenesis \/ CommitGenesisBatch \/ ProcessPendingBatches
    \/ L1HandleConfirmation \/ L2HandleConfirmation \/ Crash

(* The loops run, blocks and batches keep coming, the sender resubmits     *)
(* every transaction that waits, and one that pays is mined.               *)
Fairness ==
    /\ WF_vars(FetchBlockHeader) /\ WF_vars(InsertBatch)
    /\ WF_vars(L1ProcessGasPriceOracle) /\ WF_vars(L2ProcessGasPriceOracle)
    /\ WF_vars(UpdateGasOracleStatus)
    /\ WF_vars(L1HandleConfirmation) /\ WF_vars(L2HandleConfirmation)
    /\ WF_vars(\E ok \in BOOLEAN : Mine(ok))
    /\ \A i \in 1 .. MaxPending : WF_vars(i \in DOMAIN pending /\ Resubmit(i))

Spec == Init /\ [][Next]_vars /\ Fairness

-----------------------------------------------------------------------------

LastSent == IF pending = <<>> THEN contract ELSE pending[Len(pending)].price

\* What the relayer remembers is the price of its last transaction, in flight
\* or in the contract, whatever was sent, mined or confirmed in between and
\* however often the process was killed.  It does not hold once a write after
\* the sending failed or the last transaction did, until the next price.
MemoryInStep ==
    service \in Oracles /\ lastGasPrice # 0 /\ job = None /\ ~astray => LastSent = lastGasPrice

\* the contract's price is the market's, but for less than the difference
Within(shown, price) ==
    /\ shown # 0
    /\ price # shown /\ price >= MinGasPrice =>
          (IF price > shown THEN price - shown ELSE shown - price) * GasPriceDiffPrecision
              < shown * GasPriceDiff

Unstored == \E i \in DOMAIN pending : pending[i].context = None

\* Once the price stays, the contract comes to show a price within the
\* configured difference of it (or the price is below the minimum): no update
\* is skipped for good, however small its fee was when it was sent.  Excepted
\* is what the code does not recover from: a relayer that remembers another
\* price than the one it sent last, because a write after the sending or the
\* last transaction itself failed (astray), and a transaction that is in flight
\* without a row, which the sender does not resubmit (Unstored).
OracleFollows ==
    <>[](service \in Oracles =>
            Within(contract, market) \/ astray \/ Unstored)

\* The genesis batch is in the database, and batches are committed, only when
\* the contract has it, also after a crash while its import was in flight.
GenesisImported ==
    service = "L2RollupRelayer" /\ (genesis # None \/ pc = "run") => imported

\* Whatever the base fee of the next block: below the limit a resubmission
\* offers strictly more than the transaction it replaces, stays within the
\* limit and keeps the tip within the fee cap, also where the escalation
\* rounds down to the old price.  sender.go:401 "bumping at least 100%": what
\* keeps a blob transaction from doubling is one of the limits only.
BumpRaises ==
    \A i \in DOMAIN pending, base \in BaseFees[service], blob \in BlobBaseFees[service] :
        LET old == pending[i].fee
            new == Bump(pending[i].type, old, base, blob)
        IN  /\ old.cap < MaxGasPrice =>
                 /\ old.cap < new.cap /\ new.cap <= MaxGasPrice
                 /\ pending[i].type # "Legacy" => old.tip < new.tip
                 /\ new.tip <= new.cap
            /\ pending[i].type = "Blob" =>
                 /\ new.cap >= AtMost(2 * old.cap, MaxGasPrice) /\ new.cap <= MaxGasPrice
                 /\ new.blob >= AtMost(2 * old.blob, MaxBlobGasPrice)
                 /\ new.blob <= MaxBlobGasPrice
                 /\ new.tip <= new.cap

=============================================================================
