-------------------------------- MODULE Fees --------------------------------
(***************************************************************************)
(* The fees of the transactions the rollup services send: what the sender  *)
(* offers first and what it offers when it resubmits a transaction that    *)
(* is not mined.  A legacy transaction has one gas price, kept in cap.     *)
(***************************************************************************)
EXTENDS Integers

CONSTANTS
    EscalateMultipleNum,
    EscalateMultipleDen,
    MaxGasPrice,
    MaxBlobGasPrice

\* NewSender refuses a configuration that does not escalate.
ASSUME FeeAssumption ==
    /\ EscalateMultipleDen \in Nat \ {0}
    /\ EscalateMultipleNum \in Nat
    /\ EscalateMultipleNum > EscalateMultipleDen
    /\ MaxGasPrice \in Nat
    /\ MaxBlobGasPrice \in Nat

\* a blob transaction is a dynamic fee transaction with a sidecar
TxTypes == {"Legacy", "Dynamic", "Blob"}

FeeData == [tip: Nat, cap: Nat, blob: Nat]

GetGasFeeCap(baseFee, tip) == 2 * baseFee + tip
GetBlobGasFeeCap(blobBaseFee) == 2 * blobBaseFee

\* estimateLegacyGas, estimateDynamicGas and estimateBlobGas, for the price
\* or tip the node suggests
Estimate(type, suggested, baseFee, blobBaseFee) ==
    [tip  |-> IF type = "Legacy" THEN 0 ELSE suggested,
     cap  |-> IF type = "Legacy" THEN suggested ELSE GetGasFeeCap(baseFee, suggested),
     blob |-> IF type = "Blob" THEN GetBlobGasFeeCap(blobBaseFee) ELSE 0]

AtMost(x, limit) == IF x > limit THEN limit ELSE x
AtLeast(x, limit) == IF x < limit THEN limit ELSE x
Escalated(x) == (x * EscalateMultipleNum) \div EscalateMultipleDen

\* variant: the corner case of an unchanged price is forgotten
SamePrice(original, x) == x

\* the corner case: a price that did not move is moved by 1 wei
Moved(original, x) == IF x = original THEN x + 1 ELSE x

BumpLegacy(fee) ==
    [fee EXCEPT !.cap = Moved(@, AtMost(Escalated(@), MaxGasPrice))]

\* the fee cap follows a rising base fee but not beyond the limit
AdjustedCap(cap, tip, baseFee) ==
    AtMost(AtLeast(cap, GetGasFeeCap(baseFee, tip)), MaxGasPrice)

BumpDynamic(fee, baseFee) ==
    LET tip == Escalated(fee.tip)
        cap == AdjustedCap(Escalated(fee.cap), tip, baseFee)
    IN  [fee EXCEPT !.tip = Moved(@, AtMost(tip, cap)), !.cap = Moved(@, cap)]

\* the node replaces a blob transaction only at twice its fees
Doubled(x) == 2 * x

BumpBlob(fee, baseFee, blobBaseFee) ==
    LET tip == Doubled(fee.tip)
        cap == AdjustedCap(Doubled(fee.cap), tip, baseFee)
    IN  [tip  |-> AtMost(tip, cap),
         cap  |-> cap,
         blob |-> AtMost(AtLeast(Doubled(fee.blob), GetBlobGasFeeCap(blobBaseFee)),
                         MaxBlobGasPrice)]

\* the FeeData resubmitTransaction computes
Bump(type, fee, baseFee, blobBaseFee) ==
    CASE type = "Legacy"  -> BumpLegacy(fee)
      [] type = "Dynamic" -> BumpDynamic(fee, baseFee)
      [] type = "Blob"    -> BumpBlob(fee, baseFee, blobBaseFee)

=============================================================================
