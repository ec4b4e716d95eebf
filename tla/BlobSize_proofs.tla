--------------------------- MODULE BlobSize_proofs ---------------------------
(* The estimate of the proposers is exact. *)
EXTENDS BlobSize, TLAPS

\* Multiplication by a positive number keeps the order.
LEMMA TimesMonotone ==
    ASSUME NEW a \in Int, NEW b \in Int, NEW c \in Nat \ {0}
    PROVE  a <= b <=> a * c <= b * c
OBVIOUS

\* Rounding up x to elements of u bytes takes at most e elements exactly when x
\* fits into them.
LEMMA RoundUp ==
    ASSUME NEW x \in Nat, NEW u \in Nat \ {0}, NEW e \in Nat
    PROVE  (x + u - 1) \div u <= e <=> x <= u * e
<1> DEFINE y == x + u - 1
           q == y \div u
           r == y % u
<1>1. q \in Int /\ r \in 0 .. u - 1 /\ y = u * q + r
  OBVIOUS
<1> HIDE DEF q, r
<1>2. ASSUME q <= e PROVE x <= u * e
  <2>1. q * u <= e * u
    BY <1>1, <1>2, TimesMonotone
  <2> QED
    BY <1>1, <2>1
<1>3. ASSUME x <= u * e PROVE q <= e
  <2>1. q * u <= e * u + u - 1
    BY <1>1, <1>3
  <2>2. ASSUME q > e PROVE FALSE
    <3>1. (e + 1) * u <= q * u
      BY <1>1, <2>2, TimesMonotone
    <3>2. (e + 1) * u = e * u + u
      OBVIOUS
    <3> QED
      BY <1>1, <2>1, <3>1, <3>2
  <2> QED
    BY <1>1, <2>2
<1> QED
  BY <1>2, <1>3 DEF q

\* A batch passes the limit of the proposers exactly when the encoder accepts
\* its payload, whatever the sizes: NewDABatch never refuses, as too large, what
\* EstimateBatchL1CommitBlobSize let through, and no room of a blob is wasted.
THEOREM EstimateIsExact ==
    ASSUME NEW size \in Nat
    PROVE  EstimateL1CommitBlobSize(size) <= MaxBlobSize <=> ~ Oversized(MetadataLength + size)
<1> DEFINE x == MetadataLength + size
           q == (x + Usable - 1) \div Usable
<1>1. x \in Nat /\ Usable \in Nat \ {0} /\ Elements \in Nat
  BY BlobAssumption DEF MetadataLength
<1>2. q \in Int
  BY <1>1
<1>3. EstimateL1CommitBlobSize(size) = q * (Usable + 1)
  BY DEF EstimateL1CommitBlobSize
<1>4. q <= Elements <=> x <= Usable * Elements
  BY <1>1, RoundUp
<1> HIDE DEF q, x
<1>5. q <= Elements <=> q * (Usable + 1) <= Elements * (Usable + 1)
  BY <1>1, <1>2, TimesMonotone
<1> QED
  BY <1>1, <1>3, <1>4, <1>5 DEF MaxBlobSize, Oversized, x

=============================================================================
