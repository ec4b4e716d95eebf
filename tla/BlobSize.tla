------------------------------ MODULE BlobSize ------------------------------
(***************************************************************************)
(* The two limits on the size of a blob: the one the proposers compare an  *)
(* estimate with, and the one of the encoder in codecv1.  Fields of fixed  *)
(* width count as one, see Codec.                                          *)
(***************************************************************************)
EXTENDS Integers

CONSTANTS
    MaxNumChunks,   \* chunk sizes in the metadata of a blob, 15 in the code
    Usable,         \* bytes used of a field element, 31 in the code
    Elements        \* field elements of a blob, 4096 in the code

ASSUME BlobAssumption ==
    /\ MaxNumChunks \in Nat \ {0}
    /\ Usable \in Nat \ {0}
    /\ Elements \in Nat \ {0}

MetadataLength == 1 + MaxNumChunks

\* makeBlobCanonical: "oversized batch payload"
Oversized(length) == length > Usable * Elements

\* the proposers' maxBlobSize
MaxBlobSize == Elements * (Usable + 1)

\* variant: without the metadata
EstimateWithoutMetadata(size) == ((size + Usable - 1) \div Usable) * (Usable + 1)

\* the size of a blob for some bytes of transactions
EstimateL1CommitBlobSize(size) ==
    ((MetadataLength + size + Usable - 1) \div Usable) * (Usable + 1)

=============================================================================
