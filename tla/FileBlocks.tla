----------------------------- MODULE FileBlocks -----------------------------
(***************************************************************************)
(* How a file is cut into blocks before it is read: the arithmetic of      *)
(* generateFileReadInput in main.cc and of readFile in the two baselines,  *)
(* which are the same lines.  An array is allocated for a number of        *)
(* iovecs computed from the file's size, and filled by a loop that counts  *)
(* the bytes that remain.                                                  *)
(***************************************************************************)
EXTENDS Integers

CONSTANTS
    BlockSize,   \* BLOCK_SZ
    IntMax       \* the largest int

ASSUME WidthAssumption ==
    /\ BlockSize \in Nat \ {0}
    /\ IntMax \in Nat

\* (int) n, which keeps the low bits of an off_t.
ToInt(n) == ((n + IntMax + 1) % (2 * IntMax + 2)) - (IntMax + 1)

\* Division of ints rounds towards zero.
Quotient(n) == IF n >= 0 THEN n \div BlockSize ELSE -((-n) \div BlockSize)

\* Every file has an incomplete last block.
IoVecsRoundedDown(size) == Quotient(ToInt(size))

\* blocks, the number of iovecs that an array is allocated for.
IoVecs(size) ==
    Quotient(ToInt(size)) + (IF size % BlockSize = 0 THEN 0 ELSE 1)

\* bytes_to_read, in a turn of the loop with that many bytes_remaining.
BytesToRead(remaining) == IF remaining > BlockSize THEN BlockSize ELSE remaining
==============================================================================
