----------------------------- MODULE TraceUnits -----------------------------
(***************************************************************************)
(* How a csv line becomes a request: the byte offset and the byte count of *)
(* the line are turned into a first block and a number of blocks.  The     *)
(* five csv parsers of main.c share this computation.                      *)
(***************************************************************************)
EXTENDS Integers

CONSTANTS BlockSize,   \* BLOCK_SIZE, 2 MiB in the code
          Offsets,     \* the values of bytes
          Lengths      \* the values of num_bytes

ASSUME BlockSizeAssumption == BlockSize \in Nat \ {0}
ASSUME InputAssumption == Offsets \subseteq Nat /\ Lengths \subseteq Nat

VARIABLES bytes, numBytes,   \* the fields of the line
          lba, n             \* the request

unitVars == <<bytes, numBytes, lba, n>>

\* What is left of the block in which the range starts; 0 when it starts on
\* a border, where no block is cut.
Remain(b) == IF b % BlockSize = 0 THEN 0 ELSE BlockSize - (b % BlockSize)

\* The blocks of a range of size left that starts on a border.
FaultyWholeBlocks(left) == left \div BlockSize
WholeBlocks(left) == left \div BlockSize + (IF left % BlockSize = 0 THEN 0 ELSE 1)

BlockCount(b, size) ==
    CASE size = 0 -> 0
      [] size > 0 /\ Remain(b) < size ->
             (IF Remain(b) = 0 THEN 0 ELSE 1) + WholeBlocks(size - Remain(b))
      [] size > 0 /\ Remain(b) >= size -> 1

\* Before the first line there is no request.
UnitInit == bytes = 0 /\ numBytes = 0 /\ lba = 0 /\ n = 0

Convert(b, size) ==
    /\ bytes' = b /\ numBytes' = size
    /\ lba' = b \div BlockSize
    /\ n' = BlockCount(b, size)

-----------------------------------------------------------------------------
\* A block that holds at least one byte of the range.
Touched(k) == /\ k * BlockSize < bytes + numBytes
              /\ bytes < (k + 1) * BlockSize
              /\ numBytes > 0

\* The request covers exactly the blocks that hold a byte of the range,
\* whatever the alignment of its two ends.
ExactCover ==
    \A k \in 0 .. lba + n + 1 : k \in lba .. lba + n - 1 <=> Touched(k)
=============================================================================
