----------------------------- MODULE RowAddress -----------------------------
(***************************************************************************)
(* Where DiskEngramTable._gather reads a row (lines 162-164 and 217-231 of *)
(* src/dsv41/patch/engram_disk.py): the byte arithmetic that ReadPool      *)
(* abstracts to "row k of the gather".                                     *)
(***************************************************************************)
EXTENDS Integers

CONSTANTS
    stride,     \* bytes of a row
    align,      \* the device's logical block size, 1 for a buffered file
    rowStart,   \* the rank's first row
    rowCount    \* the rank's rows

AddressAssumption ==
    /\ stride \in Nat \ {0} /\ align \in Nat \ {0}
    /\ rowStart \in Nat /\ rowCount \in Nat

\* Blocks of a row rounded up, and one more: the bytes of every aligned read.
span == (((stride + align - 1) \div align) + 1) * align

Owned(i) == 0 =< i - rowStart /\ i - rowStart < rowCount

Off(i) == (i - rowStart) * stride

\* off & (align - 1): align is SECTOR or PAGE, a power of two.
LoOf(i) == Off(i) % align

\* What `starts` holds: -1 for a row of another rank.
Start(i) == IF Owned(i) THEN Off(i) - LoOf(i) ELSE -1
=============================================================================
