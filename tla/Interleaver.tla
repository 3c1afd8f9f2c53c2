---------------------------- MODULE Interleaver -----------------------------
(***************************************************************************)
(* src/dsp/Interleaver: the bits of nBlocks code words are written row by  *)
(* row, a code word to a row, and sent column by column.  Positions are    *)
(* counted from 0 as in the code, sequences from 1; a bit that no position *)
(* maps to keeps the value the vector was made with.                       *)
(***************************************************************************)
EXTENDS Naturals, Sequences

CONSTANT LDPC_N  \* bits of a code word, the columns

ASSUME InterleaverAssumption == LDPC_N \in Nat \ {0}

\* The value of the bit read from position at, or the vector's 0.
BitAt(bits, at) == IF at < Len(bits) THEN bits[at + 1] ELSE 0

InterleaveBits(bits, rows) ==
  IF rows <= 1 THEN bits
  ELSE [i \in 1..Len(bits) |->
          LET row == (i - 1) % rows
              col == (i - 1) \div rows
          IN  IF col < LDPC_N THEN BitAt(bits, row * LDPC_N + col) ELSE 0]

DeinterleaveBits(bits, rows) ==
  IF rows <= 1 THEN bits
  ELSE [i \in 1..Len(bits) |->
          LET row == (i - 1) \div LDPC_N
              col == (i - 1) % LDPC_N
          IN  IF row < rows THEN BitAt(bits, col * rows + row) ELSE 0]
=============================================================================
