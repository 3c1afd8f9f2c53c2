-------------------------------- MODULE FEC ---------------------------------
(***************************************************************************)
(* src/dsp/FEC: the LDPC code.  The matrix is a constant, the sets of the  *)
(* columns of each row.  A log-likelihood ratio is an integer, a multiple  *)
(* of 4^LDPC_MAX_ITERATIONS, so that the scaling by 3/4 is exact.          *)
(***************************************************************************)
EXTENDS Integers, SequencesExt, Interleaver

CONSTANTS
  LDPC_BYTES_PER_BLOCK,
  LDPC_MAX_ITERATIONS,
  H_NONZERO     \* a sequence of sets of columns, which are counted from 1

\* v itself, evaluated once and not each time it is used.
The(v) == CHOOSE w \in {v} : w = w

LDPC_M == Len(H_NONZERO)
LDPC_K == LDPC_N - LDPC_M

ASSUME FecAssumption ==
  /\ LDPC_MAX_ITERATIONS \in Nat \ {0}
  /\ LDPC_K = 8 * LDPC_BYTES_PER_BLOCK
  /\ \A i \in 1..LDPC_M : H_NONZERO[i] \subseteq 1..LDPC_N

BITS_PER_SYMBOL == 4
Tones == 0..15
Erased == 16          \* the energy is the same in all tones

\* ^ of C++, of numbers of up to 16 bits.
Xor(a, b) == MapThenSumSet(LAMBDA i : 2^i * ((a \div 2^i + b \div 2^i) % 2), 0..15)

GrayEncode(n) == Xor(n, n \div 2)
GrayDecode == [t \in Tones |-> CHOOSE n \in Tones : GrayEncode(n) = t]

\* The bits of a number of the given width, most significant first.
BitsOf(n, width) == [b \in 1..width |-> (n \div 2^(width - b)) % 2]

UnpackBits(bytes) ==
  [k \in 1..8 * Len(bytes) |->
     BitsOf(bytes[((k - 1) \div 8) + 1], 8)[((k - 1) % 8) + 1]]

PackBits(bits) ==
  [i \in 1..Len(bits) \div 8 |->
     FoldLeft(LAMBDA byte, b : 2 * byte + b, 0, SubSeq(bits, 8 * i - 7, 8 * i))]

-----------------------------------------------------------------------------
(***************************************************************************)
(* buildEncoder(): Gauss-Jordan elimination over GF(2), a row being the    *)
(* set of the columns where it has a one.                                  *)
(***************************************************************************)
Plus(r, s) == (r \ s) \union (s \ r)

Pivot(st, col) ==
  LET row == Len(st.pivots) + 1
      found == {r \in row..LDPC_M : col \in st.rows[r]}
  IN IF found = {} THEN st
     ELSE LET f == Min(found)
              rows == [st.rows EXCEPT ![row] = st.rows[f], ![f] = st.rows[row]]
          IN [rows |-> The([r \in 1..LDPC_M |->
                             IF r # row /\ col \in rows[r] THEN Plus(rows[r], rows[row])
                                                           ELSE rows[r]]),
              pivots |-> Append(st.pivots, col)]

\* The encoder of an FEC object, as its constructor leaves it: encRows are the
\* message bits whose sum is a parity bit.
BuildEncoder ==
  LET columns == [c \in 1..LDPC_N |-> c]
      end == The(FoldLeft(Pivot, [rows |-> H_NONZERO, pivots |-> <<>>], columns))
      freeCols == SelectSeq(columns, LAMBDA c : ~Contains(end.pivots, c))
      colPerm == The(freeCols \o end.pivots)
  IN [colPerm |-> colPerm,
      colPermInv |-> The([c \in 1..LDPC_N |-> CHOOSE i \in 1..LDPC_N : colPerm[i] = c]),
      encRows |-> The([i \in 1..LDPC_M |->
                         {j \in DOMAIN freeCols : freeCols[j] \in end.rows[i]}])]

Ones(S, bits) == Cardinality({j \in S : bits[j] = 1})

EncodeBlock(fec, bytes) ==
  LET message == The(UnpackBits(bytes))
      word == message \o [i \in 1..LDPC_M |-> Ones(fec.encRows[i], message) % 2]
  IN  [c \in 1..LDPC_N |-> word[fec.colPermInv[c]]]

\* encodeMessage(): the last block is filled with zeros.
EncodeMessage(fec, payload) ==
  LET needed == (Len(payload) + LDPC_BYTES_PER_BLOCK - 1) \div LDPC_BYTES_PER_BLOCK
      nBlocks == IF needed = 0 THEN 1 ELSE needed
      Chunk(b) == [i \in 1..LDPC_BYTES_PER_BLOCK |->
                     BitAt(payload, (b - 1) * LDPC_BYTES_PER_BLOCK + i - 1)]
  IN [nBlocks |-> nBlocks,
      bits |-> FlattenSeq([b \in 1..nBlocks |-> EncodeBlock(fec, Chunk(b))])]

-----------------------------------------------------------------------------
(***************************************************************************)
(* decodeBlock(): normalised min-sum.  c2v holds a message for each edge   *)
(* <<check, variable>> of the graph.                                       *)
(***************************************************************************)
Edges == {e \in (1..LDPC_M) \X (1..LDPC_N) : e[2] \in H_NONZERO[e[1]]}
VarToCheck == [j \in 1..LDPC_N |-> {i \in 1..LDPC_M : j \in H_NONZERO[i]}]

Totals(llr, c2v) ==
  [j \in 1..LDPC_N |-> llr[j] + MapThenSumSet(LAMBDA i : c2v[<<i, j>>], VarToCheck[j])]

Round(llr, c2v) ==
  LET total == The(Totals(llr, c2v))
      v2c == The([e \in Edges |-> total[e[2]] - c2v[e]])
      Others(e) == {<<e[1], j>> : j \in H_NONZERO[e[1]] \ {e[2]}}
      Size(v) == IF v < 0 THEN -v ELSE v
      Sign(e) == IF Cardinality({o \in Others(e) : v2c[o] < 0}) % 2 = 1 THEN -1 ELSE 1
  IN [e \in Edges |-> Sign(e) * ((Min({Size(v2c[o]) : o \in Others(e)}) * 3) \div 4)]

Hard(totals) == [j \in 1..LDPC_N |-> IF totals[j] < 0 THEN 1 ELSE 0]

DecodeBlock(fec, llr) ==
  LET Iterate(st, k) ==
        IF st.converged THEN st
        ELSE LET c2v == The(Round(llr, st.c2v))
                 bits == The(Hard(Totals(llr, c2v)))
             IN [c2v |-> c2v, bits |-> bits, iterations |-> k,
                 converged |-> \A i \in 1..LDPC_M : Ones(H_NONZERO[i], bits) % 2 = 0]
      end == FoldLeft(Iterate,
                      [c2v |-> [e \in Edges |-> 0], bits |-> Hard(llr),
                       iterations |-> 0, converged |-> FALSE],
                      [k \in 1..LDPC_MAX_ITERATIONS |-> k])
  IN [bytes |-> PackBits([i \in 1..LDPC_K |-> end.bits[fec.colPerm[i]]]),
      converged |-> end.converged, iterations |-> end.iterations]

\* decodeMessage(): stops where the ratios end.
DecodeMessage(fec, llr, nBlocks) ==
  LET whole == {b \in 1..nBlocks : b * LDPC_N <= Len(llr)}
      blocks == [b \in 1..Cardinality(whole) |->
                   DecodeBlock(fec, SubSeq(llr, (b - 1) * LDPC_N + 1, b * LDPC_N))]
  IN [bytes |-> FlattenSeq([b \in DOMAIN blocks |-> blocks[b].bytes]),
      converged |-> \A b \in DOMAIN blocks : blocks[b].converged]

\* softToLLR(): a tone that stands out says everything about its bits.
Sure == 4^LDPC_MAX_ITERATIONS

SoftToLLR(symbols) ==
  [k \in 1..BITS_PER_SYMBOL * Len(symbols) |->
     LET tone == symbols[((k - 1) \div BITS_PER_SYMBOL) + 1]
     IN  IF tone = Erased THEN 0
         ELSE IF BitsOf(GrayDecode[tone], 4)[((k - 1) % BITS_PER_SYMBOL) + 1] = 0
              THEN Sure ELSE -Sure]
=============================================================================
