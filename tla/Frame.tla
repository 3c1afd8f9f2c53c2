------------------------------- MODULE Frame --------------------------------
(***************************************************************************)
(* src/dsp/Frame: the symbols of a transmission after its preamble, and    *)
(* what is read from them.  A text is a sequence of bytes, a symbol the    *)
(* tone that stands out, or Erased.                                        *)
(***************************************************************************)
EXTENDS FEC

CONSTANTS
  MAX_NBLOCKS,     \* 125
  NBLOCKS_RANGE    \* 2^8, what the block count of the header is taken modulo

ASSUME FrameAssumption ==
  MAX_NBLOCKS \in Nat /\ MAX_NBLOCKS < NBLOCKS_RANGE /\ NBLOCKS_RANGE \in 1..256

PROTOCOL_VERSION == 2
FLAG_FEC_ENABLED == 1
HEADER_SYMS == 4
CRC_SYMS == 4
HEADER_TOTAL_SYMS == 3 * HEADER_SYMS
PAYLOAD_START == HEADER_TOTAL_SYMS + CRC_SYMS
Space == 32
Nul == 0

CRC16_POLY == 4129    \* 0x1021
CRC16_INIT == 65535

Crc16(bytes) ==
  LET Shift(crc, b) == IF crc >= 32768 THEN Xor((crc * 2) % 65536, CRC16_POLY)
                                       ELSE crc * 2
      EightShifts == [crc \in 0..65535 |-> FoldLeft(Shift, crc, <<1, 2, 3, 4, 5, 6, 7, 8>>)]
      Byte(crc, byte) == EightShifts[Xor(crc, byte * 256)]
  IN  FoldLeft(Byte, CRC16_INIT, bytes)

\* buildHeader(): its argument is one byte.
BuildHeader(nBlocks) == <<PROTOCOL_VERSION * 16 + FLAG_FEC_ENABLED, nBlocks % NBLOCKS_RANGE>>

\* Mutant: the first copy is believed, as before ADR-102.
FirstHeader(copies) == copies[1]

MajorityVoteHeader(copies) ==
  LET Vote(byte, b) ==
        IF 2 * Cardinality({c \in DOMAIN copies : BitsOf(copies[c][byte], 8)[b] = 1})
             >= Len(copies) THEN 1 ELSE 0
  IN [byte \in 1..2 |-> PackBits([b \in 1..8 |-> Vote(byte, b)])[1]]

\* argmax of equal energies is the first tone.
Argmax(symbol) == IF symbol = Erased THEN 0 ELSE symbol

HardDecodeSymbols(symbols, offset, count) ==
  LET Nibble(i) == GrayDecode[Argmax(symbols[offset + i])]
  IN  [k \in 1..count \div 2 |-> 16 * Nibble(2 * k - 1) + Nibble(2 * k)]

\* Modulator::bytesToSymbols().
BytesToSymbols(bytes) ==
  [i \in 1..2 * Len(bytes) |->
     LET byte == bytes[(i + 1) \div 2]
     IN  GrayEncode(IF i % 2 = 1 THEN byte \div 16 ELSE byte % 16)]

\* Trailing NULs, then exactly one trailing space.
StripPadding(text) ==
  LET kept == {i \in DOMAIN text : text[i] # Nul}
      end == IF kept = {} THEN 0 ELSE Max(kept)
  IN  SubSeq(text, 1, IF end > 0 /\ text[end] = Space THEN end - 1 ELSE end)

\* bpskToBytes() undoes the sign that a bit has in the code: packing is left.
Assemble(fec, text) ==
  LET payload == Append(text, Space)
      enc == EncodeMessage(fec, payload)
      header == BuildHeader(enc.nBlocks)
      crc == Crc16(header \o payload)
  IN  BytesToSymbols(header \o header \o header \o <<crc \div 256, crc % 256>>
                       \o PackBits(InterleaveBits(enc.bits, enc.nBlocks)))

-----------------------------------------------------------------------------
Failed(error) == [error |-> error, text |-> <<>>, crcOk |-> FALSE, converged |-> FALSE]

Copies(symbols) ==
  [c \in 1..3 |-> HardDecodeSymbols(symbols, (c - 1) * HEADER_SYMS, HEADER_SYMS)]

\* The payload: its text, and whether every block converged.
DecodeFec(fec, symbols, nBlocks) ==
  LET soft == SubSeq(symbols, PAYLOAD_START + 1,
                     PAYLOAD_START + nBlocks * (LDPC_N \div BITS_PER_SYMBOL))
      decoded == DecodeMessage(fec, The(DeinterleaveBits(The(SoftToLLR(soft)), nBlocks)), nBlocks)
  IN  [text |-> StripPadding(decoded.bytes), converged |-> decoded.converged]

DecodeHard(symbols) ==
  [text |-> StripPadding(HardDecodeSymbols(symbols, PAYLOAD_START,
                                           Len(symbols) - PAYLOAD_START)),
   converged |-> TRUE]

\* Mutant: a message that converged needs no checksum.
ChecksConverged(header, symbols, payload) == payload.converged

Checks(header, symbols, payload) ==
  LET crc == HardDecodeSymbols(symbols, HEADER_TOTAL_SYMS, CRC_SYMS)
  IN  Crc16(header \o Append(payload.text, Space)) = 256 * crc[1] + crc[2]

Parse(fec, symbols) ==
  IF Len(symbols) < PAYLOAD_START THEN Failed("Frame too short")
  ELSE
  LET header == The(MajorityVoteHeader(Copies(symbols)))
      nBlocks == header[2]
      useFec == header[1] % 2 = FLAG_FEC_ENABLED /\ nBlocks > 0
      payload == IF useFec THEN DecodeFec(fec, symbols, nBlocks) ELSE DecodeHard(symbols)
  IN
  CASE header[1] \div 16 # PROTOCOL_VERSION -> Failed("Unknown protocol version")
    [] nBlocks > MAX_NBLOCKS -> Failed("nBlocks out of range")
    [] useFec /\ Len(symbols) < PAYLOAD_START + nBlocks * (LDPC_N \div BITS_PER_SYMBOL)
         -> Failed("Payload truncated")
    [] OTHER -> [error |-> "", text |-> payload.text, converged |-> payload.converged,
                 crcOk |-> Checks(header, symbols, payload)]
=============================================================================
