----------------------------- MODULE Psk31Modem -----------------------------
(***************************************************************************)
(* src/dsp/psk/Psk31Modem with its modulator and demodulator.  A symbol is *)
(* the phase it is sent at, 1 or -1, and how clearly it is received, the   *)
(* lock quality in per cent.  The demodulator's carrier and timing loops   *)
(* are taken as locked: what is left of them is the reference the next     *)
(* phase is compared with, and that the carrier may be taken upside down.  *)
(***************************************************************************)
EXTENDS Integers, Varicode

CONSTANT PREAMBLE_SYMBOLS   \* psk31PreambleSymbols: 32, 64 or 128

ASSUME PreambleAssumption == PREAMBLE_SYMBOLS \in Nat \ 0..2

\* modulateBits(): a zero turns the phase, which starts at 1.
ModulateBits(bits) ==
  [i \in DOMAIN bits |->
     IF Cardinality({j \in 1..i : bits[j] = 0}) % 2 = 0 THEN 1 ELSE -1]

\* Mutant: audio ends with the last bit of the text.
ModulateTextAlone(text) ==
  ModulateBits([i \in 1..PREAMBLE_SYMBOLS |-> 0] \o VaricodeEncode(text))

ModulateText(text) ==
  ModulateBits([i \in 1..PREAMBLE_SYMBOLS |-> 0] \o VaricodeEncode(text)
                 \o [i \in 1..PREAMBLE_SYMBOLS |-> 1])

(***************************************************************************)
(* prev: m_prevI of the demodulator; accum: of the decoder; quality and    *)
(* bits: m_qualitySum and m_qualityCount.                                  *)
(***************************************************************************)
NewPskRx == [hadSignal |-> FALSE, prev |-> 1, accum |-> <<>>, quality |-> 0, bits |-> 0]

\* One symbol is complete: the receiver after it, and the character shown.
HearSymbol(rx, symbol, squelch) ==
  LET bit == IF symbol.phase = rx.prev THEN 1 ELSE 0
      decoded == DecodeBit(rx.accum, bit)
      quality == rx.quality + symbol.quality
      bits == rx.bits + 1
      next == [rx EXCEPT !.prev = symbol.phase, !.accum = decoded.accum]
  IN  IF decoded.character = NoCharacter
      THEN [rx |-> [next EXCEPT !.quality = quality, !.bits = bits],
            shown |-> NoCharacter]
      ELSE [rx |-> [next EXCEPT !.quality = 0, !.bits = 0],
            shown |-> IF quality < squelch * bits THEN NoCharacter
                      ELSE decoded.character]

\* A chunk below the threshold ends what was being received.
HearNothing(rx) == IF rx.hadSignal THEN NewPskRx ELSE rx

\* A chunk above it.
HearSymbols(rx, symbols, squelch) ==
  LET upTo[n \in 0..Len(symbols)] ==
        IF n = 0 THEN [rx |-> [rx EXCEPT !.hadSignal = TRUE], shown |-> <<>>]
        ELSE LET heard == HearSymbol(upTo[n - 1].rx, symbols[n], squelch)
             IN  [rx |-> heard.rx, shown |-> Append(upTo[n - 1].shown, heard.shown)]
  IN  upTo[Len(symbols)]
=============================================================================
