------------------------------ MODULE Loopback ------------------------------
(***************************************************************************)
(* A text from the modem of one station to the modem of another, over a    *)
(* channel that spoils at most one run of symbols of a transmission.       *)
(*                                                                         *)
(* With the MFSK modem the symbols of a fade are Erased, no tone standing  *)
(* out, or heard one tone beside their own.  With the PSK31 modem a fade   *)
(* is a run of chunks below the threshold; noise may be heard as symbols   *)
(* before a transmission, and silence may come after it or not.            *)
(***************************************************************************)
EXTENDS Frame, Psk31Modem, Selection

CONSTANTS
  MfskTexts,          \* sequences of bytes
  PskTexts,           \* sequences of characters
  Noises,             \* what is heard before a PSK31 transmission
  FadeLengths,        \* bound: the lengths of a fade, MFSK
  MaxSpoilt,          \* bound: the longest frame that is spoilt
  ErasuresCorrected,  \* consecutive erasures that the code corrects, a block
  EDGE,               \* symbols at either end of a PSK31 transmission
  Squelches,          \* settings of the squelch, per cent
  MaxTransmissions    \* bound

\* A symbol of PSK31, and where in the transmission it is: noise before it.
Symbol == [phase : {1, -1}, quality : 0..100, at : Int]

ASSUME LoopbackAssumption ==
  /\ FadeLengths \subseteq Nat \ {0}
  /\ ErasuresCorrected \in Nat /\ MaxSpoilt \in Nat /\ EDGE \in 0..PREAMBLE_SYMBOLS
  /\ Noises \subseteq Seq(Symbol) /\ Squelches \subseteq 0..100
  /\ PskTexts \subseteq Seq(Characters)

\* The quality that a character is judged by is the average since the last one
\* that was decoded: a preamble makes up for so much noise, and for no more.
ASSUME NoiseAssumption ==
  \A noise \in Noises, s \in Squelches : s * Len(noise) <= (100 - s) * PREAMBLE_SYMBOLS

VARIABLES
  modem,    \* the mode of createModem
  fec,      \* m_fec of the MFSK modem
  sent,     \* the text of the last transmission
  count,    \* history: transmissions so far
  air,      \* the symbols of it that have not been received
  fade,     \* history: what the channel did to it
  heard,    \* the events it gave rise to
  rx,       \* the PSK31 receiver
  squelch   \* m_squelchThreshold

vars == <<modem, fec, sent, count, air, fade, heard, rx, squelch>>

NoFade == [kind |-> "none", first |-> 0, length |-> 0]
Covers(f, i) == i >= f.first /\ i < f.first + f.length

\* createModem().  The FEC of an MFSK modem builds its encoder once.
Init ==
  /\ modem \in {"Mfsk16", "Psk31"}
  /\ fec = IF modem = "Mfsk16" THEN BuildEncoder ELSE <<>>
  /\ squelch \in IF modem = "Psk31" THEN Squelches ELSE {0}
  /\ sent = <<>> /\ count = 0 /\ air = <<>> /\ fade = NoFade /\ heard = <<>>
  /\ rx = NewPskRx

(* ---------------------------------- MFSK ------------------------------- *)

\* A frame leaves nothing behind in either modem, so one is enough.
SendFrame ==
  /\ modem = "Mfsk16" /\ count = 0
  /\ \E text \in MfskTexts :
       /\ sent' = text
       /\ air' = Assemble(fec, text)
  /\ count' = count + 1 /\ fade' = NoFade /\ heard' = <<>>
  /\ UNCHANGED <<modem, fec, rx, squelch>>

Spoilt(symbol, kind) ==
  CASE kind = "erased" -> Erased
    [] kind = "slipped" -> IF symbol = Max(Tones) THEN symbol - 1 ELSE symbol + 1

Fade ==
  /\ modem = "Mfsk16" /\ air # <<>> /\ fade = NoFade /\ Len(air) <= MaxSpoilt
  /\ \E kind \in {"erased", "slipped"}, length \in FadeLengths :
     \E first \in 1..(Len(air) - length + 1) :
       fade' = [kind |-> kind, first |-> first, length |-> length]
  /\ air' = [i \in DOMAIN air |-> IF Covers(fade', i) THEN Spoilt(air[i], fade'.kind)
                                                      ELSE air[i]]
  /\ UNCHANGED <<modem, fec, sent, count, heard, rx, squelch>>

\* tryCompleteFrame() reads the header first: it waits for as many symbols as
\* the header calls for, and discards a frame that it does not accept.
ReceiveFrame ==
  /\ modem = "Mfsk16" /\ air # <<>>
  /\ LET header == MajorityVoteHeader(Copies(air))
         needed == PAYLOAD_START + header[2] * (LDPC_N \div BITS_PER_SYMBOL)
         accepted == /\ header[1] = PROTOCOL_VERSION * 16 + FLAG_FEC_ENABLED
                     /\ header[2] \in 1..MAX_NBLOCKS
                     /\ needed <= Len(air)
     IN  heard' = IF accepted THEN <<Parse(fec, SubSeq(air, 1, needed))>> ELSE <<>>
  /\ air' = <<>>
  /\ UNCHANGED <<modem, fec, sent, count, fade, rx, squelch>>

(* --------------------------------- PSK31 ------------------------------- *)

\* The phase of the receiver's carrier is not that of the sender's.
SendText ==
  /\ modem = "Psk31" /\ air = <<>> /\ count < MaxTransmissions
  /\ \E text \in PskTexts, noise \in Noises, carrier \in {1, -1} :
       LET phases == ModulateText(text)
       IN  /\ sent' = text
           /\ air' = [i \in 1..Len(noise) |-> [noise[i] EXCEPT !.at = i - Len(noise)]]
                     \o [i \in DOMAIN phases |->
                           [phase |-> carrier * phases[i], quality |-> 100, at |-> i]]
  /\ count' = count + 1 /\ fade' = NoFade /\ heard' = <<>>
  /\ UNCHANGED <<modem, fec, rx, squelch>>

\* The events of a chunk: the symbols that completed a character.
Events(chunk, shown) ==
  LET all == [i \in DOMAIN shown |-> [character |-> shown[i], at |-> chunk[i].at]]
  IN  Kept(all, {e \in ToSet(all) : e.character # NoCharacter})

\* A chunk of audio completes a symbol or two.
ReceiveChunk ==
  /\ modem = "Psk31"
  /\ \E n \in 1..2 :
       /\ n <= Len(air)
       /\ LET chunk == SubSeq(air, 1, n)
              done == HearSymbols(rx, chunk, squelch)
          IN  /\ rx' = done.rx
              /\ heard' = heard \o Events(chunk, done.shown)
       /\ air' = SubSeq(air, n + 1, Len(air))
  /\ UNCHANGED <<modem, fec, sent, count, fade, squelch>>

\* The symbols of a chunk below the threshold are not demodulated.
ReceiveWeakChunk ==
  /\ modem = "Psk31"
  /\ \E n \in 1..2 :
       /\ n <= Len(air) /\ air[1].at > 0
       /\ \/ fade = NoFade
          \/ air[1].at = fade.first + fade.length
       /\ fade' = [kind |-> "weak", length |-> fade.length + n,
                   first |-> IF fade = NoFade THEN air[1].at ELSE fade.first]
       /\ air' = SubSeq(air, n + 1, Len(air))
  /\ rx' = HearNothing(rx)
  /\ UNCHANGED <<modem, fec, sent, count, heard, squelch>>

Silence ==
  /\ modem = "Psk31" /\ air = <<>> /\ rx.hadSignal
  /\ rx' = HearNothing(rx)
  /\ UNCHANGED <<modem, fec, sent, count, air, fade, heard, squelch>>

Next ==
  \/ SendFrame \/ Fade \/ ReceiveFrame
  \/ SendText \/ ReceiveChunk \/ ReceiveWeakChunk \/ Silence

Spec == Init /\ [][Next]_vars

-----------------------------------------------------------------------------
Done == count > 0 /\ air = <<>>

\* The blocks of the text with its trailing space.
Blocks == (Len(sent) + LDPC_BYTES_PER_BLOCK) \div LDPC_BYTES_PER_BLOCK

\* Fades that the frame is made to survive: of one header copy at most, be it
\* across two; of the payload, as many symbols as leave each block with
\* erasures it corrects, or one symbol that is read as its neighbour.
Harmless(f) ==
  \/ f = NoFade
  \/ f.length <= HEADER_SYMS /\ f.first + f.length - 1 <= HEADER_TOTAL_SYMS
  \/ /\ f.first > PAYLOAD_START
     /\ \/ f.kind = "slipped" /\ f.length = 1
        \/ /\ f.kind = "erased"
           /\ BITS_PER_SYMBOL * f.length <= ErasuresCorrected * Blocks

\* Frame.cpp and Interleaver.h: a fade of up to a whole copy of the header, or
\* of a run of payload symbols that the interleaver spreads over the blocks,
\* leaves the message as it was sent, and known to be right.
FramesSurviveFades ==
  modem = "Mfsk16" /\ Done /\ Harmless(fade) /\ Blocks <= MAX_NBLOCKS
    => heard = <<[error |-> "", text |-> sent, converged |-> TRUE, crcOk |-> TRUE]>>

\* Frame.cpp 325-336: whatever the channel did, and whatever the length of the
\* text, a message marked as good is the text that was sent.
GoodMessagesAreTrue ==
  modem = "Mfsk16" /\ Done
    => \A i \in DOMAIN heard : heard[i].crcOk => heard[i].text = sent

\* Where the code word of the k-th character begins and its terminator ends;
\* the preamble counts as a character.
EndOf(k) == PREAMBLE_SYMBOLS + Len(VaricodeEncode(SubSeq(sent, 1, k)))
StartOf(k) == EndOf(k - 1) + 1

Arrived(k) == [character |-> sent[k], at |-> EndOf(k)] \in {heard[i] : i \in DOMAIN heard}

\* Psk31Modem.cpp 29-41 and 60-74: a fade costs the characters it touches and
\* the next one; and a second one only if it ends just where a character
\* begins, whose first bit is then compared with a phase that was not received
\* (a space has no other bit).  Missing some of either end of the transmission
\* costs no more than the first character, whatever was received before, noise
\* or another transmission, and however the carrier is taken.
PskTextArrives ==
  modem = "Psk31" /\ Done =>
    \A k \in 2..Len(sent) :
      \/ fade = NoFade
      \/ fade.first > EndOf(k)
      \/ fade.first + fade.length < StartOf(k - 1)
      \/ fade.first > Len(ModulateText(sent)) - EDGE
      => Arrived(k)
=============================================================================
