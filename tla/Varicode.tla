------------------------------ MODULE Varicode ------------------------------
(***************************************************************************)
(* src/dsp/psk/Varicode: a character is a code word that starts and ends   *)
(* with a one and has no two zeros in a row, and is followed by two zeros. *)
(***************************************************************************)
EXTENDS Naturals, Sequences, SequencesExt

CONSTANTS
  PSK31_VARICODE_TABLE,  \* the code word of each character
  MAX_ACCUM_BITS

Characters == DOMAIN PSK31_VARICODE_TABLE
NoCharacter == "none"

ASSUME VaricodeAssumption ==
  /\ MAX_ACCUM_BITS \in Nat
  /\ NoCharacter \notin Characters
  /\ \A c, d \in Characters :
       PSK31_VARICODE_TABLE[c] = PSK31_VARICODE_TABLE[d] => c = d
  /\ \A c \in Characters :
       LET code == PSK31_VARICODE_TABLE[c]
       IN  /\ code \in Seq({0, 1}) /\ code # <<>>
           /\ Head(code) = 1 /\ Last(code) = 1
           /\ \A i \in 1..Len(code) - 1 : code[i] + code[i + 1] > 0
           /\ Len(code) + 3 <= MAX_ACCUM_BITS    \* at most 12, and 16

VaricodeEncode(text) ==
  FlattenSeq([i \in DOMAIN text |-> PSK31_VARICODE_TABLE[text[i]] \o <<0, 0>>])

LookupCodeword(word) ==
  LET found == {c \in Characters : PSK31_VARICODE_TABLE[c] = word}
  IN  IF found = {} THEN NoCharacter ELSE CHOOSE c \in found : TRUE

\* m_accum after one more bit, and the character that the bit completes.
DecodeBit(accum, bit) ==
  LET longer == Append(accum, bit)
  IN  IF bit = 0 /\ accum # <<>> /\ Last(accum) = 0
      THEN [accum |-> <<>>, character |-> LookupCodeword(Front(accum))]
      ELSE [accum |-> IF Len(longer) > MAX_ACCUM_BITS THEN <<>> ELSE longer,
            character |-> NoCharacter]
=============================================================================
