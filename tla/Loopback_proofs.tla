-------------------------- MODULE Loopback_proofs ---------------------------
(***************************************************************************)
(* What the modems promise of a transmission: that the interleaver's bits  *)
(* come back and are spread over the code words, that one wrong copy of    *)
(* the header is outvoted, and that the text of a PSK31 transmission       *)
(* arrives but for what a fade must cost, for every table of code words,   *)
(* every length of the preamble, every text, noise, carrier and fade.      *)
(***************************************************************************)
EXTENDS Loopback, BoundedInduction, FiniteSetTheorems, TLAPS

-----------------------------------------------------------------------------
(* The interleaver.                                                         *)

\* A vector of whole code words.
Whole(bits, rows) == bits \in Seq({0, 1}) /\ Len(bits) = rows * LDPC_N

\* Where the bit sent at position p stands in its vector.
Home(p, rows) == ((p % rows) * LDPC_N) + (p \div rows)

\* A position is a row and a column, in either order of counting.
LEMMA Coordinates ==
  ASSUME NEW n \in Nat \ {0}, NEW r \in Nat \ {0}, NEW k \in 0..(r * n - 1)
  PROVE  /\ k \div n \in 0..(r - 1)
         /\ k % n \in 0..(n - 1)
         /\ k = ((k \div n) * n) + (k % n)
<1>1. k \in Nat /\ k < r * n
  BY SMT
<1>2. k = ((k \div n) * n) + (k % n) /\ k % n \in 0..(n - 1) /\ k \div n \in Nat
  BY <1>1, SMT
<1> DEFINE q == k \div n
<1>3. q <= r - 1
  <2>1. SUFFICES ASSUME q >= r PROVE FALSE
    BY <1>2, SMT
  <2>2. q * n >= r * n
    BY <2>1, <1>2, SMT
  <2>3. QED
    BY <2>2, <1>1, <1>2, SMT
<1>4. QED
  BY <1>2, <1>3, SMT

\* A row and a column are a position.
LEMMA Position ==
  ASSUME NEW n \in Nat \ {0}, NEW r \in Nat \ {0}, NEW a \in 0..(r - 1), NEW b \in 0..(n - 1)
  PROVE  /\ (a * n) + b \in 0..((r * n) - 1)
         /\ ((a * n) + b) \div n = a
         /\ ((a * n) + b) % n = b
<1> DEFINE k == (a * n) + b
<1>1. k \in Nat /\ k <= (r * n) - 1
  <2>1. a * n <= (r - 1) * n
    BY SMT
  <2>2. (r - 1) * n = (r * n) - n
    BY SMT
  <2>3. QED
    BY <2>1, <2>2, SMT
<1>2. k = ((k \div n) * n) + (k % n) /\ k % n \in 0..(n - 1) /\ k \div n \in Nat
  BY <1>1, SMT
<1>3. k \div n = a
  <2> DEFINE q == k \div n
  <2>1. ~(q < a)
    <3>1. SUFFICES ASSUME q < a PROVE FALSE
      OBVIOUS
    <3>2. (q + 1) * n <= a * n
      BY <3>1, <1>2, SMT
    <3>3. (q + 1) * n = (q * n) + n
      BY <1>2, SMT
    <3>4. QED
      BY <3>2, <3>3, <1>2, SMT
  <2>2. ~(a < q)
    <3>1. SUFFICES ASSUME a < q PROVE FALSE
      OBVIOUS
    <3>2. (a + 1) * n <= q * n
      BY <3>1, <1>2, SMT
    <3>3. (a + 1) * n = (a * n) + n
      BY SMT
    <3>4. QED
      BY <3>2, <3>3, <1>2, SMT
  <2>3. QED
    BY <2>1, <2>2, <1>2, SMT
<1>4. QED
  BY <1>1, <1>2, <1>3, SMT

\* What is sent: the bit at home, and homes are the positions of the vector.
LEMMA SentBits ==
  ASSUME NEW bits, NEW rows \in Nat \ {0, 1}, Whole(bits, rows),
         NEW p \in 0..((rows * LDPC_N) - 1)
  PROVE  /\ InterleaveBits(bits, rows)[p + 1] = bits[Home(p, rows) + 1]
         /\ Home(p, rows) \in 0..((rows * LDPC_N) - 1)
         /\ Home(p, rows) \div LDPC_N = p % rows
         /\ Home(p, rows) % LDPC_N = p \div rows
<1> DEFINE row == p % rows
           col == p \div rows
<1>n. LDPC_N \in Nat \ {0} /\ rows \in Nat \ {0}
  BY InterleaverAssumption
<1>1. rows * LDPC_N = LDPC_N * rows
  BY <1>n, SMT
<1>2. row \in 0..(rows - 1) /\ col \in 0..(LDPC_N - 1)
  BY <1>1, <1>n, Coordinates
<1>3. /\ (row * LDPC_N) + col \in 0..((rows * LDPC_N) - 1)
      /\ ((row * LDPC_N) + col) \div LDPC_N = row
      /\ ((row * LDPC_N) + col) % LDPC_N = col
  <2> HIDE DEF row, col
  <2> QED BY <1>2, <1>n, Position
<1>4. rows * LDPC_N \in Nat
  BY <1>n, SMT
<1>5. p + 1 \in 1..Len(bits) /\ (p + 1) - 1 = p
  BY <1>4, SMT DEF Whole
<1>6. InterleaveBits(bits, rows)[p + 1] = BitAt(bits, (row * LDPC_N) + col)
  <2>1. ~(rows <= 1) /\ col < LDPC_N
    BY <1>2, <1>n, SMT
  <2>2. QED
    BY <2>1, <1>5 DEF InterleaveBits
<1>7. BitAt(bits, (row * LDPC_N) + col) = bits[(row * LDPC_N) + col + 1]
  BY <1>3, <1>4, SMT DEF BitAt, Whole
<1>8. QED
  BY <1>3, <1>6, <1>7 DEF Home

(***************************************************************************)
(* What the transmitter interleaves, the receiver puts back, bit for bit,  *)
(* for every number of code words (Interleaver.cpp:18-54).                 *)
(***************************************************************************)
THEOREM RoundTrip ==
  ASSUME NEW rows \in Nat \ {0}, NEW bits, Whole(bits, rows)
  PROVE  DeinterleaveBits(InterleaveBits(bits, rows), rows) = bits
<1>n. LDPC_N \in Nat \ {0} /\ rows * LDPC_N \in Nat
  BY InterleaverAssumption, SMT
<1>1. CASE rows = 1
  BY <1>1 DEF DeinterleaveBits, InterleaveBits
<1>2. CASE rows # 1
  <2> DEFINE woven == InterleaveBits(bits, rows)
             back == DeinterleaveBits(woven, rows)
  <2>r. rows \in Nat \ {0, 1} /\ ~(rows <= 1)
    BY <1>2, SMT
  <2>1. /\ woven = [i \in 1..Len(bits) |->
                    IF (i - 1) \div rows < LDPC_N
                    THEN BitAt(bits, ((i - 1) % rows) * LDPC_N + ((i - 1) \div rows)) ELSE 0]
        /\ Len(bits) = rows * LDPC_N
    BY <2>r DEF InterleaveBits, Whole
  <2>2. Len(woven) = rows * LDPC_N
    BY <2>1, <1>n
  <2>3. back = [i \in 1..(rows * LDPC_N) |->
                  IF (i - 1) \div LDPC_N < rows
                  THEN BitAt(woven, (((i - 1) % LDPC_N) * rows) + ((i - 1) \div LDPC_N)) ELSE 0]
    BY <2>2, <2>r DEF DeinterleaveBits
  <2>4. bits = [i \in 1..(rows * LDPC_N) |-> bits[i]]
    BY <2>1 DEF Whole
  <2>5. ASSUME NEW i \in 1..(rows * LDPC_N)
        PROVE  /\ (i - 1) \div LDPC_N < rows
               /\ BitAt(woven, (((i - 1) % LDPC_N) * rows) + ((i - 1) \div LDPC_N)) = bits[i]
    <3> DEFINE k == i - 1
               row == k \div LDPC_N
               col == k % LDPC_N
               p == (col * rows) + row
    <3>1. k \in 0..((rows * LDPC_N) - 1)
      BY <1>n, SMT
    <3>2. row \in 0..(rows - 1) /\ col \in 0..(LDPC_N - 1) /\ k = (row * LDPC_N) + col
      BY <3>1, <1>n, Coordinates
    <3>3. p \in 0..((LDPC_N * rows) - 1) /\ p \div rows = col /\ p % rows = row
      <4>1. ASSUME NEW a \in 0..(LDPC_N - 1), NEW b \in 0..(rows - 1)
            PROVE  /\ (a * rows) + b \in 0..((LDPC_N * rows) - 1)
                   /\ ((a * rows) + b) \div rows = a
                   /\ ((a * rows) + b) % rows = b
        BY <1>n, Position
      <4>2. QED
        BY <3>2, <4>1
    <3>4. LDPC_N * rows = rows * LDPC_N
      BY <1>n, SMT
    <3>5. woven[p + 1] = bits[Home(p, rows) + 1]
      BY <3>3, <3>4, <2>r, SentBits
    <3>6. Home(p, rows) = k
      BY <3>2, <3>3 DEF Home
    <3>7. BitAt(woven, p) = woven[p + 1]
      BY <3>3, <3>4, <2>2, <1>n, SMT DEF BitAt
    <3>8. k + 1 = i /\ row < rows
      BY <3>2, <1>n, SMT
    <3>9. QED
      BY <3>5, <3>6, <3>7, <3>8
  <2>6. back = bits
    <3>1. back = [i \in 1..(rows * LDPC_N) |-> bits[i]]
      BY <2>3, <2>5
    <3>2. QED
      BY <3>1, <2>4
  <2>7. QED
    BY <2>6
<1>3. QED
  BY <1>1, <1>2

(***************************************************************************)
(* Two bits that are sent fewer than rows positions apart belong to        *)
(* different code words: a burst of errors no longer than the number of    *)
(* code words hits each of them at most once (Interleaver.h).              *)
(***************************************************************************)
THEOREM BurstsAreSpread ==
  ASSUME NEW rows \in Nat \ {0, 1}, NEW bits, Whole(bits, rows),
         NEW p \in 0..((rows * LDPC_N) - 1), NEW q \in 0..((rows * LDPC_N) - 1),
         p < q, q - p < rows
  PROVE  /\ InterleaveBits(bits, rows)[p + 1] = bits[Home(p, rows) + 1]
         /\ InterleaveBits(bits, rows)[q + 1] = bits[Home(q, rows) + 1]
         /\ Home(p, rows) \div LDPC_N # Home(q, rows) \div LDPC_N
<1>n. LDPC_N \in Nat \ {0} /\ rows \in Nat \ {0} /\ rows * LDPC_N \in Nat
  BY InterleaverAssumption, SMT
<1>1. /\ Home(p, rows) \div LDPC_N = p % rows
      /\ Home(q, rows) \div LDPC_N = q % rows
      /\ InterleaveBits(bits, rows)[p + 1] = bits[Home(p, rows) + 1]
      /\ InterleaveBits(bits, rows)[q + 1] = bits[Home(q, rows) + 1]
  BY SentBits
<1>2. p % rows # q % rows
  <2>1. SUFFICES ASSUME p % rows = q % rows PROVE FALSE
    OBVIOUS
  <2> DEFINE a == p \div rows
             b == q \div rows
  <2>2. /\ p = (a * rows) + (p % rows) /\ a \in Nat
        /\ q = (b * rows) + (q % rows) /\ b \in Nat
        /\ p % rows \in 0..(rows - 1) /\ q % rows \in 0..(rows - 1)
    BY <1>n, SMT
  <2>3. (b * rows) - (a * rows) = q - p
    BY <2>1, <2>2, <1>n, SMT
  <2>4. CASE b <= a
    <3>1. b * rows <= a * rows
      BY <2>4, <2>2, <1>n, SMT
    <3>2. QED
      BY <3>1, <2>3, <2>2, <1>n, SMT
  <2>5. CASE b > a
    <3>1. (a + 1) * rows <= b * rows
      BY <2>5, <2>2, <1>n, SMT
    <3>2. (a + 1) * rows = (a * rows) + rows
      BY <2>2, <1>n, SMT
    <3>3. QED
      BY <3>1, <3>2, <2>3, <2>2, <1>n, SMT
  <2>6. QED
    BY <2>4, <2>5, <2>2, SMT
<1>3. QED
  BY <1>1, <1>2

-----------------------------------------------------------------------------
(* The vote over the copies of the header.                                  *)

\* Two of three are a majority, and one is not.
LEMMA TwoOfThree ==
  ASSUME NEW S \in SUBSET (1..3), NEW wrong \in 1..3
  PROVE  /\ 1..3 \subseteq S \union {wrong} => 2 * Cardinality(S) >= 3
         /\ S \subseteq {wrong} => ~(2 * Cardinality(S) >= 3)
<1>1. IsFiniteSet(1..3) /\ Cardinality(1..3) = 3
  <2>1. 1 \in Int /\ 3 \in Int /\ (IF 1 > 3 THEN 0 ELSE 3 - 1 + 1) = 3
    OBVIOUS
  <2> QED BY <2>1, FS_Interval
<1>2. IsFiniteSet(S) /\ Cardinality(S) \in Nat
  BY <1>1, FS_Subset, FS_CardinalityType
<1>3. ASSUME 1..3 \subseteq S \union {wrong} PROVE 2 * Cardinality(S) >= 3
  <2>1. /\ IsFiniteSet(S \union {wrong})
        /\ Cardinality(S \union {wrong})
             = IF wrong \in S THEN Cardinality(S) ELSE Cardinality(S) + 1
    BY <1>2, FS_AddElement
  <2>2. Cardinality(1..3) <= Cardinality(S \union {wrong})
    BY <1>3, <2>1, FS_Subset
  <2> QED BY <1>1, <1>2, <2>1, <2>2
<1>4. ASSUME S \subseteq {wrong} PROVE ~(2 * Cardinality(S) >= 3)
  <2>1. IsFiniteSet({wrong}) /\ Cardinality({wrong}) = 1
    BY FS_Singleton
  <2>2. Cardinality(S) <= Cardinality({wrong})
    BY <1>4, <2>1, FS_Subset
  <2> QED BY <1>2, <2>1, <2>2
<1> QED BY <1>3, <1>4

\* Three copies that are the same.
LEMMA Thrice ==
  ASSUME NEW x
  PROVE  DOMAIN <<x, x, x>> = 1..3 /\ Len(<<x, x, x>>) = 3 /\ \A c \in 1..3 : <<x, x, x>>[c] = x
<1>1. <<x, x, x>>[1] = x /\ <<x, x, x>>[2] = x /\ <<x, x, x>>[3] = x
  OBVIOUS
<1>2. Len(<<x, x, x>>) = 3 /\ <<x, x, x>> \in Seq({x})
  OBVIOUS
<1>3. \A c \in 1..3 : c = 1 \/ c = 2 \/ c = 3
  OBVIOUS
<1> QED BY <1>1, <1>2, <1>3, LenProperties

(***************************************************************************)
(* Frame.cpp's vote over the copies of the header: a bit that is wrong in  *)
(* one copy at most is outvoted, and different bits may be wrong in        *)
(* different copies, as where a fade ends one copy and begins the next.    *)
(***************************************************************************)
THEOREM OneWrongCopyIsOutvoted ==
  ASSUME NEW S, NEW copies \in Seq(S), Len(copies) = 3, NEW header,
         \A byte \in 1..2, b \in 1..8 : \E wrong \in 1..3 : \A c \in 1..3 \ {wrong} :
           BitsOf(copies[c][byte], 8)[b] = BitsOf(header[byte], 8)[b]
  PROVE  MajorityVoteHeader(copies) = MajorityVoteHeader(<<header, header, header>>)
<1> DEFINE ones(read, byte, b) == {c \in 1..3 : BitsOf(read[c][byte], 8)[b] = 1}
           vote(read, byte, b) == IF 2 * Cardinality(ones(read, byte, b)) >= 3 THEN 1 ELSE 0
           result(read) == [byte \in 1..2 |-> PackBits([b \in 1..8 |-> vote(read, byte, b)])[1]]
           alike == <<header, header, header>>
<1>1. DOMAIN copies = 1..3 /\ DOMAIN alike = 1..3 /\ Len(alike) = 3
  <2>1. DOMAIN alike = 1..3 /\ Len(alike) = 3
    BY Thrice
  <2> QED BY <2>1, LenProperties
<1>a. \A c \in 1..3 : alike[c] = header
  BY Thrice
<1> HIDE DEF alike
<1>2. MajorityVoteHeader(copies) = result(copies) /\ MajorityVoteHeader(alike) = result(alike)
  BY <1>1 DEF MajorityVoteHeader
<1>3. ASSUME NEW byte \in 1..2, NEW b \in 1..8
      PROVE  vote(copies, byte, b) = vote(alike, byte, b)
  <2> DEFINE bit == BitsOf(header[byte], 8)[b]
             some == ones(copies, byte, b)
             all == ones(alike, byte, b)
  <2>1. PICK wrong \in 1..3 : \A c \in 1..3 \ {wrong} : BitsOf(copies[c][byte], 8)[b] = bit
    OBVIOUS
  <2>2. CASE bit = 1
    <3>1. 1..3 \subseteq some \union {wrong} /\ 1..3 \subseteq all \union {wrong}
      BY <1>a, <2>1, <2>2
    <3>2. some \in SUBSET (1..3) /\ all \in SUBSET (1..3)
      OBVIOUS
    <3> HIDE DEF some, all
    <3>3. 2 * Cardinality(some) >= 3 /\ 2 * Cardinality(all) >= 3
      BY <3>1, <3>2, TwoOfThree
    <3> QED BY <3>3 DEF some, all
  <2>3. CASE bit # 1
    <3>1. some \subseteq {wrong} /\ all \subseteq {wrong}
      BY <1>a, <2>1, <2>3
    <3>2. some \in SUBSET (1..3) /\ all \in SUBSET (1..3)
      OBVIOUS
    <3> HIDE DEF some, all
    <3>3. ~(2 * Cardinality(some) >= 3) /\ ~(2 * Cardinality(all) >= 3)
      BY <3>1, <3>2, TwoOfThree
    <3> QED BY <3>3 DEF some, all
  <2> QED BY <2>2, <2>3
<1> HIDE DEF vote
<1>4. result(copies) = result(alike)
  BY <1>3
<1> QED BY <1>2, <1>4 DEF alike

-----------------------------------------------------------------------------
(* What the receiver knows, p symbols of a transmission of text after its   *)
(* beginning, taken at carrier c; p is negative before it.                  *)

P == PREAMBLE_SYMBOLS
Encoded(text, k) == VaricodeEncode(SubSeq(text, 1, k))
Code(text, k) == PSK31_VARICODE_TABLE[text[k]]
Word(text, k) == Code(text, k) \o <<0, 0>>
End(text, k) == P + Len(Encoded(text, k))
Bits(text) == [i \in 1..P |-> 0] \o VaricodeEncode(text) \o [i \in 1..P |-> 1]
Total(text) == Len(Bits(text))

Receivers == [hadSignal : BOOLEAN, prev : {1, -1}, accum : Seq({0, 1}),
              quality : Nat, bits : Nat]
Fades == [kind : {"none", "weak"}, first : Nat, length : Nat]
Event == [character : Characters \union {NoCharacter}, at : Int]

\* The first symbol after a fade; 0 when there was none.
After(f) == f.first + f.length
Idle(r) == r.accum = <<>> /\ r.quality = 0 /\ r.bits = 0

\* Types; a fade is behind the position, and a receiver fresh from one idle.
Typed(text, p, r, f) ==
  /\ p <= Total(text)
  /\ r \in Receivers /\ f \in Fades
  /\ f # NoFade => f.first >= 1
  /\ After(f) <= p + 1 \/ f = NoFade
  /\ ~r.hadSignal => Idle(r)
  /\ p >= 0 /\ After(f) = p + 1 => Idle(r)

\* How far the sum of the qualities may fall short of the squelch.
Slack(s, p) ==
  IF p < 0 THEN (100 - s) * P + s * p
  ELSE IF p <= P THEN (100 - s) * (P - p) ELSE 0
Clear(s, p, r) == 0 <= Slack(s, p) /\ s * r.bits - r.quality <= Slack(s, p)

\* The phase the next one is compared with is that of the last symbol.
Locked(text, c, p, r, f) ==
  p \in 1..(Total(text) - 1) /\ After(f) <= p => r.prev = c * ModulateText(text)[p]

EndsWith(r, bit) == r.accum # <<>> /\ Last(r.accum) = bit

\* What the zeros of the preamble leave of whatever was received before it.
Junk == {<<>>, <<0>>, <<1>>, <<1, 0>>}
Zeroed(p, r) ==
  /\ p = 2 => r.accum \in Junk \/ EndsWith(r, 0)
  /\ p \in 3..P => r.accum \in Junk

\* The bits held after i bits of the k-th character, when nothing is known of
\* the ones before; when all of the character was heard; and when all of the
\* one before was too.
Delimited(text, k, i, r) ==
  /\ Len(r.accum) <= i + 2
  /\ i = Len(Code(text, k)) => EndsWith(r, 1)
  /\ i = Len(Code(text, k)) + 1 => EndsWith(r, 0)
Exact(text, k, i, r) == r.accum = SubSeq(Word(text, k), 1, i)

Collected(text, p, r, f) ==
  \A k \in 1..Len(text) :
    p \in End(text, k - 1)..(End(text, k) - 1) =>
      LET i == p - End(text, k - 1)
      IN  /\ r.accum \in Junk \/ Delimited(text, k, i, r)
          /\ After(f) <= End(text, k - 1) => Delimited(text, k, i, r)
          /\ k > 1 /\ After(f) <= End(text, k - 2) => Exact(text, k, i, r)

\* Every character but the first, and those that a fade has cost, is shown.
Shown(text, k) == [character |-> text[k], at |-> End(text, k)]
Heard(text, p, f, shown) ==
  \A k \in 2..Len(text) :
    End(text, k) <= p /\ (f.first > End(text, k) \/ After(f) <= End(text, k - 2))
      => Shown(text, k) \in shown

\* All of it.
Good(text, c, s, p, r, f, shown) ==
  /\ Typed(text, p, r, f)
  /\ Clear(s, p, r)
  /\ Locked(text, c, p, r, f)
  /\ Zeroed(p, r)
  /\ Collected(text, p, r, f)
  /\ Heard(text, p, f, shown)

\* The symbol at a position, and all of those still to be received.
IsSent(text, c, at, symbol) ==
  /\ symbol \in Symbol /\ symbol.at = at
  /\ at >= 1 => symbol.quality = 100 /\ symbol.phase = c * ModulateText(text)[at]

OnAir(text, c, p, symbols) ==
  /\ symbols \in Seq(Symbol) /\ p + Len(symbols) = Total(text)
  /\ \A j \in 1..Len(symbols) : IsSent(text, c, p + j, symbols[j])

\* The inductive invariant: some carrier is being received at the position
\* that what is left on the air leaves, and the receiver is right about it.
ReceptionInv ==
  /\ modem \in {"Mfsk16", "Psk31"}
  /\ modem = "Psk31" =>
       /\ sent \in Seq(Characters) /\ squelch \in Squelches /\ heard \in Seq(Event)
       /\ \E c \in {1, -1} :
            LET p == Total(sent) - Len(air)
            IN  /\ OnAir(sent, c, p, air)
                /\ Good(sent, c, squelch, p, rx, fade, ToSet(heard))

-----------------------------------------------------------------------------
(* The layout of a transmission.                                            *)

\* The code words as the lemmas use them.
LEMMA CodeFacts ==
  ASSUME NEW text \in Seq(Characters), NEW k \in 1..Len(text)
  PROVE  /\ text[k] \in Characters
         /\ Code(text, k) \in Seq({0, 1}) /\ Word(text, k) \in Seq({0, 1})
         /\ Len(Code(text, k)) \in Nat \ {0}
         /\ Len(Code(text, k)) + 3 <= MAX_ACCUM_BITS
         /\ Len(Word(text, k)) = Len(Code(text, k)) + 2
         /\ \A i \in 1..Len(Code(text, k)) : Word(text, k)[i] = Code(text, k)[i]
         /\ Word(text, k)[Len(Code(text, k)) + 1] = 0
         /\ Word(text, k)[Len(Code(text, k)) + 2] = 0
         /\ Code(text, k)[1] = 1 /\ Code(text, k)[Len(Code(text, k))] = 1
         /\ \A i \in 1..(Len(Code(text, k)) - 1) :
              Code(text, k)[i] + Code(text, k)[i + 1] > 0
<1> DEFINE code == PSK31_VARICODE_TABLE[text[k]]
<1>1. text[k] \in Characters
  BY ElementOfSeq
<1>2. /\ code \in Seq({0, 1}) /\ code # <<>>
      /\ Head(code) = 1 /\ Last(code) = 1
      /\ \A i \in 1..Len(code) - 1 : code[i] + code[i + 1] > 0
      /\ Len(code) + 3 <= MAX_ACCUM_BITS
  BY <1>1, VaricodeAssumption
<1>3. Len(code) \in Nat \ {0}
  BY <1>2, EmptySeq, LenProperties
<1>4. code[1] = 1 /\ code[Len(code)] = 1
  BY <1>2 DEF Last
<1> HIDE DEF code
<1>5. <<0, 0>> \in Seq({0, 1}) /\ Len(<<0, 0>>) = 2
      /\ <<0, 0>>[1] = 0 /\ <<0, 0>>[2] = 0
  OBVIOUS
<1>6. /\ code \o <<0, 0>> \in Seq({0, 1})
      /\ Len(code \o <<0, 0>>) = Len(code) + 2
      /\ \A i \in 1..(Len(code) + 2) :
           (code \o <<0, 0>>)[i] = IF i <= Len(code) THEN code[i]
                                   ELSE <<0, 0>>[i - Len(code)]
  BY <1>2, <1>5, ConcatProperties
<1>7. /\ \A i \in 1..Len(code) : (code \o <<0, 0>>)[i] = code[i]
      /\ (code \o <<0, 0>>)[Len(code) + 1] = 0
      /\ (code \o <<0, 0>>)[Len(code) + 2] = 0
  BY <1>3, <1>5, <1>6
<1>8. Code(text, k) = code /\ Word(text, k) = code \o <<0, 0>>
  BY DEF Code, Word, code
<1> QED BY <1>1, <1>2, <1>3, <1>4, <1>6, <1>7, <1>8

\* What the first characters are encoded as, one more at a time.
LEMMA EncodedSteps ==
  ASSUME NEW text \in Seq(Characters)
  PROVE  /\ Encoded(text, 0) = <<>>
         /\ \A k \in 0..Len(text) : Encoded(text, k) \in Seq({0, 1})
         /\ \A k \in 1..Len(text) :
              Encoded(text, k) = Encoded(text, k - 1) \o Word(text, k)
         /\ VaricodeEncode(text) = Encoded(text, Len(text))
<1> DEFINE N == Len(text)
           T == {0, 1}
           Words(t) == [i \in DOMAIN t |-> PSK31_VARICODE_TABLE[t[i]] \o <<0, 0>>]
           s == Words(text)
<1>1. N \in Nat /\ DOMAIN text = 1..N
  BY LenProperties
<1>2. s \in Seq(Seq(T)) /\ Len(s) = N /\ \A k \in 1..N : s[k] = Word(text, k)
  <2>1. \A k \in 1..N : s[k] = Word(text, k) /\ s[k] \in Seq(T)
    BY <1>1, CodeFacts DEF Word, Code
  <2>2. s = [k \in 1..N |-> Word(text, k)] /\ \A k \in 1..N : Word(text, k) \in Seq(T)
    BY <1>1, <2>1 DEF Word, Code
  <2> HIDE DEF s
  <2>3. s \in Seq(Seq(T)) /\ Len(s) = N
    BY <1>1, <2>2, IsASeq
  <2> QED BY <2>1, <2>3
<1>3. PICK g : Concatenates(T, s, g)
  BY <1>2, Concatenations
<1>4. /\ g \in [0..N -> Seq(T)] /\ g[0] = <<>>
      /\ \A n \in 1..N : g[n] = g[n - 1] \o Word(text, n)
  BY <1>2, <1>3 DEF Concatenates
<1>5. ASSUME NEW k \in 0..N PROVE Encoded(text, k) = g[k]
  <2> DEFINE t == SubSeq(text, 1, k)
             h == [n \in 0..k |-> g[n]]
  <2>1. /\ t \in Seq(Characters) /\ Len(t) = k /\ DOMAIN t = 1..k
        /\ \A i \in 1..k : t[i] = text[i]
    BY <1>1
  <2>2. Words(t) = [n \in 1..k |-> Word(text, n)]
    BY <2>1 DEF Word, Code
  <2>3. \A n \in 1..k : n \in 1..N /\ Word(text, n) \in Seq(T)
    BY <1>1, CodeFacts
  <2> HIDE DEF Words, t
  <2>4. Words(t) \in Seq(Seq(T)) /\ Len(Words(t)) = k
    BY <2>2, <2>3, IsASeq
  <2>5. Concatenates(T, Words(t), h)
    <3>1. \A n \in 0..k : n \in 0..N
      BY <1>1
    <3>2. h \in [0..k -> Seq(T)] /\ h[0] = <<>>
      <4>1. 0 \in 0..k
        BY <1>1
      <4>2. \A n \in 0..N : g[n] \in Seq(T)
        BY <1>4
      <4>3. \A n \in 0..k : g[n] \in Seq(T)
        BY <3>1, <4>2
      <4> QED BY <1>4, <4>1, <4>3
    <3>3. ASSUME NEW n \in 1..k PROVE h[n] = h[n - 1] \o Words(t)[n]
      <4>1. n \in 0..k /\ n - 1 \in 0..k /\ n \in 1..N
        BY <1>1
      <4>2. h[n] = g[n] /\ h[n - 1] = g[n - 1] /\ Words(t)[n] = Word(text, n)
        BY <2>2, <4>1
      <4> QED BY <1>4, <4>1, <4>2
    <3> QED BY <2>4, <3>2, <3>3 DEF Concatenates
  <2>6. FlattenSeq(Words(t)) = h[k]
    BY <2>4, <2>5, Flattened
  <2>7. VaricodeEncode(t) = FlattenSeq(Words(t))
    BY DEF VaricodeEncode, Words
  <2> QED BY <2>6, <2>7 DEF Encoded, t
<1>6. VaricodeEncode(text) = g[N]
  <2>1. FlattenSeq(s) = g[N]
    BY <1>2, <1>3, Flattened
  <2> QED BY <2>1 DEF VaricodeEncode
<1>7. \A k \in 1..N : k \in 0..N /\ k - 1 \in 0..N
  BY <1>1
<1>8. Encoded(text, 0) = <<>> /\ VaricodeEncode(text) = Encoded(text, N)
  <2>1. 0 \in 0..N /\ N \in 0..N
    BY <1>1
  <2> QED BY <1>4, <1>5, <1>6, <2>1
<1>9. ASSUME NEW k \in 0..N PROVE Encoded(text, k) \in Seq(T)
  BY <1>4, <1>5
<1>10. ASSUME NEW k \in 1..N PROVE Encoded(text, k) = Encoded(text, k - 1) \o Word(text, k)
  <2>1. Encoded(text, k) = g[k] /\ Encoded(text, k - 1) = g[k - 1]
    BY <1>5, <1>7
  <2> QED BY <1>4, <2>1
<1> QED BY <1>8, <1>9, <1>10

\* The first characters are encoded as the beginning of all of them.
LEMMA EncodedPrefix ==
  ASSUME NEW text \in Seq(Characters), NEW k \in 0..Len(text), NEW m \in k..Len(text)
  PROVE  /\ Len(Encoded(text, k)) <= Len(Encoded(text, m))
         /\ \A i \in 1..Len(Encoded(text, k)) : Encoded(text, m)[i] = Encoded(text, k)[i]
<1> DEFINE N == Len(text)
           D == N - k
           Begins(q) == /\ Len(Encoded(text, k)) <= Len(q)
                        /\ \A i \in 1..Len(Encoded(text, k)) : q[i] = Encoded(text, k)[i]
           S == {d \in 0..D : Begins(Encoded(text, k + d))}
<1>1. N \in Nat /\ D \in Nat /\ k \in 0..N /\ k \in Nat
  BY LenProperties
<1>2. \A j \in 0..N : Encoded(text, j) \in Seq({0, 1}) /\ Len(Encoded(text, j)) \in Nat
  BY EncodedSteps, LenProperties
<1>3. 0 \in S
  <2>1. k + 0 = k
    BY <1>1
  <2>2. Begins(Encoded(text, k))
    BY <1>1, <1>2
  <2> QED BY <1>1, <2>1, <2>2
<1>4. ASSUME NEW d \in 1..D, d - 1 \in S PROVE d \in S
  <2> DEFINE before == Encoded(text, k + (d - 1))
             after == Encoded(text, k + d)
             word == Word(text, k + d)
  <2>1. k + d \in 1..N /\ (k + d) - 1 = k + (d - 1) /\ k + (d - 1) \in 0..N
    BY <1>1
  <2>2. after = before \o word
    BY <2>1, EncodedSteps
  <2>3. before \in Seq({0, 1}) /\ Len(before) \in Nat /\ word \in Seq({0, 1})
    BY <1>2, <2>1, CodeFacts
  <2>4. Begins(before)
    BY <1>4
  <2> HIDE DEF before, after, word
  <2>5. Len(word) \in Nat
    BY <2>3, LenProperties
  <2>6. /\ Len(after) = Len(before) + Len(word)
        /\ \A i \in 1..Len(before) : after[i] = before[i]
    BY <2>2, <2>3, <2>5, ConcatProperties
  <2>7. Begins(after)
    BY <1>1, <1>2, <2>3, <2>4, <2>5, <2>6
  <2> QED BY <2>7 DEF after
<1> HIDE DEF Begins, S
<1>5. 0..D \subseteq S
  BY <1>1, <1>3, <1>4, UpTo
<1>6. m - k \in S /\ k + (m - k) = m
  BY <1>1, <1>5
<1> QED BY <1>6 DEF S, Begins

\* Where the characters end.
LEMMA Ends ==
  ASSUME NEW text \in Seq(Characters)
  PROVE  /\ End(text, 0) = P
         /\ \A k \in 0..Len(text) : End(text, k) \in Nat
         /\ \A k \in 1..Len(text) : End(text, k) = End(text, k - 1) + Len(Code(text, k)) + 2
         /\ \A k \in 0..Len(text), m \in 0..Len(text) :
              k <= m => End(text, k) <= End(text, m)
<1>1. P \in Nat /\ Len(text) \in Nat
  BY PreambleAssumption, LenProperties DEF P
<1>2. \A k \in 0..Len(text) : Encoded(text, k) \in Seq({0, 1}) /\ Len(Encoded(text, k)) \in Nat
  BY EncodedSteps, LenProperties
<1>3. End(text, 0) = P
  <2>1. Len(<<>>) = 0
    BY EmptySeq
  <2> QED BY <1>1, <2>1, EncodedSteps DEF End
<1>4. ASSUME NEW k \in 0..Len(text) PROVE End(text, k) \in Nat
  BY <1>1, <1>2 DEF End
<1>5. ASSUME NEW k \in 1..Len(text)
      PROVE  End(text, k) = End(text, k - 1) + Len(Code(text, k)) + 2
  <2>1. k \in 0..Len(text) /\ k - 1 \in 0..Len(text)
    BY <1>1
  <2>2. Encoded(text, k) = Encoded(text, k - 1) \o Word(text, k)
    BY EncodedSteps
  <2>3. /\ Word(text, k) \in Seq({0, 1}) /\ Len(Word(text, k)) = Len(Code(text, k)) + 2
        /\ Len(Code(text, k)) \in Nat
    BY CodeFacts
  <2>4. Len(Encoded(text, k)) = Len(Encoded(text, k - 1)) + Len(Word(text, k))
    BY <1>2, <2>1, <2>2, <2>3, ConcatProperties
  <2> QED BY <1>1, <1>2, <2>1, <2>3, <2>4 DEF End
<1>6. ASSUME NEW k \in 0..Len(text), NEW m \in 0..Len(text), k <= m
      PROVE  End(text, k) <= End(text, m)
  <2>1. m \in k..Len(text)
    BY <1>6
  <2>2. Len(Encoded(text, k)) <= Len(Encoded(text, m))
    BY <2>1, EncodedPrefix
  <2> QED BY <1>1, <1>2, <2>2 DEF End
<1> QED BY <1>3, <1>4, <1>5, <1>6

\* The bits of a transmission: zeros, then the characters one after another.
LEMMA Layout ==
  ASSUME NEW text \in Seq(Characters)
  PROVE  /\ Bits(text) \in Seq({0, 1}) /\ Total(text) \in Nat
         /\ Total(text) = End(text, Len(text)) + P
         /\ \A i \in 1..P : Bits(text)[i] = 0
         /\ \A k \in 1..Len(text) : \A i \in 1..Len(Word(text, k)) :
              Bits(text)[End(text, k - 1) + i] = Word(text, k)[i]
<1> DEFINE N == Len(text)
           zeros == [i \in 1..P |-> 0]
           ones == [i \in 1..P |-> 1]
           middle == Encoded(text, N)
<1>1. P \in Nat /\ N \in Nat /\ N \in 0..N
  BY PreambleAssumption, LenProperties DEF P
<1>2. /\ zeros \in Seq({0, 1}) /\ Len(zeros) = P
      /\ ones \in Seq({0, 1}) /\ Len(ones) = P
  <2>1. \A i \in 1..P : 0 \in {0, 1} /\ 1 \in {0, 1}
    OBVIOUS
  <2> QED BY <1>1, <2>1, IsASeq
<1>3. \A k \in 0..N : Encoded(text, k) \in Seq({0, 1}) /\ Len(Encoded(text, k)) \in Nat
  BY EncodedSteps, LenProperties
<1>4. Bits(text) = (zeros \o middle) \o ones
  BY EncodedSteps DEF Bits
<1>5. middle \in Seq({0, 1}) /\ Len(middle) \in Nat
  BY <1>1, <1>3
<1>6. \A i \in 1..P : zeros[i] = 0
  OBVIOUS
<1> HIDE DEF zeros, ones, middle
<1>7. /\ zeros \o middle \in Seq({0, 1}) /\ Len(zeros \o middle) = P + Len(middle)
      /\ \A i \in 1..P : (zeros \o middle)[i] = 0
      /\ \A i \in 1..Len(middle) : (zeros \o middle)[P + i] = middle[i]
  <2>1. /\ zeros \o middle \in Seq({0, 1}) /\ Len(zeros \o middle) = P + Len(middle)
        /\ \A i \in 1..(P + Len(middle)) :
             (zeros \o middle)[i] = IF i <= P THEN zeros[i] ELSE middle[i - P]
    BY <1>2, <1>5, ConcatProperties
  <2> QED BY <1>1, <1>5, <1>6, <2>1
<1>8. /\ Bits(text) \in Seq({0, 1}) /\ Len(Bits(text)) = (P + Len(middle)) + P
      /\ \A i \in 1..(P + Len(middle)) : Bits(text)[i] = (zeros \o middle)[i]
  <2>1. P + Len(middle) \in Nat
    BY <1>1, <1>5
  <2> QED BY <1>1, <1>2, <1>4, <1>7, <2>1, ConcatProperties
<1>9. Total(text) \in Nat /\ Total(text) = End(text, N) + P
  <2>1. End(text, N) = P + Len(middle)
    BY DEF End, middle
  <2> QED BY <1>1, <1>5, <1>8, <2>1 DEF Total
<1>10. \A i \in 1..P : Bits(text)[i] = 0
  <2>1. \A i \in 1..P : i \in 1..(P + Len(middle))
    BY <1>1, <1>5
  <2> QED BY <1>7, <1>8, <2>1
<1>11. ASSUME NEW k \in 1..N, NEW i \in 1..Len(Word(text, k))
       PROVE  Bits(text)[End(text, k - 1) + i] = Word(text, k)[i]
  <2> DEFINE start == Encoded(text, k - 1)
             word == Word(text, k)
  <2>1. k - 1 \in 0..N /\ k \in 0..N /\ N \in k..N
    BY <1>1
  <2>2. start \in Seq({0, 1}) /\ Len(start) \in Nat /\ word \in Seq({0, 1}) /\ Len(word) \in Nat
    BY <1>3, <2>1, CodeFacts, LenProperties
  <2>3. Encoded(text, k) = start \o word
    BY EncodedSteps
  <2>4. /\ Len(Encoded(text, k)) <= Len(middle)
        /\ \A j \in 1..Len(Encoded(text, k)) : middle[j] = Encoded(text, k)[j]
    BY <2>1, EncodedPrefix DEF middle
  <2>5. End(text, k - 1) = P + Len(start)
    BY DEF End
  <2> HIDE DEF start, word
  <2>6. i \in 1..Len(word)
    BY DEF word
  <2>7. /\ Len(Encoded(text, k)) = Len(start) + Len(word)
        /\ Encoded(text, k)[Len(start) + i] = word[i]
    <3>1. /\ Len(start \o word) = Len(start) + Len(word)
          /\ \A j \in 1..(Len(start) + Len(word)) :
               (start \o word)[j] = IF j <= Len(start) THEN start[j] ELSE word[j - Len(start)]
      BY <2>2, ConcatProperties
    <3>2. Len(start) + i \in 1..(Len(start) + Len(word)) /\ ~(Len(start) + i <= Len(start))
          /\ (Len(start) + i) - Len(start) = i
      BY <2>2, <2>6
    <3> QED BY <2>3, <3>1, <3>2
  <2>8. Len(start) + i \in 1..Len(Encoded(text, k)) /\ Len(start) + i \in 1..Len(middle)
    BY <1>5, <2>2, <2>4, <2>6, <2>7
  <2>9. P + (Len(start) + i) \in 1..(P + Len(middle)) /\ End(text, k - 1) + i = P + (Len(start) + i)
    BY <1>1, <1>5, <2>2, <2>5, <2>8
  <2>10. Bits(text)[P + (Len(start) + i)] = middle[Len(start) + i]
    BY <1>7, <1>8, <2>8, <2>9
  <2>11. middle[Len(start) + i] = word[i]
    BY <2>4, <2>7, <2>8
  <2> QED BY <2>9, <2>10, <2>11 DEF word
<1> QED BY <1>8, <1>9, <1>10, <1>11

-----------------------------------------------------------------------------
(* Phases and bits.                                                         *)

\* A one leaves the phase as it is, and a zero turns it.
LEMMA Turns ==
  ASSUME NEW bits \in Seq({0, 1}), NEW i \in 1..Len(bits)
  PROVE  /\ ModulateBits(bits)[i] \in {1, -1}
         /\ i > 1 => (ModulateBits(bits)[i] = ModulateBits(bits)[i - 1] <=> bits[i] = 1)
<1> DEFINE zeros(n) == {j \in 1..n : bits[j] = 0}
           phase(n) == IF Cardinality(zeros(n)) % 2 = 0 THEN 1 ELSE -1
<1>1. DOMAIN bits = 1..Len(bits) /\ Len(bits) \in Nat /\ bits[i] \in {0, 1}
  BY LenProperties, ElementOfSeq
<1>2. \A n \in 1..Len(bits) : ModulateBits(bits)[n] = phase(n)
  BY <1>1 DEF ModulateBits
<1>3. ModulateBits(bits)[i] \in {1, -1}
  BY <1>2
<1>4. ASSUME i > 1 PROVE ModulateBits(bits)[i] = ModulateBits(bits)[i - 1] <=> bits[i] = 1
  <2>1. i - 1 \in 1..Len(bits) /\ i - 1 \in Nat /\ 1..i = 1..(i - 1) \union {i}
    BY <1>1, <1>4
  <2>2. IsFiniteSet(zeros(i - 1)) /\ Cardinality(zeros(i - 1)) \in Nat
    <3>1. IsFiniteSet(1..(i - 1))
      BY <2>1, FS_Interval
    <3>2. IsFiniteSet(zeros(i - 1))
      BY <3>1, FS_Subset
    <3> QED BY <3>2, FS_CardinalityType
  <2>3. CASE bits[i] = 0
    <3>1. zeros(i) = zeros(i - 1) \union {i} /\ i \notin zeros(i - 1)
      BY <1>1, <2>1, <2>3
    <3>2. Cardinality(zeros(i)) = Cardinality(zeros(i - 1)) + 1
      BY <2>2, <3>1, FS_AddElement
    <3> HIDE DEF zeros
    <3>3. phase(i) # phase(i - 1)
      BY <2>2, <3>2
    <3> QED BY <1>2, <2>1, <2>3, <3>3
  <2>4. CASE bits[i] = 1
    <3>1. zeros(i) = zeros(i - 1)
      BY <1>1, <2>1, <2>4
    <3> HIDE DEF zeros
    <3>2. phase(i) = phase(i - 1)
      BY <3>1
    <3> QED BY <1>2, <2>1, <2>4, <3>2
  <2> QED BY <1>1, <2>3, <2>4
<1> QED BY <1>3, <1>4

\* The phases of a transmission, taken at carrier c.
LEMMA Phases ==
  ASSUME NEW text \in Seq(Characters), NEW c \in {1, -1}, NEW i \in 1..Total(text)
  PROVE  /\ c * ModulateText(text)[i] \in {1, -1}
         /\ i > 1 => (c * ModulateText(text)[i] = c * ModulateText(text)[i - 1]
                        <=> Bits(text)[i] = 1)
<1>1. Bits(text) \in Seq({0, 1}) /\ i \in 1..Len(Bits(text)) /\ Total(text) \in Nat
  BY Layout DEF Total
<1>2. ModulateText(text) = ModulateBits(Bits(text))
  BY DEF ModulateText, Bits, P
<1> DEFINE x == ModulateBits(Bits(text))[i]
           y == ModulateBits(Bits(text))[i - 1]
<1>3. x \in {1, -1} /\ (i > 1 => (x = y <=> Bits(text)[i] = 1))
  BY <1>1, Turns
<1>4. i > 1 => y \in {1, -1}
  <2>1. i > 1 => i - 1 \in 1..Len(Bits(text))
    BY <1>1 DEF Total
  <2> QED BY <1>1, <2>1, Turns
<1> HIDE DEF x, y
<1>5. c * x \in {1, -1} /\ (i > 1 => (c * x = c * y <=> x = y))
  <2>1. CASE c = 1
    BY <1>3, <1>4, <2>1
  <2>2. CASE c = -1
    BY <1>3, <1>4, <2>2
  <2> QED BY <2>1, <2>2
<1> QED BY <1>2, <1>3, <1>5 DEF x, y

-----------------------------------------------------------------------------
(* What the decoder makes of a bit.                                         *)

\* The bits held and one more, of which there can be too many.
Longer(accum, bit) == IF Len(accum) + 1 > MAX_ACCUM_BITS THEN <<>> ELSE Append(accum, bit)

\* A zero after a zero completes a character, any other bit is collected.
LEMMA DecodeCases ==
  ASSUME NEW accum \in Seq({0, 1}), NEW bit \in {0, 1}
  PROVE  /\ DecodeBit(accum, bit).accum \in Seq({0, 1})
         /\ DecodeBit(accum, bit).character \in Characters \union {NoCharacter}
         /\ Len(DecodeBit(accum, bit).accum) <= Len(accum) + 1
         /\ bit = 1 \/ accum = <<>> \/ Last(accum) # 0
              => /\ DecodeBit(accum, bit).accum = Longer(accum, bit)
                 /\ DecodeBit(accum, bit).character = NoCharacter
         /\ bit = 0 /\ accum # <<>> /\ Last(accum) = 0
              => /\ DecodeBit(accum, bit).accum = <<>>
                 /\ DecodeBit(accum, bit).character = LookupCodeword(Front(accum))
<1>1. /\ Append(accum, bit) \in Seq({0, 1}) /\ Len(Append(accum, bit)) = Len(accum) + 1
      /\ Len(accum) \in Nat /\ <<>> \in Seq({0, 1}) /\ Len(<<>>) = 0
  BY AppendProperties, LenProperties, EmptySeq
<1>2. \A word : LookupCodeword(word) \in Characters \union {NoCharacter}
  BY DEF LookupCodeword
<1>3. CASE bit = 0 /\ accum # <<>> /\ Last(accum) = 0
  BY <1>1, <1>2, <1>3 DEF DecodeBit
<1>4. CASE ~(bit = 0 /\ accum # <<>> /\ Last(accum) = 0)
  BY <1>1, <1>2, <1>4 DEF DecodeBit, Longer
<1> QED BY <1>3, <1>4

\* Appending to a tuple that is written out.
LEMMA AppendedPair ==
  ASSUME NEW x, NEW y
  PROVE  Append(<<>>, x) = <<x>> /\ Append(<<x>>, y) = <<x, y>>
<1>1. <<x>> \in Seq({x, y}) /\ Len(<<x>>) = 1 /\ <<x>>[1] = x
  OBVIOUS
<1>2. <<x, y>> \in Seq({x, y}) /\ Len(<<x, y>>) = 2 /\ <<x, y>>[1] = x /\ <<x, y>>[2] = y
  OBVIOUS
<1>3. /\ Append(<<x>>, y) \in Seq({x, y}) /\ Len(Append(<<x>>, y)) = 2
      /\ Append(<<x>>, y)[1] = x /\ Append(<<x>>, y)[2] = y
  BY <1>1, AppendProperties
<1>4. \A i \in 1..2 : i = 1 \/ i = 2
  OBVIOUS
<1>5. Append(<<x>>, y) = <<x, y>>
  BY <1>2, <1>3, <1>4, SeqEqual
<1> QED BY <1>5

\* A zero after what zeros may leave.
LEMMA JunkStaysJunk ==
  ASSUME NEW accum \in Junk
  PROVE  /\ accum \in Seq({0, 1}) /\ Len(accum) <= 2
         /\ DecodeBit(accum, 0).accum \in Junk
<1>1. CASE accum = <<>>
  <2>1. accum \in Seq({0, 1}) /\ Len(accum) = 0
    BY <1>1
  <2>2. DecodeBit(accum, 0).accum = Longer(accum, 0)
    BY <1>1, <2>1, DecodeCases
  <2>3. Append(accum, 0) = <<0>>
    BY <1>1
  <2>4. DecodeBit(accum, 0).accum \in {<<>>, <<0>>}
    BY <2>2, <2>3 DEF Longer
  <2> QED BY <2>1, <2>4 DEF Junk
<1>2. CASE accum = <<1>>
  <2>1. accum \in Seq({0, 1}) /\ Len(accum) = 1
    BY <1>2
  <2>2. Last(accum) = 1
    BY <1>2 DEF Last
  <2>3. DecodeBit(accum, 0).accum = Longer(accum, 0)
    BY <2>1, <2>2, DecodeCases
  <2>4. Append(accum, 0) = <<1, 0>>
    BY <1>2, AppendedPair
  <2>5. DecodeBit(accum, 0).accum \in {<<>>, <<1, 0>>}
    BY <2>3, <2>4 DEF Longer
  <2> QED BY <2>1, <2>5 DEF Junk
<1>3. CASE accum \in {<<0>>, <<1, 0>>}
  <2>1. accum \in Seq({0, 1}) /\ Len(accum) \in {1, 2}
    <3>1. <<0>> \in Seq({0, 1}) /\ Len(<<0>>) = 1
      OBVIOUS
    <3>2. <<1, 0>> \in Seq({0, 1}) /\ Len(<<1, 0>>) = 2
      OBVIOUS
    <3> QED BY <1>3, <3>1, <3>2
  <2>2. Last(accum) = 0
    BY <1>3 DEF Last
  <2>3. accum # <<>>
    BY <2>1, EmptySeq
  <2>4. DecodeBit(accum, 0).accum = <<>>
    BY <2>1, <2>2, <2>3, DecodeCases
  <2> QED BY <2>1, <2>4 DEF Junk
<1> QED BY <1>1, <1>2, <1>3 DEF Junk

\* A bit that is held, and is then the last.
LEMMA BitIsHeld ==
  ASSUME NEW accum \in Seq({0, 1}), NEW bit \in {0, 1}, Len(accum) + 1 <= MAX_ACCUM_BITS,
         bit = 1 \/ accum = <<>> \/ Last(accum) # 0
  PROVE  /\ DecodeBit(accum, bit).accum = Append(accum, bit)
         /\ DecodeBit(accum, bit).character = NoCharacter
         /\ Append(accum, bit) # <<>> /\ Last(Append(accum, bit)) = bit
         /\ Len(Append(accum, bit)) = Len(accum) + 1
<1>1. /\ Len(Append(accum, bit)) = Len(accum) + 1 /\ Len(accum) \in Nat
      /\ Append(accum, bit)[Len(accum) + 1] = bit
      /\ Append(accum, bit) \in Seq({0, 1})
  BY AppendProperties, LenProperties
<1>2. DecodeBit(accum, bit).accum = Longer(accum, bit)
      /\ DecodeBit(accum, bit).character = NoCharacter
  BY DecodeCases
<1>3. ~(Len(accum) + 1 > MAX_ACCUM_BITS)
  BY <1>1, VaricodeAssumption
<1>4. Append(accum, bit) # <<>>
  BY <1>1, EmptySeq
<1> QED BY <1>1, <1>2, <1>3, <1>4 DEF Longer, Last

\* The code word of a character is looked up as that character.
LEMMA CodeIsFound ==
  ASSUME NEW text \in Seq(Characters), NEW k \in 1..Len(text)
  PROVE  LookupCodeword(Code(text, k)) = text[k]
<1> DEFINE found == {c \in Characters : PSK31_VARICODE_TABLE[c] = PSK31_VARICODE_TABLE[text[k]]}
<1>1. text[k] \in Characters
  BY CodeFacts
<1>2. found = {text[k]}
  BY <1>1, VaricodeAssumption
<1> HIDE DEF found
<1>3. found # {} /\ (CHOOSE c \in found : TRUE) = text[k]
  BY <1>2
<1> QED BY <1>3 DEF LookupCodeword, Code, found

\* All of a character but its last bit, one bit more.
LEMMA ExactStep ==
  ASSUME NEW text \in Seq(Characters), NEW k \in 1..Len(text),
         NEW i \in 1..(Len(Code(text, k)) + 1)
  PROVE  LET w == Word(text, k)
             d == DecodeBit(SubSeq(w, 1, i - 1), w[i])
         IN  d.accum = SubSeq(w, 1, i) /\ d.character = NoCharacter
<1> DEFINE w == Word(text, k)
           n == Len(Code(text, k))
           accum == SubSeq(w, 1, i - 1)
<1>1. /\ w \in Seq({0, 1}) /\ n \in Nat \ {0} /\ n + 3 <= MAX_ACCUM_BITS /\ Len(w) = n + 2
      /\ \A j \in 1..n : w[j] = Code(text, k)[j]
      /\ w[1] = 1 /\ w[n] = 1 /\ MAX_ACCUM_BITS \in Nat
      /\ \A j \in 1..(n - 1) : w[j] + w[j + 1] > 0
  <2>1. /\ w \in Seq({0, 1}) /\ n \in Nat \ {0} /\ n + 3 <= MAX_ACCUM_BITS /\ Len(w) = n + 2
        /\ \A j \in 1..n : w[j] = Code(text, k)[j]
        /\ Code(text, k)[1] = 1 /\ Code(text, k)[n] = 1
        /\ \A j \in 1..(n - 1) : Code(text, k)[j] + Code(text, k)[j + 1] > 0
    BY CodeFacts
  <2>2. w[1] = 1 /\ w[n] = 1
    BY <2>1
  <2>3. \A j \in 1..(n - 1) : w[j] + w[j + 1] > 0
    BY <2>1
  <2> QED BY <2>1, <2>2, <2>3, VaricodeAssumption
<1> HIDE DEF w, n
<1>2. i \in 1..(n + 1) /\ w[i] \in {0, 1}
  BY <1>1, ElementOfSeq DEF n
<1>3. /\ accum \in Seq({0, 1}) /\ Len(accum) = i - 1 /\ \A j \in 1..(i - 1) : accum[j] = w[j]
      /\ SubSeq(w, 1, i) = Append(accum, w[i])
  <2>1. 1 \in 1..(Len(w) + 1) /\ i - 1 \in 0..Len(w) /\ i \in 1..Len(w) /\ 1 <= i
    BY <1>1, <1>2
  <2>2. /\ accum \in Seq({0, 1})
        /\ Len(accum) = IF 1 <= i - 1 THEN (i - 1) - 1 + 1 ELSE 0
        /\ \A j \in 1..((i - 1) - 1 + 1) : accum[j] = w[1 + j - 1]
    BY <1>1, <2>1, SubSeqProperties
  <2>3. Len(accum) = i - 1 /\ \A j \in 1..(i - 1) : accum[j] = w[j]
    BY <1>2, <2>2
  <2>4. SubSeq(w, 1, i) = Append(accum, w[i])
    BY <1>1, <2>1, SubSeqRecursiveSecond
  <2> QED BY <2>2, <2>3, <2>4
<1> HIDE DEF accum
<1>4. w[i] = 1 \/ accum = <<>> \/ Last(accum) # 0
  <2>1. CASE i = 1
    BY <1>1, <2>1
  <2>2. CASE i > 1
    <3>1. Last(accum) = w[i - 1]
      BY <1>2, <1>3, <2>2 DEF Last
    <3>2. CASE i = n + 1
      BY <1>1, <3>1, <3>2
    <3>3. CASE i # n + 1
      <4>1. i - 1 \in 1..(n - 1) /\ (i - 1) + 1 = i
        BY <1>1, <1>2, <2>2, <3>3
      <4>2. w[i - 1] + w[i] > 0
        BY <1>1, <4>1
      <4>3. w[i] = 0 => w[i - 1] # 0
        BY <4>2
      <4> QED BY <1>2, <3>1, <4>3
    <3> QED BY <3>2, <3>3
  <2> QED BY <1>2, <2>1, <2>2
<1>5. Len(accum) + 1 <= MAX_ACCUM_BITS
  BY <1>1, <1>2, <1>3
<1>6. DecodeBit(accum, w[i]).accum = Append(accum, w[i])
      /\ DecodeBit(accum, w[i]).character = NoCharacter
  BY <1>2, <1>3, <1>4, <1>5, BitIsHeld
<1> QED BY <1>3, <1>6 DEF w, accum

\* The bit that completes it.
LEMMA ExactEnd ==
  ASSUME NEW text \in Seq(Characters), NEW k \in 1..Len(text)
  PROVE  LET d == DecodeBit(SubSeq(Word(text, k), 1, Len(Code(text, k)) + 1), 0)
         IN  d.accum = <<>> /\ d.character = text[k]
<1> DEFINE w == Word(text, k)
           n == Len(Code(text, k))
           accum == SubSeq(w, 1, n + 1)
<1>1. /\ w \in Seq({0, 1}) /\ n \in Nat \ {0} /\ Len(w) = n + 2 /\ w[n + 1] = 0
      /\ \A j \in 1..n : w[j] = Code(text, k)[j]
      /\ Code(text, k) \in Seq({0, 1})
  BY CodeFacts
<1>2. /\ accum \in Seq({0, 1}) /\ Len(accum) = n + 1 /\ \A j \in 1..(n + 1) : accum[j] = w[j]
  <2>1. 1 \in 1..(Len(w) + 1) /\ n + 1 \in 0..Len(w)
    BY <1>1
  <2> HIDE DEF w, n
  <2>2. /\ accum \in Seq({0, 1})
        /\ Len(accum) = IF 1 <= n + 1 THEN (n + 1) - 1 + 1 ELSE 0
        /\ \A j \in 1..((n + 1) - 1 + 1) : accum[j] = w[1 + j - 1]
    BY <1>1, <2>1, SubSeqProperties
  <2> QED BY <1>1, <2>2
<1> HIDE DEF w, accum
<1>3. accum # <<>> /\ Last(accum) = 0
  <2>1. n + 1 \in 1..(n + 1) /\ n + 1 # 0
    BY <1>1
  <2>2. Last(accum) = 0
    BY <1>1, <1>2, <2>1 DEF Last
  <2>3. accum # <<>>
    BY <1>2, <2>1, EmptySeq
  <2> QED BY <2>2, <2>3
<1>4. Front(accum) = Code(text, k)
  <2>1. Front(accum) = SubSeq(accum, 1, n)
    BY <1>1, <1>2 DEF Front
  <2>2. 1 \in 1..(Len(accum) + 1) /\ n \in 0..Len(accum)
    BY <1>1, <1>2
  <2> HIDE DEF n
  <2>3. /\ SubSeq(accum, 1, n) \in Seq({0, 1})
        /\ Len(SubSeq(accum, 1, n)) = IF 1 <= n THEN n - 1 + 1 ELSE 0
        /\ \A j \in 1..(n - 1 + 1) : SubSeq(accum, 1, n)[j] = accum[1 + j - 1]
    BY <1>2, <2>2, SubSeqProperties
  <2>4. Len(SubSeq(accum, 1, n)) = n /\ \A j \in 1..n : SubSeq(accum, 1, n)[j] = Code(text, k)[j]
    <3>1. ASSUME NEW j \in 1..n PROVE SubSeq(accum, 1, n)[j] = Code(text, k)[j]
      BY <1>1, <1>2, <2>3
    <3> QED BY <1>1, <2>3, <3>1
  <2>5. Len(Code(text, k)) = n
    BY DEF n
  <2> QED BY <1>1, <2>1, <2>3, <2>4, <2>5, SeqEqual
<1>5. /\ DecodeBit(accum, 0).accum = <<>>
      /\ DecodeBit(accum, 0).character = LookupCodeword(Front(accum))
  BY <1>2, <1>3, DecodeCases
<1> QED BY <1>4, <1>5, CodeIsFound DEF w, accum

-----------------------------------------------------------------------------
(* One symbol is heard.                                                     *)

\* The bit a symbol is heard as, and what the decoder makes of it.
Bit(r, symbol) == IF symbol.phase = r.prev THEN 1 ELSE 0
Decoded(r, symbol) == DecodeBit(r.accum, Bit(r, symbol))

\* What hearing a symbol does to the receiver and shows, case by case.
LEMMA HearCases ==
  ASSUME NEW r \in Receivers, NEW symbol \in Symbol, NEW s \in Squelches
  PROVE  LET h == HearSymbol(r, symbol, s)
             d == Decoded(r, symbol)
         IN  /\ h.rx \in Receivers /\ h.rx.hadSignal = r.hadSignal
             /\ h.rx.prev = symbol.phase /\ h.rx.accum = d.accum
             /\ h.shown \in Characters \union {NoCharacter}
             /\ d.character = NoCharacter
                  => /\ h.rx.quality = r.quality + symbol.quality
                     /\ h.rx.bits = r.bits + 1 /\ h.shown = NoCharacter
             /\ d.character # NoCharacter
                  => /\ h.rx.quality = 0 /\ h.rx.bits = 0
                     /\ r.quality + symbol.quality >= s * (r.bits + 1)
                          => h.shown = d.character
<1> DEFINE d == Decoded(r, symbol)
           quality == r.quality + symbol.quality
           bits == r.bits + 1
           next == [r EXCEPT !.prev = symbol.phase, !.accum = d.accum]
           h == HearSymbol(r, symbol, s)
<1>1. /\ r.accum \in Seq({0, 1}) /\ Bit(r, symbol) \in {0, 1} /\ symbol.phase \in {1, -1}
      /\ quality \in Nat /\ bits \in Nat /\ s \in Nat /\ symbol.quality \in Nat
  <2>1. r.accum \in Seq({0, 1}) /\ r.quality \in Nat /\ r.bits \in Nat
    BY DEF Receivers
  <2>2. symbol.phase \in {1, -1} /\ symbol.quality \in Nat
    BY DEF Symbol
  <2>3. s \in Nat
    BY LoopbackAssumption
  <2> QED BY <2>1, <2>2, <2>3 DEF Bit
<1>2. d.accum \in Seq({0, 1}) /\ d.character \in Characters \union {NoCharacter}
  BY <1>1, DecodeCases DEF Decoded
<1>3. h = IF d.character = NoCharacter
          THEN [rx |-> [next EXCEPT !.quality = quality, !.bits = bits],
                shown |-> NoCharacter]
          ELSE [rx |-> [next EXCEPT !.quality = 0, !.bits = 0],
                shown |-> IF quality < s * bits THEN NoCharacter ELSE d.character]
  BY DEF HearSymbol, Decoded, Bit
<1> HIDE DEF d, h
<1>4. CASE d.character = NoCharacter
  <2>1. h = [rx |-> [next EXCEPT !.quality = quality, !.bits = bits], shown |-> NoCharacter]
    BY <1>3, <1>4
  <2>2. h.rx \in Receivers
    BY <1>1, <1>2, <2>1 DEF Receivers
  <2>3. /\ h.rx.hadSignal = r.hadSignal /\ h.rx.prev = symbol.phase /\ h.rx.accum = d.accum
        /\ h.rx.quality = quality /\ h.rx.bits = bits /\ h.shown = NoCharacter
    BY <2>1 DEF Receivers
  <2> QED BY <1>4, <2>2, <2>3 DEF d, h
<1>5. CASE d.character # NoCharacter
  <2>1. h = [rx |-> [next EXCEPT !.quality = 0, !.bits = 0],
             shown |-> IF quality < s * bits THEN NoCharacter ELSE d.character]
    BY <1>3, <1>5
  <2>2. h.rx \in Receivers
    BY <1>1, <1>2, <2>1 DEF Receivers
  <2>3. /\ h.rx.hadSignal = r.hadSignal /\ h.rx.prev = symbol.phase /\ h.rx.accum = d.accum
        /\ h.rx.quality = 0 /\ h.rx.bits = 0
        /\ h.shown = IF quality < s * bits THEN NoCharacter ELSE d.character
    BY <2>1 DEF Receivers
  <2>4. s * bits \in Int
    BY <1>1
  <2>5. quality >= s * bits => ~(quality < s * bits)
    BY <1>1, <2>4
  <2> QED BY <1>2, <1>5, <2>2, <2>3, <2>5 DEF d, h
<1> QED BY <1>4, <1>5

\* A symbol of a transmission, and what is known when it is heard.
Hears(text, c, s, p, r, f, shown, symbol) ==
  /\ text \in Seq(Characters) /\ c \in {1, -1} /\ s \in Squelches /\ p \in Int
  /\ Good(text, c, s, p, r, f, shown)
  /\ p < Total(text) /\ r.hadSignal
  /\ IsSent(text, c, p + 1, symbol)

\* What follows for the types and the bit, as the lemmas use it.
LEMMA HearsFacts ==
  ASSUME NEW text, NEW c, NEW s, NEW p, NEW r, NEW f, NEW shown, NEW symbol,
         Hears(text, c, s, p, r, f, shown, symbol)
  PROVE  /\ text \in Seq(Characters) /\ s \in Squelches /\ s \in 0..100 /\ p \in Int
         /\ r \in Receivers /\ symbol \in Symbol /\ r.accum \in Seq({0, 1})
         /\ Bit(r, symbol) \in {0, 1} /\ Len(text) \in Nat
         /\ After(f) \in Nat /\ f.first \in Nat /\ f.first <= After(f)
         /\ P \in Nat /\ P >= 3 /\ Total(text) \in Nat
         /\ p >= 0 => After(f) = p + 1 \/ After(f) <= p
         /\ p >= 0 /\ After(f) = p + 1 => Idle(r)
         /\ p >= 1 /\ After(f) <= p => Bit(r, symbol) = Bits(text)[p + 1]
<1> USE DEF Hears, Good, IsSent
<1>1. /\ text \in Seq(Characters) /\ s \in Squelches /\ s \in 0..100 /\ p \in Int
      /\ r \in Receivers /\ symbol \in Symbol /\ r.accum \in Seq({0, 1})
      /\ Bit(r, symbol) \in {0, 1} /\ c \in {1, -1}
  BY LoopbackAssumption DEF Typed, Receivers, Bit
<1>2. P \in Nat /\ P >= 3
  BY PreambleAssumption DEF P
<1>3. Len(text) \in Nat /\ Total(text) \in Nat
  BY <1>1, Layout, LenProperties
<1>4. After(f) \in Nat /\ f.first \in Nat /\ f.first <= After(f)
  BY DEF Typed, Fades, After
<1>5. p >= 0 => After(f) = p + 1 \/ After(f) <= p
  <2>1. After(f) <= p + 1 \/ f = NoFade
    BY DEF Typed
  <2>2. f = NoFade => After(f) = 0
    BY DEF NoFade, After
  <2> QED BY <1>1, <1>4, <2>1, <2>2
<1>6. p >= 0 /\ After(f) = p + 1 => Idle(r)
  BY DEF Typed
<1>7. ASSUME p >= 1, After(f) <= p PROVE Bit(r, symbol) = Bits(text)[p + 1]
  <2>1. p \in 1..(Total(text) - 1) /\ p + 1 \in 1..Total(text) /\ p + 1 > 1 /\ (p + 1) - 1 = p
    BY <1>1, <1>3, <1>7
  <2>2. r.prev = c * ModulateText(text)[p]
    BY <1>7, <2>1 DEF Locked
  <2>3. symbol.phase = c * ModulateText(text)[p + 1]
    BY <1>1, <1>7
  <2>4. c * ModulateText(text)[p + 1] = c * ModulateText(text)[p] <=> Bits(text)[p + 1] = 1
    BY <1>1, <2>1, Phases
  <2>5. Bits(text)[p + 1] \in {0, 1}
    BY <1>1, <2>1, Layout, ElementOfSeq DEF Total
  <2> QED BY <2>2, <2>3, <2>4, <2>5 DEF Bit
<1> QED BY <1>1, <1>2, <1>3, <1>4, <1>5, <1>6, <1>7

\* After a fade the first bit is alone, and may be anything.
LEMMA FirstBit ==
  ASSUME NEW r, Idle(r), NEW bit \in {0, 1}
  PROVE  /\ DecodeBit(r.accum, bit).accum \in Junk /\ Len(DecodeBit(r.accum, bit).accum) <= 1
<1>1. <<>> \in Seq({0, 1}) /\ Len(<<>>) = 0 /\ Append(<<>>, bit) = <<bit>>
      /\ Len(<<bit>>) <= 1 /\ Len(<<>>) <= 1
  OBVIOUS
<1>2. DecodeBit(<<>>, bit).accum \in {<<>>, <<bit>>}
  <2>1. DecodeBit(<<>>, bit).accum = Longer(<<>>, bit)
    BY <1>1, DecodeCases
  <2> QED BY <1>1, <2>1 DEF Longer
<1>3. <<bit>> \in Junk /\ <<>> \in Junk
  BY DEF Junk
<1>4. DecodeBit(<<>>, bit).accum \in Junk /\ Len(DecodeBit(<<>>, bit).accum) <= 1
  <2>1. CASE DecodeBit(<<>>, bit).accum = <<>>
    BY <1>1, <1>3, <2>1
  <2>2. CASE DecodeBit(<<>>, bit).accum = <<bit>>
    BY <1>1, <1>3, <2>2
  <2> QED BY <1>2, <2>1, <2>2
<1> QED BY <1>4 DEF Idle

\* The zeros of the preamble clear the receiver.
LEMMA HearPreamble ==
  ASSUME NEW text, NEW c, NEW s, NEW p, NEW r, NEW f, NEW shown, NEW symbol,
         Hears(text, c, s, p, r, f, shown, symbol)
  PROVE  Zeroed(p + 1, HearSymbol(r, symbol, s).rx)
<1> DEFINE next == HearSymbol(r, symbol, s).rx
<1>1. next.accum = DecodeBit(r.accum, Bit(r, symbol)).accum
  BY HearsFacts, HearCases DEF Decoded
<1>2. /\ p \in Int /\ P \in Nat /\ P >= 3 /\ text \in Seq(Characters)
      /\ r.accum \in Seq({0, 1}) /\ Bit(r, symbol) \in {0, 1} /\ After(f) \in Nat
  BY HearsFacts
<1>3. Zeroed(p, r)
  BY DEF Hears, Good
<1> HIDE DEF next
<1>4. SUFFICES ASSUME p + 1 = 2 \/ p + 1 \in 3..P
               PROVE  IF p + 1 = 2 THEN next.accum \in Junk \/ EndsWith(next, 0)
                                   ELSE next.accum \in Junk
  BY <1>2 DEF Zeroed, next
<1>5. CASE After(f) = p + 1
  <2>1. Idle(r)
    BY <1>2, <1>4, <1>5, HearsFacts
  <2>2. next.accum \in Junk
    BY <1>1, <1>2, <2>1, FirstBit
  <2> QED BY <2>2
<1>6. CASE After(f) <= p
  <2>1. Bit(r, symbol) = 0
    <3>1. p >= 1 /\ p + 1 \in 1..P
      BY <1>2, <1>4
    <3>2. Bit(r, symbol) = Bits(text)[p + 1]
      BY <1>6, <3>1, HearsFacts
    <3> QED BY <1>2, <3>1, <3>2, Layout
  <2>2. next.accum = DecodeBit(r.accum, 0).accum
    BY <1>1, <2>1
  <2>3. CASE EndsWith(r, 0)
    <3>1. next.accum = <<>>
      BY <1>2, <2>2, <2>3, DecodeCases DEF EndsWith
    <3> QED BY <3>1 DEF Junk
  <2>4. CASE r.accum \in Junk
    <3>1. next.accum \in Junk
      BY <2>2, <2>4, JunkStaysJunk
    <3> QED BY <3>1
  <2>5. CASE p = 1 /\ ~EndsWith(r, 0)
    <3>1. next.accum = Longer(r.accum, 0)
      BY <1>2, <2>2, <2>5, DecodeCases DEF EndsWith
    <3>2. CASE next.accum = <<>>
      BY <3>2 DEF Junk
    <3>3. CASE next.accum = Append(r.accum, 0)
      <4>1. /\ Append(r.accum, 0) \in Seq({0, 1}) /\ Len(Append(r.accum, 0)) = Len(r.accum) + 1
            /\ Append(r.accum, 0)[Len(r.accum) + 1] = 0 /\ Len(r.accum) \in Nat
        BY <1>2, AppendProperties, LenProperties
      <4>2. EndsWith(next, 0)
        BY <3>3, <4>1, EmptySeq DEF EndsWith, Last
      <4> QED BY <1>2, <2>5, <4>2
    <3> QED BY <3>1, <3>2, <3>3 DEF Longer
  <2>6. p = 1 \/ r.accum \in Junk \/ EndsWith(r, 0)
    BY <1>2, <1>3, <1>4 DEF Zeroed
  <2> QED BY <2>3, <2>4, <2>5, <2>6
<1>7. After(f) = p + 1 \/ After(f) <= p
  BY <1>2, <1>4, HearsFacts
<1> QED BY <1>5, <1>6, <1>7

\* Within a character, what ends as it should goes on to.
LEMMA DelimitedStep ==
  ASSUME NEW text \in Seq(Characters), NEW k \in 1..Len(text),
         NEW i \in 1..(Len(Code(text, k)) + 1), NEW r, NEW next, r.accum \in Seq({0, 1}),
         next.accum = DecodeBit(r.accum, Word(text, k)[i]).accum
  PROVE  /\ Delimited(text, k, i - 1, r) => Delimited(text, k, i, next)
         /\ r.accum \in Junk => next.accum \in Junk \/ Delimited(text, k, i, next)
<1> DEFINE n == Len(Code(text, k))
           bit == Word(text, k)[i]
<1>1. /\ n \in Nat \ {0} /\ n + 3 <= MAX_ACCUM_BITS /\ MAX_ACCUM_BITS \in Nat
      /\ bit \in {0, 1} /\ (i = n => bit = 1) /\ (i = n + 1 => bit = 0)
  <2>1. /\ n \in Nat \ {0} /\ n + 3 <= MAX_ACCUM_BITS /\ Word(text, k) \in Seq({0, 1})
        /\ Len(Word(text, k)) = n + 2 /\ Word(text, k)[n + 1] = 0
        /\ Word(text, k)[n] = Code(text, k)[n] /\ Code(text, k)[n] = 1
    BY CodeFacts
  <2>2. i \in 1..Len(Word(text, k))
    BY <2>1
  <2>3. bit \in {0, 1}
    BY <2>1, <2>2, ElementOfSeq
  <2> QED BY <2>1, <2>3, VaricodeAssumption
<1> HIDE DEF bit
<1>2. /\ Len(r.accum) \in Nat /\ Len(next.accum) <= Len(r.accum) + 1
      /\ next.accum \in Seq({0, 1}) /\ Len(next.accum) \in Nat
  <2>1. next.accum = DecodeBit(r.accum, bit).accum
    BY DEF bit
  <2> QED BY <1>1, <2>1, DecodeCases, LenProperties
<1>3. ASSUME bit = 1 \/ r.accum = <<>> \/ Last(r.accum) # 0, Len(r.accum) + 1 <= MAX_ACCUM_BITS
      PROVE  EndsWith(next, bit)
  <2>1. next.accum = DecodeBit(r.accum, bit).accum
    BY DEF bit
  <2>2. next.accum = Append(r.accum, bit) /\ Append(r.accum, bit) # <<>>
        /\ Last(Append(r.accum, bit)) = bit
    BY <1>1, <1>3, <2>1, BitIsHeld
  <2> QED BY <2>2 DEF EndsWith
<1>4. i \in 1..(n + 1)
  OBVIOUS
<1> HIDE DEF n
<1>5. ASSUME Delimited(text, k, i - 1, r) PROVE Delimited(text, k, i, next)
  <2>1. /\ Len(r.accum) <= (i - 1) + 2
        /\ i - 1 = n => EndsWith(r, 1)
    BY <1>5 DEF Delimited, n
  <2>2. Len(next.accum) <= i + 2 /\ Len(r.accum) + 1 <= MAX_ACCUM_BITS
    BY <1>1, <1>2, <1>4, <2>1
  <2>3. i = n => EndsWith(next, 1)
    BY <1>1, <1>3, <2>2
  <2>4. ASSUME i = n + 1 PROVE EndsWith(next, 0)
    <3>1. EndsWith(r, 1)
      BY <1>1, <2>1, <2>4
    <3>2. Last(r.accum) # 0
      BY <3>1 DEF EndsWith
    <3> QED BY <1>1, <1>3, <2>2, <2>4, <3>2
  <2> QED BY <2>2, <2>3, <2>4 DEF Delimited, n
<1>6. ASSUME r.accum \in Junk PROVE next.accum \in Junk \/ Delimited(text, k, i, next)
  <2>1. Len(r.accum) <= 2
    BY <1>6, JunkStaysJunk
  <2>2. CASE bit = 0
    <3>1. next.accum = DecodeBit(r.accum, 0).accum
      BY <2>2 DEF bit
    <3> QED BY <1>6, <3>1, JunkStaysJunk
  <2>3. CASE bit = 1
    <3>1. Len(next.accum) <= i + 2 /\ Len(r.accum) + 1 <= MAX_ACCUM_BITS /\ i # n + 1
      BY <1>1, <1>2, <1>4, <2>1, <2>3
    <3>2. EndsWith(next, 1)
      BY <1>3, <2>3, <3>1
    <3> QED BY <3>1, <3>2 DEF Delimited, n
  <2> QED BY <1>1, <2>2, <2>3
<1> QED BY <1>5, <1>6

\* Where a position is in the character it is in.
LEMMA Within ==
  ASSUME NEW text \in Seq(Characters), NEW k \in 1..Len(text), NEW p \in Int,
         p \in End(text, k - 1)..(End(text, k) - 1)
  PROVE  /\ k - 1 \in 0..Len(text) /\ End(text, k - 1) \in Nat /\ End(text, k - 1) >= P
         /\ End(text, k) = End(text, k - 1) + Len(Code(text, k)) + 2
         /\ p \in Nat /\ p >= P /\ p - End(text, k - 1) \in 0..(Len(Code(text, k)) + 1)
         /\ (p - End(text, k - 1)) + 1 \in 1..(Len(Code(text, k)) + 2)
         /\ Bits(text)[p + 1] = Word(text, k)[(p - End(text, k - 1)) + 1]
<1> DEFINE i == p - End(text, k - 1)
<1>1. Len(text) \in Nat /\ P \in Nat
  BY LenProperties, PreambleAssumption DEF P
<1>2. k - 1 \in 0..Len(text) /\ 0 \in 0..Len(text) /\ 0 <= k - 1
  BY <1>1
<1>3. End(text, k - 1) \in Nat /\ End(text, k - 1) >= P
  BY <1>2, Ends
<1>4. End(text, k) = End(text, k - 1) + Len(Code(text, k)) + 2
      /\ Len(Code(text, k)) \in Nat /\ Len(Word(text, k)) = Len(Code(text, k)) + 2
  BY Ends, CodeFacts
<1>5. p \in Nat /\ p >= P /\ i \in 0..(Len(Code(text, k)) + 1)
      /\ i + 1 \in 1..(Len(Code(text, k)) + 2)
  BY <1>1, <1>3, <1>4
<1>6. Bits(text)[End(text, k - 1) + (i + 1)] = Word(text, k)[i + 1]
  BY <1>4, <1>5, Layout
<1>7. End(text, k - 1) + (i + 1) = p + 1
  BY <1>3, <1>5
<1> QED BY <1>2, <1>3, <1>4, <1>5, <1>6, <1>7

\* The bits of the characters are collected.
LEMMA HearBits ==
  ASSUME NEW text, NEW c, NEW s, NEW p, NEW r, NEW f, NEW shown, NEW symbol,
         Hears(text, c, s, p, r, f, shown, symbol)
  PROVE  Collected(text, p + 1, HearSymbol(r, symbol, s).rx, f)
<1> DEFINE next == HearSymbol(r, symbol, s).rx
           bit == Bit(r, symbol)
<1>1. next.accum = DecodeBit(r.accum, bit).accum
  BY HearsFacts, HearCases DEF Decoded
<1>2. /\ text \in Seq(Characters) /\ p \in Int /\ P \in Nat /\ P >= 3
      /\ r.accum \in Seq({0, 1}) /\ bit \in {0, 1} /\ After(f) \in Nat /\ Len(text) \in Nat
  BY HearsFacts
<1>3. Collected(text, p, r, f) /\ Zeroed(p + 1, next)
  BY HearPreamble DEF Hears, Good
<1> HIDE DEF next, bit
<1>4. SUFFICES ASSUME NEW k \in 1..Len(text),
                      p + 1 \in End(text, k - 1)..(End(text, k) - 1)
               PROVE  LET i == (p + 1) - End(text, k - 1)
                      IN  /\ next.accum \in Junk \/ Delimited(text, k, i, next)
                          /\ After(f) <= End(text, k - 1) => Delimited(text, k, i, next)
                          /\ k > 1 /\ After(f) <= End(text, k - 2) => Exact(text, k, i, next)
  BY DEF Collected, next
<1>5. p >= 2 /\ (After(f) = p + 1 \/ After(f) <= p)
  <2>1. p + 1 \in Int
    BY <1>2
  <2>2. p + 1 >= P
    BY <1>2, <1>4, <2>1, Within
  <2> QED BY <1>2, <2>2, HearsFacts
<1>6. ASSUME After(f) = p + 1
      PROVE  next.accum \in Junk /\ Len(next.accum) <= 1
  <2>1. Idle(r)
    BY <1>5, <1>6, HearsFacts
  <2> QED BY <1>1, <1>2, <2>1, FirstBit
<1>7. ASSUME After(f) <= p PROVE bit = Bits(text)[p + 1]
  BY <1>5, <1>7, HearsFacts DEF bit
<1>8. CASE p + 1 = End(text, k - 1)
  \* A character ends with the symbol, or the preamble does.
  <2>1. next.accum \in Junk
        /\ (k > 1 /\ After(f) <= End(text, k - 2) => next.accum = <<>>)
    <3>1. CASE k = 1
      <4>1. p + 1 \in 3..P
        BY <1>2, <1>5, <1>8, <3>1, Ends
      <4> QED BY <1>3, <3>1, <4>1 DEF Zeroed
    <3>2. CASE k > 1
      <4> DEFINE j == k - 1
                 n == Len(Code(text, j))
      <4>1. j \in 1..Len(text) /\ k - 2 = j - 1
        BY <1>2, <3>2
      <4>2. /\ End(text, j) = End(text, j - 1) + n + 2 /\ n \in Nat
            /\ End(text, j - 1) \in Nat
        BY <1>2, <4>1, Ends, CodeFacts
      <4>3. p \in End(text, j - 1)..(End(text, j) - 1) /\ p - End(text, j - 1) = n + 1
        BY <1>2, <1>8, <4>2
      <4>4. /\ r.accum \in Junk \/ Delimited(text, j, n + 1, r)
            /\ After(f) <= End(text, j - 1) => Delimited(text, j, n + 1, r)
        BY <1>3, <4>1, <4>3 DEF Collected
      <4>5. Bits(text)[p + 1] = 0
        <5>1. Bits(text)[p + 1] = Word(text, j)[(n + 1) + 1]
          <6>1. Bits(text)[p + 1] = Word(text, j)[(p - End(text, j - 1)) + 1]
            BY <1>2, <4>1, <4>3, Within
          <6> QED BY <4>3, <6>1
        <5>2. Word(text, j)[n + 2] = 0 /\ (n + 1) + 1 = n + 2
          BY <1>2, <4>1, <4>2, CodeFacts
        <5> QED BY <5>1, <5>2
      <4>6. ASSUME Delimited(text, j, n + 1, r), After(f) <= p
            PROVE  next.accum = <<>>
        <5>1. r.accum # <<>> /\ Last(r.accum) = 0
          BY <4>2, <4>6 DEF Delimited, EndsWith
        <5>2. bit = 0
          BY <1>7, <4>5, <4>6
        <5> QED BY <1>1, <1>2, <5>1, <5>2, DecodeCases
      <4>7. After(f) <= p => next.accum \in Junk
        <5>1. ASSUME After(f) <= p, r.accum \in Junk PROVE next.accum \in Junk
          <6>1. bit = 0
            BY <1>7, <4>5, <5>1
          <6> QED BY <1>1, <5>1, <6>1, JunkStaysJunk
        <5>2. <<>> \in Junk
          BY DEF Junk
        <5> QED BY <4>4, <4>6, <5>1, <5>2
      <4>8. After(f) <= End(text, j - 1) => After(f) <= p
        BY <1>2, <4>2, <4>3
      <4>9. End(text, k - 2) = End(text, j - 1)
        BY <4>1
      <4> QED BY <1>5, <1>6, <4>4, <4>6, <4>7, <4>8, <4>9
    <3> QED BY <3>1, <3>2
  <2>2. (p + 1) - End(text, k - 1) = 0
    BY <1>2, <1>8
  <2>3. Delimited(text, k, 0, next)
    <3>1. Len(next.accum) <= 2 /\ Len(Code(text, k)) \in Nat \ {0}
      BY <1>2, <2>1, JunkStaysJunk, CodeFacts
    <3> QED BY <3>1 DEF Delimited
  <2>4. k > 1 /\ After(f) <= End(text, k - 2) => Exact(text, k, 0, next)
    <3>1. SubSeq(Word(text, k), 1, 0) = <<>>
      BY SubSeqEmpty
    <3> QED BY <2>1, <3>1 DEF Exact
  <2> QED BY <2>1, <2>2, <2>3, <2>4
<1>9. CASE p + 1 # End(text, k - 1)
  <2> DEFINE i == (p + 1) - End(text, k - 1)
             n == Len(Code(text, k))
  <2>1. /\ End(text, k - 1) \in Nat /\ n \in Nat
        /\ End(text, k) = End(text, k - 1) + n + 2
    BY <1>2, <1>4, Within, CodeFacts
  <2>2. /\ p \in End(text, k - 1)..(End(text, k) - 1)
        /\ p - End(text, k - 1) = i - 1 /\ i \in 1..(n + 1)
    BY <1>2, <1>4, <1>9, <2>1
  <2>3. /\ r.accum \in Junk \/ Delimited(text, k, i - 1, r)
        /\ After(f) <= End(text, k - 1) => Delimited(text, k, i - 1, r)
        /\ k > 1 /\ After(f) <= End(text, k - 2) => Exact(text, k, i - 1, r)
    BY <1>3, <2>2 DEF Collected
  <2>4. Bits(text)[p + 1] = Word(text, k)[i]
    <3>1. (p - End(text, k - 1)) + 1 = i
      BY <1>2, <2>1
    <3> QED BY <1>2, <2>2, <3>1, Within
  <2>5. CASE After(f) = p + 1
    <3>1. ~(After(f) <= End(text, k - 1)) /\ (k > 1 => ~(After(f) <= End(text, k - 2)))
      <4>1. k > 1 => k - 2 \in 0..Len(text) /\ k - 1 \in 0..Len(text) /\ k - 2 <= k - 1
        BY <1>2
      <4>2. k > 1 => End(text, k - 2) <= End(text, k - 1) /\ End(text, k - 2) \in Nat
        BY <1>2, <4>1, Ends
      <4> QED BY <1>2, <2>1, <2>2, <2>5, <4>2
    <3> QED BY <1>6, <2>5, <3>1
  <2>6. CASE After(f) <= p
    <3>1. next.accum = DecodeBit(r.accum, Word(text, k)[i]).accum
      BY <1>1, <1>7, <2>4, <2>6
    <3> HIDE DEF i
    <3>2. /\ Delimited(text, k, i - 1, r) => Delimited(text, k, i, next)
          /\ r.accum \in Junk => next.accum \in Junk \/ Delimited(text, k, i, next)
      BY <1>2, <2>2, <3>1, DelimitedStep
    <3>3. Exact(text, k, i - 1, r) => Exact(text, k, i, next)
      BY <1>2, <2>2, <3>1, ExactStep DEF Exact
    <3>4. /\ next.accum \in Junk \/ Delimited(text, k, i, next)
          /\ After(f) <= End(text, k - 1) => Delimited(text, k, i, next)
          /\ k > 1 /\ After(f) <= End(text, k - 2) => Exact(text, k, i, next)
      BY <2>3, <3>2, <3>3
    <3> QED BY <3>4 DEF i
  <2> QED BY <1>5, <2>5, <2>6
<1> QED BY <1>8, <1>9

\* The average that a character is judged by stays good enough.
LEMMA SlackSteps ==
  ASSUME NEW s \in 0..100, NEW p \in Int, 0 <= Slack(s, p)
  PROVE  /\ Slack(s, p) \in Int /\ Slack(s, p + 1) \in Int /\ 0 <= Slack(s, p + 1)
         /\ p + 1 < 1 => Slack(s, p) + s <= Slack(s, p + 1)
         /\ p + 1 >= 1 => Slack(s, p) + (s - 100) <= Slack(s, p + 1)
         /\ p >= P => Slack(s, p) = 0
<1> DEFINE a == 100 - s
<1>1. P \in Nat /\ P >= 3 /\ a \in Nat /\ a = 100 - s /\ s \in Nat
  BY PreambleAssumption DEF P
<1> HIDE DEF a
<1>2. CASE p < 0
  <2>1. s * (p + 1) = s * p + s /\ s * p \in Int /\ a * P \in Nat /\ s * (p + 1) \in Int
    BY <1>1
  <2>2. Slack(s, p) = a * P + s * p
    BY <1>1, <1>2 DEF Slack
  <2>3. Slack(s, p + 1) = a * P + s * (p + 1)
    <3>1. CASE p + 1 < 0
      BY <1>1, <3>1 DEF Slack
    <3>2. CASE p + 1 = 0
      <4>1. Slack(s, 0) = (100 - s) * (P - 0)
        BY <1>1 DEF Slack
      <4>2. P - 0 = P /\ s * 0 = 0
        BY <1>1
      <4> QED BY <1>1, <2>1, <3>2, <4>1, <4>2
    <3> QED BY <1>2, <3>1, <3>2
  <2> QED BY <1>1, <1>2, <2>1, <2>2, <2>3
<1>3. CASE p >= 0 /\ p < P
  <2>1. /\ a * (P - p) = a * (P - (p + 1)) + a /\ a * (P - p) \in Int
        /\ P - (p + 1) \in Nat /\ a * (P - (p + 1)) \in Nat
    BY <1>1, <1>3
  <2>2. Slack(s, p) = a * (P - p) /\ Slack(s, p + 1) = a * (P - (p + 1))
    BY <1>1, <1>3 DEF Slack
  <2> QED BY <1>1, <1>3, <2>1, <2>2
<1>4. CASE p >= P
  <2>1. Slack(s, p + 1) = 0
    BY <1>1, <1>4 DEF Slack
  <2>2. Slack(s, p) = 0
    <3>1. CASE p > P
      BY <1>1, <3>1 DEF Slack
    <3>2. CASE p = P
      <4>1. P - P = 0 /\ (100 - s) * 0 = 0
        BY <1>1
      <4> QED BY <1>1, <3>2, <4>1 DEF Slack
    <3> QED BY <1>1, <1>4, <3>1, <3>2
  <2> QED BY <1>1, <1>4, <2>1, <2>2
<1> QED BY <1>1, <1>2, <1>3, <1>4

\* The symbol keeps it so, and after the preamble the average passes.
LEMMA HearQuality ==
  ASSUME NEW text, NEW c, NEW s, NEW p, NEW r, NEW f, NEW shown, NEW symbol,
         Hears(text, c, s, p, r, f, shown, symbol)
  PROVE  /\ Clear(s, p + 1, HearSymbol(r, symbol, s).rx)
         /\ p >= P => r.quality + symbol.quality >= s * (r.bits + 1)
<1> DEFINE next == HearSymbol(r, symbol, s).rx
<1>1. /\ p \in Int /\ s \in 0..100 /\ s \in Squelches /\ r \in Receivers /\ symbol \in Symbol
      /\ P \in Nat
  BY HearsFacts
<1>2. /\ r.quality \in Nat /\ r.bits \in Nat /\ symbol.quality \in Nat
      /\ p + 1 >= 1 => symbol.quality = 100
  <2>1. r.quality \in Nat /\ r.bits \in Nat
    BY <1>1 DEF Receivers
  <2>2. symbol.quality \in Nat
    BY <1>1 DEF Symbol
  <2>3. p + 1 >= 1 => symbol.quality = 100
    BY DEF Hears, IsSent
  <2> QED BY <2>1, <2>2, <2>3
<1>3. 0 <= Slack(s, p) /\ s * r.bits - r.quality <= Slack(s, p)
  BY DEF Hears, Good, Clear
<1>4. /\ Slack(s, p) \in Int /\ Slack(s, p + 1) \in Int /\ 0 <= Slack(s, p + 1)
      /\ p + 1 < 1 => Slack(s, p) + s <= Slack(s, p + 1)
      /\ p + 1 >= 1 => Slack(s, p) + (s - 100) <= Slack(s, p + 1)
      /\ p >= P => Slack(s, p) = 0
  BY <1>1, <1>3, SlackSteps
<1>5. /\ s * (r.bits + 1) = s * r.bits + s /\ s * r.bits \in Int /\ s \in Int
      /\ s * (r.bits + 1) \in Int
  BY <1>1, <1>2
<1>6. s * (r.bits + 1) - (r.quality + symbol.quality) <= Slack(s, p + 1)
  BY <1>1, <1>2, <1>3, <1>4, <1>5
<1>7. Clear(s, p + 1, next)
  <2>1. \/ next.quality = r.quality + symbol.quality /\ next.bits = r.bits + 1
        \/ next.quality = 0 /\ next.bits = 0
    BY <1>1, HearCases
  <2>2. CASE next.quality = r.quality + symbol.quality /\ next.bits = r.bits + 1
    BY <1>4, <1>6, <2>2 DEF Clear
  <2>3. CASE next.quality = 0 /\ next.bits = 0
    <3>1. s * 0 - 0 = 0
      BY <1>1
    <3> QED BY <1>4, <2>3, <3>1 DEF Clear
  <2> QED BY <2>1, <2>2, <2>3
<1>8. p >= P => r.quality + symbol.quality >= s * (r.bits + 1)
  BY <1>1, <1>2, <1>3, <1>4, <1>5
<1> QED BY <1>7, <1>8

\* What is shown after the symbol: nothing is taken back, and a character
\* that the symbol completes is added.
LEMMA HearCharacter ==
  ASSUME NEW text, NEW c, NEW s, NEW p, NEW r, NEW f, NEW shown, NEW symbol, NEW more,
         Hears(text, c, s, p, r, f, shown, symbol), shown \subseteq more,
         LET character == HearSymbol(r, symbol, s).shown
         IN  character # NoCharacter => [character |-> character, at |-> symbol.at] \in more
  PROVE  Heard(text, p + 1, f, more)
<1>1. /\ text \in Seq(Characters) /\ p \in Int /\ s \in Squelches /\ P \in Nat /\ P >= 3
      /\ r \in Receivers /\ symbol \in Symbol /\ Len(text) \in Nat
      /\ After(f) \in Nat /\ f.first \in Nat /\ f.first <= After(f)
  BY HearsFacts
<1>2. Collected(text, p, r, f) /\ Heard(text, p, f, shown) /\ symbol.at = p + 1
  BY DEF Hears, Good, IsSent
<1> SUFFICES ASSUME NEW k \in 2..Len(text), End(text, k) <= p + 1,
                    f.first > End(text, k) \/ After(f) <= End(text, k - 2)
             PROVE  Shown(text, k) \in more
  BY DEF Heard
<1>3. CASE End(text, k) <= p
  BY <1>2, <1>3 DEF Heard
<1>4. CASE ~(End(text, k) <= p)
  <2> DEFINE n == Len(Code(text, k))
  <2>1. /\ k \in 1..Len(text) /\ k - 1 \in 0..Len(text) /\ k - 2 \in 0..Len(text)
        /\ k - 2 <= k - 1 /\ 0 \in 0..Len(text) /\ 0 <= k - 1 /\ k \in 0..Len(text)
    BY <1>1
  <2>2. /\ End(text, k) \in Nat /\ End(text, k - 1) \in Nat /\ End(text, k - 2) \in Nat
        /\ End(text, k - 1) >= P /\ End(text, k - 2) <= End(text, k - 1)
        /\ End(text, k) = End(text, k - 1) + n + 2 /\ n \in Nat
    BY <1>1, <2>1, Ends, CodeFacts
  <2>3. /\ p + 1 = End(text, k) /\ p \in End(text, k - 1)..(End(text, k) - 1)
        /\ p - End(text, k - 1) = n + 1 /\ p >= P /\ p >= 1
    BY <1>1, <1>4, <2>2
  <2>4. After(f) <= End(text, k - 2) /\ After(f) <= p
    <3>1. After(f) = p + 1 \/ After(f) <= p
      BY <1>1, <2>3, HearsFacts
    <3>2. ~(f.first > End(text, k))
      BY <1>1, <2>3, <3>1
    <3> QED BY <1>1, <2>2, <2>3, <3>2
  <2>5. r.accum = SubSeq(Word(text, k), 1, n + 1)
    <3>1. Exact(text, k, n + 1, r)
      BY <1>1, <1>2, <2>1, <2>3, <2>4 DEF Collected
    <3> QED BY <3>1 DEF Exact
  <2>6. Bit(r, symbol) = 0
    <3>1. Bits(text)[p + 1] = Word(text, k)[(p - End(text, k - 1)) + 1]
      BY <1>1, <2>1, <2>3, Within
    <3>2. Word(text, k)[n + 2] = 0 /\ (n + 1) + 1 = n + 2
      BY <1>1, <2>1, <2>2, CodeFacts
    <3>3. Bits(text)[p + 1] = 0
      BY <2>3, <3>1, <3>2
    <3> QED BY <2>3, <2>4, <3>3, HearsFacts
  <2>7. Decoded(r, symbol).character = text[k]
    BY <1>1, <2>1, <2>5, <2>6, ExactEnd DEF Decoded
  <2>8. text[k] # NoCharacter
    BY <1>1, <2>1, CodeFacts, VaricodeAssumption
  <2>9. HearSymbol(r, symbol, s).shown = text[k]
    <3>1. r.quality + symbol.quality >= s * (r.bits + 1)
      BY <2>3, HearQuality
    <3> QED BY <1>1, <2>7, <2>8, <3>1, HearCases
  <2> QED BY <1>2, <2>3, <2>8, <2>9 DEF Shown
<1> QED BY <1>3, <1>4

\* A symbol that is heard keeps the receiver right.
LEMMA HearStep ==
  ASSUME NEW text, NEW c, NEW s, NEW p, NEW r, NEW f, NEW shown, NEW symbol, NEW more,
         Hears(text, c, s, p, r, f, shown, symbol), shown \subseteq more,
         LET character == HearSymbol(r, symbol, s).shown
         IN  character # NoCharacter => [character |-> character, at |-> symbol.at] \in more
  PROVE  /\ Good(text, c, s, p + 1, HearSymbol(r, symbol, s).rx, f, more)
         /\ HearSymbol(r, symbol, s).rx.hadSignal
<1> DEFINE next == HearSymbol(r, symbol, s).rx
<1>1. /\ text \in Seq(Characters) /\ p \in Int /\ s \in Squelches /\ P \in Nat /\ P >= 3
      /\ r \in Receivers /\ symbol \in Symbol /\ r.hadSignal
      /\ After(f) \in Nat /\ Total(text) \in Nat /\ p < Total(text)
  BY HearsFacts DEF Hears
<1>2. next \in Receivers /\ next.hadSignal /\ next.prev = symbol.phase
  BY <1>1, HearCases
<1>3. Typed(text, p, r, f)
  BY DEF Hears, Good
<1> HIDE DEF next
<1>4. Typed(text, p + 1, next, f)
  <2>1. p + 1 <= Total(text) /\ f \in Fades /\ (f # NoFade => f.first >= 1)
    BY <1>1, <1>3 DEF Typed
  <2>2. After(f) <= p + 1 \/ f = NoFade
    BY <1>3 DEF Typed
  <2>3. After(f) <= (p + 1) + 1 \/ f = NoFade
    BY <1>1, <2>2
  <2>4. ~(p + 1 >= 0 /\ After(f) = (p + 1) + 1)
    <3>1. f = NoFade => After(f) = 0
      BY DEF NoFade, After
    <3> QED BY <1>1, <2>2, <3>1
  <2> QED BY <1>2, <2>1, <2>3, <2>4 DEF Typed
<1>5. Locked(text, c, p + 1, next, f)
  <2>1. p + 1 >= 1 => symbol.phase = c * ModulateText(text)[p + 1]
    BY DEF Hears, IsSent
  <2> QED BY <1>1, <1>2, <2>1 DEF Locked
<1> QED BY <1>2, <1>4, <1>5, HearQuality, HearPreamble, HearBits, HearCharacter DEF Good, next

-----------------------------------------------------------------------------
(* A symbol is not demodulated, or a chunk of them is.                      *)

\* The fade after one more symbol.
Extended(f, p) == [kind |-> "weak", length |-> f.length + 1,
                  first |-> IF f = NoFade THEN p + 1 ELSE f.first]

\* A symbol below the threshold keeps the receiver right.
LEMMA WeakStep ==
  ASSUME NEW text \in Seq(Characters), NEW c, NEW s \in Squelches, NEW p \in Nat, NEW r, NEW f,
         NEW shown, Good(text, c, s, p, r, f, shown), p < Total(text),
         f = NoFade \/ p + 1 = After(f)
  PROVE  /\ Good(text, c, s, p + 1, HearNothing(r), Extended(f, p), shown)
         /\ Extended(f, p) # NoFade /\ After(Extended(f, p)) = p + 2
<1> DEFINE next == HearNothing(r)
           g == Extended(f, p)
<1>1. /\ P \in Nat /\ P >= 3 /\ s \in 0..100 /\ Len(text) \in Nat /\ Total(text) \in Nat
  BY PreambleAssumption, LoopbackAssumption, Layout, LenProperties DEF P
<1>2. Typed(text, p, r, f) /\ Clear(s, p, r) /\ Heard(text, p, f, shown)
  BY DEF Good
<1>3. next \in Receivers /\ Idle(next)
  <2>1. NewPskRx \in Receivers /\ Idle(NewPskRx)
    <3>1. <<>> \in Seq({0, 1})
      BY EmptySeq
    <3> QED BY <3>1 DEF NewPskRx, Receivers, Idle
  <2> QED BY <1>2, <2>1 DEF HearNothing, Typed
<1>4. /\ g \in Fades /\ g # NoFade /\ g.first \in Nat /\ g.first >= 1
      /\ After(g) = p + 2 /\ g.first <= p + 1
      /\ g.first = IF f = NoFade THEN p + 1 ELSE f.first
  <2>1. f \in Fades /\ (f # NoFade => f.first >= 1)
    BY <1>2 DEF Typed
  <2>2. f.first \in Nat /\ f.length \in Nat
    BY <2>1 DEF Fades
  <2>3. /\ g.kind = "weak" /\ g.length = f.length + 1
        /\ g.first = IF f = NoFade THEN p + 1 ELSE f.first
    BY DEF Extended
  <2>4. g \in Fades
    BY <2>2 DEF Extended, Fades
  <2>5. g # NoFade
    BY <2>3 DEF NoFade
  <2>6. CASE f = NoFade
    <3>1. f.length = 0
      BY <2>6 DEF NoFade
    <3> QED BY <2>3, <2>4, <2>5, <2>6, <3>1 DEF After
  <2>7. CASE f # NoFade
    BY <2>1, <2>2, <2>3, <2>4, <2>5, <2>7 DEF After
  <2> QED BY <2>6, <2>7
<1> HIDE DEF next, g
<1>5. Typed(text, p + 1, next, g)
  BY <1>1, <1>3, <1>4 DEF Typed
<1>6. Clear(s, p + 1, next)
  <2>1. p \in Int /\ 0 <= Slack(s, p)
    BY <1>2 DEF Clear
  <2>3. 0 <= Slack(s, p + 1)
    BY <1>1, <2>1, SlackSteps
  <2>2. next.quality = 0 /\ next.bits = 0
    BY <1>3 DEF Idle
  <2>4. s * 0 - 0 = 0
    BY <1>1
  <2> QED BY <2>2, <2>3, <2>4 DEF Clear
<1>7. Locked(text, c, p + 1, next, g)
  BY <1>1, <1>4 DEF Locked
<1>8. next.accum \in Junk
  BY <1>3 DEF Idle, Junk
<1>9. Zeroed(p + 1, next)
  BY <1>8 DEF Zeroed
<1>10. Collected(text, p + 1, next, g)
  <2> SUFFICES ASSUME NEW k \in 1..Len(text), p + 1 \in End(text, k - 1)..(End(text, k) - 1)
               PROVE  /\ ~(After(g) <= End(text, k - 1))
                      /\ k > 1 => ~(After(g) <= End(text, k - 2))
    BY <1>8 DEF Collected
  <2>1. k - 1 \in 0..Len(text) /\ (k > 1 => k - 2 \in 0..Len(text) /\ k - 2 <= k - 1)
    BY <1>1
  <2>2. End(text, k - 1) \in Nat
        /\ (k > 1 => End(text, k - 2) \in Nat /\ End(text, k - 2) <= End(text, k - 1))
    BY <2>1, Ends
  <2> QED BY <1>4, <2>2
<1>11. Heard(text, p + 1, g, shown)
  <2> SUFFICES ASSUME NEW k \in 2..Len(text), End(text, k) <= p + 1,
                      g.first > End(text, k) \/ After(g) <= End(text, k - 2)
               PROVE  Shown(text, k) \in shown
    BY DEF Heard
  <2>1. k \in 0..Len(text) /\ k - 2 \in 0..Len(text) /\ k - 2 <= k
    BY <1>1
  <2>2. End(text, k) \in Nat /\ End(text, k - 2) \in Nat /\ End(text, k - 2) <= End(text, k)
    BY <2>1, Ends
  <2>3. g.first > End(text, k) /\ End(text, k) <= p
    BY <1>4, <2>2
  <2>4. f.first > End(text, k) \/ After(f) <= End(text, k - 2)
    <3>1. f = NoFade => After(f) = 0
      BY DEF NoFade, After
    <3> QED BY <1>4, <2>2, <2>3, <3>1
  <2> QED BY <1>2, <2>3, <2>4 DEF Heard
<1> QED BY <1>4, <1>5, <1>6, <1>7, <1>9, <1>10, <1>11 DEF Good, next, g

\* A chunk of one or two symbols, one after the other.
LEMMA Chunks ==
  ASSUME NEW r, NEW symbols, NEW s, Len(symbols) \in 1..2
  PROVE  LET one == HearSymbol([r EXCEPT !.hadSignal = TRUE], symbols[1], s)
             two == HearSymbol(one.rx, symbols[2], s)
         IN  HearSymbols(r, symbols, s) =
               IF Len(symbols) = 1 THEN [rx |-> one.rx, shown |-> <<one.shown>>]
               ELSE [rx |-> two.rx, shown |-> <<one.shown, two.shown>>]
<1> DEFINE N == Len(symbols)
           start == [rx |-> [r EXCEPT !.hadSignal = TRUE], shown |-> <<>>]
           Following(before, n) ==
             LET symbol == HearSymbol(before.rx, symbols[n], s)
             IN  [rx |-> symbol.rx, shown |-> Append(before.shown, symbol.shown)]
           Follows(h) == h = [n \in 0..N |-> IF n = 0 THEN start ELSE Following(h[n - 1], n)]
           upTo == CHOOSE h : Follows(h)
           first == Following(start, 1)
           second == Following(first, 2)
<1>1. \E h : Follows(h)
  <2> DEFINE h == [n \in 0..N |-> IF n = 0 THEN start ELSE IF n = 1 THEN first ELSE second]
  <2> HIDE DEF start, first, second, Following
  <2>1. ASSUME NEW n \in 0..N
        PROVE  h[n] = IF n = 0 THEN start ELSE Following(h[n - 1], n)
    <3>1. CASE n = 0
      BY <3>1
    <3>2. CASE n = 1
      <4>1. h[n - 1] = start /\ h[n] = first
        BY <3>2
      <4> QED BY <3>2, <4>1 DEF first
    <3>3. CASE n = 2
      <4>1. h[n - 1] = first /\ h[n] = second
        BY <3>3
      <4> QED BY <3>3, <4>1 DEF second
    <3> QED BY <3>1, <3>2, <3>3
  <2>2. Follows(h)
    BY <2>1
  <2> QED BY <2>2
<1>2. Follows(upTo)
  <2> HIDE DEF Follows
  <2> QED BY <1>1
<1>3. HearSymbols(r, symbols, s) = upTo[N]
  BY DEF HearSymbols
<1> HIDE DEF upTo
<1>4. upTo[0] = start /\ upTo[1] = first /\ (N = 2 => upTo[2] = second)
  <2> HIDE DEF start, Following
  <2>1. upTo[0] = start
    BY <1>2
  <2>2. upTo[1] = Following(upTo[0], 1)
    BY <1>2
  <2>3. N = 2 => upTo[2] = Following(upTo[1], 2)
    BY <1>2
  <2> QED BY <2>1, <2>2, <2>3
<1> DEFINE one == HearSymbol([r EXCEPT !.hadSignal = TRUE], symbols[1], s)
           two == HearSymbol(one.rx, symbols[2], s)
<1>5. first = [rx |-> one.rx, shown |-> <<one.shown>>]
  BY AppendedPair
<1>6. second = [rx |-> two.rx, shown |-> <<one.shown, two.shown>>]
  <2> HIDE DEF first, one
  <2>1. first.rx = one.rx /\ first.shown = <<one.shown>>
    BY <1>5
  <2>2. second = [rx |-> two.rx, shown |-> Append(<<one.shown>>, two.shown)]
    BY <2>1
  <2> QED BY <2>2, AppendedPair
<1> HIDE DEF first, second, one, two
<1>7. HearSymbols(r, symbols, s) = IF N = 1 THEN first ELSE second
  <2>1. N = 1 \/ N = 2
    OBVIOUS
  <2> HIDE DEF N
  <2> QED BY <1>3, <1>4, <2>1
<1> QED BY <1>5, <1>6, <1>7 DEF one, two

\* The events of a chunk: each character that is shown, at its symbol.
LEMMA ChunkEvents ==
  ASSUME NEW chunk \in Seq(Symbol), NEW shown \in Seq(Characters \union {NoCharacter}),
         Len(shown) = Len(chunk)
  PROVE  /\ Events(chunk, shown) \in Seq(Event)
         /\ \A i \in 1..Len(shown) :
              shown[i] # NoCharacter
                => [character |-> shown[i], at |-> chunk[i].at] \in ToSet(Events(chunk, shown))
<1> DEFINE N == Len(shown)
           all == [i \in DOMAIN shown |-> [character |-> shown[i], at |-> chunk[i].at]]
           X == {e \in ToSet(all) : e.character # NoCharacter}
<1>1. N \in Nat /\ DOMAIN shown = 1..N
      /\ \A i \in 1..N : shown[i] \in Characters \union {NoCharacter} /\ chunk[i] \in Symbol
  BY LenProperties, ElementOfSeq
<1>2. all \in Seq(Event)
  <2>1. \A i \in 1..N : [character |-> shown[i], at |-> chunk[i].at] \in Event
    BY <1>1 DEF Event, Symbol
  <2>2. all = [i \in 1..N |-> [character |-> shown[i], at |-> chunk[i].at]]
    BY <1>1
  <2> QED BY <1>1, <2>1, <2>2, IsASeq
<1>3. \A i \in 1..N : [character |-> shown[i], at |-> chunk[i].at] \in ToSet(all)
  BY <1>1 DEF ToSet
<1>4. Events(chunk, shown) = Kept(all, X)
  BY DEF Events
<1> HIDE DEF all, X
<1>5. Kept(all, X) \in Seq(Event) /\ ToSet(Kept(all, X)) = ToSet(all) \cap X
  BY <1>2, KeptRows
<1>6. \A i \in 1..N : shown[i] # NoCharacter
        => [character |-> shown[i], at |-> chunk[i].at] \in X
  BY <1>3 DEF X
<1> QED BY <1>3, <1>4, <1>5, <1>6

\* What is left of a transmission after a chunk.
LEMMA AfterChunk ==
  ASSUME NEW text \in Seq(Characters), NEW c, NEW p \in Int, NEW symbols,
         OnAir(text, c, p, symbols), NEW n \in 1..2, n <= Len(symbols)
  PROVE  /\ OnAir(text, c, p + n, SubSeq(symbols, n + 1, Len(symbols)))
         /\ SubSeq(symbols, 1, n) \in Seq(Symbol) /\ Len(SubSeq(symbols, 1, n)) = n
         /\ \A j \in 1..n : SubSeq(symbols, 1, n)[j] = symbols[j]
                            /\ IsSent(text, c, p + j, symbols[j])
         /\ p + n <= Total(text)
<1> DEFINE N == Len(symbols)
           rest == SubSeq(symbols, n + 1, N)
<1>1. /\ symbols \in Seq(Symbol) /\ N \in Nat /\ p + N = Total(text) /\ n <= N
      /\ \A j \in 1..N : symbols[j] \in Symbol /\ IsSent(text, c, p + j, symbols[j])
  BY LenProperties, ElementOfSeq DEF OnAir
<1> HIDE DEF N
<1>2. /\ rest \in Seq(Symbol) /\ Len(rest) = N - n
      /\ \A j \in 1..(N - n) : rest[j] = symbols[n + j]
  <2>1. \A i \in (n + 1)..N : symbols[i] \in Symbol
    BY <1>1
  <2>2. /\ rest \in Seq(Symbol)
        /\ Len(rest) = IF n + 1 <= N THEN N - (n + 1) + 1 ELSE 0
        /\ \A i \in 1..(N - (n + 1) + 1) : rest[i] = symbols[(n + 1) + i - 1]
    BY <1>1, <2>1, SubSeqProperties
  <2> HIDE DEF rest
  <2>3. Len(rest) = N - n /\ N - (n + 1) + 1 = N - n
        /\ \A i \in 1..(N - n) : (n + 1) + i - 1 = n + i
    BY <1>1, <2>2
  <2> QED BY <2>2, <2>3
<1>3. OnAir(text, c, p + n, rest)
  <2>1. (p + n) + Len(rest) = Total(text)
    BY <1>1, <1>2
  <2>2. ASSUME NEW j \in 1..Len(rest) PROVE IsSent(text, c, (p + n) + j, rest[j])
    <3>1. n + j \in 1..N /\ (p + n) + j = p + (n + j) /\ j \in 1..(N - n)
      BY <1>1, <1>2
    <3> QED BY <1>1, <1>2, <3>1
  <2> QED BY <1>2, <2>1, <2>2 DEF OnAir
<1>4. /\ SubSeq(symbols, 1, n) \in Seq(Symbol) /\ Len(SubSeq(symbols, 1, n)) = n
      /\ \A j \in 1..n : SubSeq(symbols, 1, n)[j] = symbols[j]
  <2>1. \A i \in 1..n : symbols[i] \in Symbol
    BY <1>1
  <2>2. /\ SubSeq(symbols, 1, n) \in Seq(Symbol)
        /\ Len(SubSeq(symbols, 1, n)) = IF 1 <= n THEN n - 1 + 1 ELSE 0
        /\ \A i \in 1..(n - 1 + 1) : SubSeq(symbols, 1, n)[i] = symbols[1 + i - 1]
    BY <2>1, SubSeqProperties
  <2>3. n - 1 + 1 = n /\ 1 <= n /\ \A i \in 1..n : 1 + i - 1 = i
    OBVIOUS
  <2> QED BY <2>2, <2>3
<1>5. \A j \in 1..n : j \in 1..N
  BY <1>1
<1>6. p + n <= Total(text)
  BY <1>1
<1> QED BY <1>1, <1>3, <1>4, <1>5, <1>6 DEF N

\* A chunk that is heard keeps the receiver right.
LEMMA HearChunk ==
  ASSUME NEW text \in Seq(Characters), NEW c \in {1, -1}, NEW s \in Squelches, NEW p \in Int,
         NEW r, NEW f, NEW events \in Seq(Event), NEW symbols,
         OnAir(text, c, p, symbols), NEW n \in 1..2, n <= Len(symbols),
         Good(text, c, s, p, r, f, ToSet(events))
  PROVE  LET chunk == SubSeq(symbols, 1, n)
             done == HearSymbols(r, chunk, s)
             more == events \o Events(chunk, done.shown)
         IN  more \in Seq(Event) /\ Good(text, c, s, p + n, done.rx, f, ToSet(more))
<1> DEFINE chunk == SubSeq(symbols, 1, n)
           done == HearSymbols(r, chunk, s)
           more == events \o Events(chunk, done.shown)
           start == [r EXCEPT !.hadSignal = TRUE]
           one == HearSymbol(start, chunk[1], s)
           two == HearSymbol(one.rx, chunk[2], s)
<1>1. /\ chunk \in Seq(Symbol) /\ Len(chunk) = n /\ p + n <= Total(text)
      /\ \A j \in 1..n : IsSent(text, c, p + j, chunk[j]) /\ chunk[j] \in Symbol
  <2>1. /\ chunk \in Seq(Symbol) /\ Len(chunk) = n /\ p + n <= Total(text)
        /\ \A j \in 1..n : chunk[j] = symbols[j] /\ IsSent(text, c, p + j, symbols[j])
    <3>1. /\ chunk \in Seq(Symbol) /\ Len(chunk) = n
          /\ \A j \in 1..n : chunk[j] = symbols[j]
      BY AfterChunk
    <3>2. p + n <= Total(text) /\ \A j \in 1..n : IsSent(text, c, p + j, symbols[j])
      BY AfterChunk
    <3> QED BY <3>1, <3>2
  <2>2. \A j \in 1..n : IsSent(text, c, p + j, chunk[j])
    BY <2>1
  <2> HIDE DEF chunk
  <2>3. \A j \in 1..n : chunk[j] \in Symbol
    BY <2>2 DEF IsSent
  <2> QED BY <2>1, <2>2, <2>3
<1>2. Total(text) \in Nat
  BY Layout
<1>3. Good(text, c, s, p, start, f, ToSet(events)) /\ start.hadSignal /\ start \in Receivers
  <2>1. r \in Receivers
    BY DEF Good, Typed
  <2>2. /\ start \in Receivers /\ start.hadSignal /\ start.prev = r.prev
        /\ start.accum = r.accum /\ start.quality = r.quality /\ start.bits = r.bits
    BY <2>1 DEF Receivers
  <2> HIDE DEF start
  <2> QED BY <2>2 DEF Good, Typed, Clear, Locked, Zeroed, Collected, Idle, EndsWith,
                      Delimited, Exact
<1> HIDE DEF chunk, start
<1>4. Hears(text, c, s, p, start, f, ToSet(events), chunk[1])
  <2>1. p < Total(text) /\ 1 \in 1..n
    BY <1>1, <1>2
  <2> QED BY <1>1, <1>3, <2>1 DEF Hears
<1>5. one.shown \in Characters \union {NoCharacter} /\ one.rx \in Receivers
  <2>1. chunk[1] \in Symbol
    BY <1>1
  <2> QED BY <1>3, <2>1, HearCases
<1>6. done = IF n = 1 THEN [rx |-> one.rx, shown |-> <<one.shown>>]
             ELSE [rx |-> two.rx, shown |-> <<one.shown, two.shown>>]
  BY <1>1, Chunks DEF start
<1>7. n = 2 => two.shown \in Characters \union {NoCharacter}
  <2>1. n = 2 => chunk[2] \in Symbol
    BY <1>1
  <2> HIDE DEF one
  <2> QED BY <1>5, <2>1, HearCases
<1> HIDE DEF one, two
<1>8. done.shown \in Seq(Characters \union {NoCharacter}) /\ Len(done.shown) = n
      /\ done.shown[1] = one.shown /\ (n = 2 => done.shown[2] = two.shown)
  <2>1. CASE n = 1
    <3>1. done.shown = <<one.shown>>
      BY <1>6, <2>1
    <3> HIDE DEF done
    <3> QED BY <1>5, <2>1, <3>1
  <2>2. CASE n = 2
    <3>1. done.shown = <<one.shown, two.shown>>
      BY <1>6, <2>2
    <3> HIDE DEF done
    <3> QED BY <1>5, <1>7, <2>2, <3>1
  <2> QED BY <2>1, <2>2
<1> HIDE DEF done
<1>9. /\ more \in Seq(Event) /\ ToSet(events) \subseteq ToSet(more)
      /\ \A i \in 1..n : done.shown[i] # NoCharacter
           => [character |-> done.shown[i], at |-> chunk[i].at] \in ToSet(more)
  <2>1. /\ Events(chunk, done.shown) \in Seq(Event)
        /\ \A i \in 1..n : done.shown[i] # NoCharacter
             => [character |-> done.shown[i], at |-> chunk[i].at]
                  \in ToSet(Events(chunk, done.shown))
    BY <1>1, <1>8, ChunkEvents
  <2> QED BY <2>1, MoreRows
<1> HIDE DEF more
<1>10. Good(text, c, s, p + 1, one.rx, f, ToSet(more)) /\ one.rx.hadSignal
  <2>1. one.shown # NoCharacter => [character |-> one.shown, at |-> chunk[1].at] \in ToSet(more)
    <3>1. 1 \in 1..n
      OBVIOUS
    <3>2. done.shown[1] = one.shown
      BY <1>8
    <3>3. done.shown[1] # NoCharacter
            => [character |-> done.shown[1], at |-> chunk[1].at] \in ToSet(more)
      BY <1>9, <3>1
    <3> QED BY <3>2, <3>3
  <2> QED BY <1>4, <1>9, <2>1, HearStep DEF one
<1>11. CASE n = 1
  BY <1>6, <1>9, <1>10, <1>11 DEF chunk, done, more
<1>12. CASE n = 2
  <2>1. Hears(text, c, s, p + 1, one.rx, f, ToSet(more), chunk[2])
    <3>1. p + 1 < Total(text) /\ 2 \in 1..n /\ p + 2 = (p + 1) + 1 /\ p + 1 \in Int
      BY <1>1, <1>2, <1>12
    <3>2. IsSent(text, c, (p + 1) + 1, chunk[2])
      BY <1>1, <3>1
    <3> QED BY <1>10, <3>1, <3>2 DEF Hears
  <2>2. two.shown # NoCharacter => [character |-> two.shown, at |-> chunk[2].at] \in ToSet(more)
    BY <1>8, <1>9, <1>12
  <2>3. Good(text, c, s, (p + 1) + 1, two.rx, f, ToSet(more))
    BY <2>1, <2>2, HearStep DEF two
  <2>4. (p + 1) + 1 = p + n /\ done.rx = two.rx
    BY <1>6, <1>12
  <2> QED BY <1>9, <2>3, <2>4 DEF chunk, done, more
<1> QED BY <1>11, <1>12

\* A chunk below the threshold keeps the receiver right.
LEMMA MissChunk ==
  ASSUME NEW text \in Seq(Characters), NEW c, NEW s \in Squelches, NEW p \in Int,
         NEW r, NEW f, NEW shown, NEW n \in 1..2, p + n <= Total(text), p + 1 > 0,
         f = NoFade \/ p + 1 = After(f),
         Good(text, c, s, p, r, f, shown)
  PROVE  Good(text, c, s, p + n, HearNothing(r),
              [kind |-> "weak", length |-> f.length + n,
               first |-> IF f = NoFade THEN p + 1 ELSE f.first], shown)
<1>1. Total(text) \in Nat /\ p \in Nat /\ p < Total(text)
  BY Layout
<1> DEFINE g == Extended(f, p)
<1>2. /\ Good(text, c, s, p + 1, HearNothing(r), g, shown)
      /\ g # NoFade /\ After(g) = p + 2
  BY <1>1, WeakStep
<1>3. /\ g.first = IF f = NoFade THEN p + 1 ELSE f.first
      /\ g.length = f.length + 1 /\ f.length \in Nat
  <2>1. f \in Fades
    BY DEF Good, Typed
  <2> QED BY <2>1 DEF Extended, Fades
<1>4. CASE n = 1
  BY <1>2, <1>4 DEF Extended
<1>5. CASE n = 2
  <2>1. p + 1 \in Nat /\ p + 1 < Total(text) /\ (p + 1) + 1 = p + 2
    BY <1>1, <1>5
  <2> HIDE DEF g
  <2>2. Good(text, c, s, (p + 1) + 1, HearNothing(HearNothing(r)), Extended(g, p + 1), shown)
    BY <1>2, <2>1, WeakStep
  <2>3. Extended(g, p + 1) = [kind |-> "weak", length |-> f.length + 2,
                              first |-> IF f = NoFade THEN p + 1 ELSE f.first]
    <3>1. (f.length + 1) + 1 = f.length + 2
      BY <1>3
    <3> QED BY <1>2, <1>3, <3>1 DEF Extended
  <2>4. HearNothing(HearNothing(r)) = HearNothing(r)
    BY DEF HearNothing, NewPskRx
  <2> QED BY <1>5, <2>1, <2>2, <2>3, <2>4
<1> QED BY <1>4, <1>5

-----------------------------------------------------------------------------
(* Every step of the system keeps the receiver right.                       *)

\* It holds before the first transmission.
LEMMA ReceptionInit == Init => ReceptionInv
<1> SUFFICES ASSUME Init, modem = "Psk31" PROVE ReceptionInv
  BY DEF Init, ReceptionInv
<1>1. /\ sent = <<>> /\ air = <<>> /\ fade = NoFade /\ heard = <<>> /\ rx = NewPskRx
      /\ squelch \in Squelches /\ modem = "Psk31"
  BY DEF Init
<1> DEFINE p == Total(sent) - Len(air)
<1>2. /\ sent \in Seq(Characters) /\ heard \in Seq(Event) /\ air \in Seq(Symbol)
      /\ Len(sent) = 0 /\ Len(air) = 0
  BY <1>1, EmptySeq
<1>3. P \in Nat /\ P >= 3 /\ Total(sent) = P + P /\ p = P + P
  <2>1. P \in Nat /\ P >= 3
    BY PreambleAssumption DEF P
  <2>2. Total(sent) = End(sent, 0) + P /\ End(sent, 0) = P
    BY <1>2, Layout, Ends
  <2> QED BY <1>2, <2>1, <2>2
<1>4. OnAir(sent, 1, p, air)
  BY <1>2, <1>3 DEF OnAir
<1>5. Good(sent, 1, squelch, p, rx, fade, ToSet(heard))
  <2>1. NewPskRx \in Receivers /\ Idle(NewPskRx)
    <3>1. <<>> \in Seq({0, 1})
      BY EmptySeq
    <3> QED BY <3>1 DEF NewPskRx, Receivers, Idle
  <2>2. NoFade \in Fades /\ After(NoFade) = 0
    BY DEF NoFade, Fades, After
  <2> HIDE DEF p
  <2>3. Typed(sent, p, rx, fade)
    BY <1>1, <1>3, <2>1, <2>2 DEF Typed
  <2>4. Clear(squelch, p, rx)
    <3>1. squelch \in 0..100
      BY <1>1, LoopbackAssumption
    <3>2. squelch * 0 - 0 = 0
      BY <3>1
    <3>3. Slack(squelch, p) = 0
      BY <1>3 DEF Slack
    <3> QED BY <1>1, <2>1, <3>2, <3>3 DEF Clear, Idle
  <2>5. Locked(sent, 1, p, rx, fade) /\ Zeroed(p, rx)
    BY <1>3 DEF Locked, Zeroed
  <2>6. Collected(sent, p, rx, fade) /\ Heard(sent, p, fade, ToSet(heard))
    BY <1>2 DEF Collected, Heard
  <2> QED BY <2>3, <2>4, <2>5, <2>6 DEF Good
<1> QED BY <1>1, <1>2, <1>4, <1>5 DEF ReceptionInv

\* A transmission begins with its noise, whatever the last one left in the
\* receiver: the noise and the preamble make up for each other.
LEMMA SendTextStep == ASSUME ReceptionInv, SendText PROVE ReceptionInv'
<1>1. /\ modem = "Psk31" /\ modem' = modem /\ air = <<>> /\ fade' = NoFade /\ heard' = <<>>
      /\ rx' = rx /\ squelch' = squelch
  BY DEF SendText
<1>2. PICK text \in PskTexts, noise \in Noises, carrier \in {1, -1} :
        /\ sent' = text
        /\ air' = [i \in 1..Len(noise) |-> [noise[i] EXCEPT !.at = i - Len(noise)]]
                  \o [i \in DOMAIN ModulateText(text) |->
                        [phase |-> carrier * ModulateText(text)[i], quality |-> 100, at |-> i]]
  BY DEF SendText
<1>3. /\ text \in Seq(Characters) /\ noise \in Seq(Symbol) /\ squelch \in Squelches
      /\ squelch \in 0..100 /\ sent \in Seq(Characters) /\ Len(noise) \in Nat
  <2>1. text \in Seq(Characters) /\ noise \in Seq(Symbol)
    BY LoopbackAssumption
  <2>2. sent \in Seq(Characters) /\ squelch \in Squelches /\ squelch \in 0..100
    BY <1>1, LoopbackAssumption DEF ReceptionInv
  <2> QED BY <2>1, <2>2, LenProperties
<1>4. PICK c \in {1, -1} : Good(sent, c, squelch, Total(sent) - Len(air), rx, fade, ToSet(heard))
  BY <1>1 DEF ReceptionInv
<1>5. /\ P \in Nat /\ P >= 3 /\ Total(sent) \in Nat /\ Total(sent) - Len(air) = Total(sent)
      /\ Total(sent) >= P + P /\ Total(text) \in Nat /\ Total(text) >= P + P
  <2>1. P \in Nat /\ P >= 3 /\ Len(air) = 0
    BY <1>1, PreambleAssumption, EmptySeq DEF P
  <2>2. ASSUME NEW t \in Seq(Characters) PROVE Total(t) \in Nat /\ Total(t) >= P + P
    <3>1. Len(t) \in Nat /\ 0 \in 0..Len(t) /\ Len(t) \in 0..Len(t) /\ 0 <= Len(t)
      BY LenProperties
    <3>2. End(t, Len(t)) \in Nat /\ End(t, Len(t)) >= P
      BY <3>1, Ends
    <3> QED BY <2>1, <3>2, Layout
  <2> QED BY <1>3, <2>1, <2>2
<1> DEFINE q == 0 - Len(noise)
           before == [i \in 1..Len(noise) |-> [noise[i] EXCEPT !.at = i - Len(noise)]]
           phases == ModulateText(text)
           signal == [i \in DOMAIN phases |->
                        [phase |-> carrier * phases[i], quality |-> 100, at |-> i]]
<1>6. /\ before \in Seq(Symbol) /\ Len(before) = Len(noise)
      /\ \A i \in 1..Len(noise) : IsSent(text, carrier, q + i, before[i])
  <2>1. ASSUME NEW i \in 1..Len(noise)
        PROVE  /\ [noise[i] EXCEPT !.at = i - Len(noise)] \in Symbol
               /\ [noise[i] EXCEPT !.at = i - Len(noise)].at = q + i
               /\ ~(q + i >= 1) /\ i - Len(noise) \in Int
    <3>1. noise[i] \in Symbol /\ i - Len(noise) = q + i /\ q + i \in Int /\ ~(q + i >= 1)
      BY <1>3, ElementOfSeq
    <3> HIDE DEF q
    <3> QED BY <3>1 DEF Symbol
  <2>2. before \in Seq(Symbol) /\ Len(before) = Len(noise)
    BY <1>3, <2>1, IsASeq
  <2>3. \A i \in 1..Len(noise) : before[i] = [noise[i] EXCEPT !.at = i - Len(noise)]
    OBVIOUS
  <2> HIDE DEF before, q
  <2> QED BY <2>1, <2>2, <2>3 DEF IsSent
<1>7. /\ signal \in Seq(Symbol) /\ Len(signal) = Total(text)
      /\ \A i \in 1..Total(text) : IsSent(text, carrier, i, signal[i])
  <2>1. DOMAIN phases = 1..Total(text)
    <3>1. phases = ModulateBits(Bits(text))
      BY DEF ModulateText, Bits, P
    <3>2. DOMAIN Bits(text) = 1..Total(text)
      BY <1>3, Layout, LenProperties DEF Total
    <3> HIDE DEF phases
    <3> QED BY <3>1, <3>2 DEF ModulateBits
  <2>2. ASSUME NEW i \in 1..Total(text)
        PROVE  [phase |-> carrier * phases[i], quality |-> 100, at |-> i] \in Symbol
    <3>1. carrier * phases[i] \in {1, -1}
      BY <1>3, Phases
    <3> HIDE DEF phases
    <3> QED BY <1>5, <3>1 DEF Symbol
  <2>3. signal = [i \in 1..Total(text) |->
                    [phase |-> carrier * phases[i], quality |-> 100, at |-> i]]
    BY <2>1
  <2> HIDE DEF signal
  <2>4. signal \in Seq(Symbol) /\ Len(signal) = Total(text)
    <3> HIDE DEF phases
    <3> QED BY <1>5, <2>2, <2>3, IsASeq
  <2>5. ASSUME NEW i \in 1..Total(text) PROVE IsSent(text, carrier, i, signal[i])
    <3>1. signal[i] = [phase |-> carrier * phases[i], quality |-> 100, at |-> i]
      BY <2>3
    <3> QED BY <2>2, <3>1 DEF IsSent
  <2> QED BY <2>4, <2>5
<1> HIDE DEF before, signal
<1>8. OnAir(text, carrier, q, before \o signal)
      /\ Total(text) - Len(before \o signal) = q
  <2>1. /\ before \o signal \in Seq(Symbol)
        /\ Len(before \o signal) = Len(noise) + Total(text)
        /\ \A i \in 1..(Len(noise) + Total(text)) :
             (before \o signal)[i] = IF i <= Len(noise) THEN before[i]
                                     ELSE signal[i - Len(noise)]
    <3>1. /\ before \in Seq(Symbol) /\ Len(before) = Len(noise)
          /\ signal \in Seq(Symbol) /\ Len(signal) = Total(text)
      BY <1>6, <1>7
    <3>2. /\ before \o signal \in Seq(Symbol)
          /\ Len(before \o signal) = Len(before) + Len(signal)
          /\ \A i \in 1..(Len(before) + Len(signal)) :
               (before \o signal)[i] = IF i <= Len(before) THEN before[i]
                                       ELSE signal[i - Len(before)]
      BY <3>1, ConcatProperties
    <3> QED BY <3>1, <3>2
  <2>2. ASSUME NEW j \in 1..(Len(noise) + Total(text))
        PROVE  IsSent(text, carrier, q + j, (before \o signal)[j])
    <3>1. CASE j <= Len(noise)
      <4>1. j \in 1..Len(noise)
        BY <1>3, <3>1
      <4> QED BY <1>6, <2>1, <3>1, <4>1
    <3>2. CASE ~(j <= Len(noise))
      <4>1. j - Len(noise) \in 1..Total(text) /\ q + j = j - Len(noise)
        BY <1>3, <1>5, <3>2
      <4> QED BY <1>7, <2>1, <3>2, <4>1
    <3> QED BY <3>1, <3>2
  <2>3. q + Len(before \o signal) = Total(text) /\ Total(text) - Len(before \o signal) = q
    BY <1>3, <1>5, <2>1
  <2> QED BY <2>1, <2>2, <2>3 DEF OnAir
<1>9. Good(text, carrier, squelch, q, rx, NoFade, ToSet(<<>>))
  <2>1. /\ Typed(sent, Total(sent), rx, fade) /\ Clear(squelch, Total(sent), rx)
    BY <1>4, <1>5 DEF Good
  <2>2. NoFade \in Fades /\ After(NoFade) = 0
    BY DEF NoFade, Fades, After
  <2>3. q <= 0 /\ q \in Int
    BY <1>3
  <2>4. Typed(text, q, rx, NoFade)
    BY <1>5, <2>1, <2>2, <2>3 DEF Typed
  <2>5. 0 <= Slack(squelch, q)
    <3>1. squelch * Len(noise) <= (100 - squelch) * P
      BY <1>3, NoiseAssumption DEF P
    <3> DEFINE a == 100 - squelch
               b == squelch * Len(noise)
    <3>2. a \in Nat /\ b \in Nat /\ a * P \in Nat /\ squelch * q = 0 - b
      BY <1>3, <1>5
    <3>3. CASE q < 0
      <4>1. Slack(squelch, q) = a * P + squelch * q
        BY <3>3 DEF Slack
      <4> QED BY <3>1, <3>2, <4>1
    <3>4. CASE q = 0
      <4>1. Slack(squelch, q) = a * (P - 0)
        BY <1>5, <3>4 DEF Slack
      <4>2. P - 0 = P
        BY <1>5
      <4> QED BY <3>2, <4>1, <4>2
    <3> QED BY <2>3, <3>3, <3>4
  <2>6. Slack(squelch, q) \in Int
    BY <1>3, <2>3, <2>5, SlackSteps
  <2>7. Clear(squelch, q, rx)
    <3>1. Slack(squelch, Total(sent)) = 0
      BY <1>5 DEF Slack
    <3>2. squelch * rx.bits - rx.quality <= 0
      BY <2>1, <3>1 DEF Clear
    <3>3. squelch * rx.bits - rx.quality \in Int
      <4>1. rx.bits \in Nat /\ rx.quality \in Nat
        BY <2>1 DEF Typed, Receivers
      <4> QED BY <1>3, <4>1
    <3> HIDE DEF q
    <3> QED BY <2>5, <2>6, <3>2, <3>3 DEF Clear
  <2> HIDE DEF q
  <2>8. Locked(text, carrier, q, rx, NoFade) /\ Zeroed(q, rx)
    BY <1>5, <2>3 DEF Locked, Zeroed
  <2>9. \A k \in 0..Len(text) : End(text, k) \in Nat /\ End(text, k) >= P
    <3> SUFFICES ASSUME NEW k \in 0..Len(text) PROVE End(text, k) \in Nat /\ End(text, k) >= P
      OBVIOUS
    <3>1. Len(text) \in Nat /\ 0 \in 0..Len(text) /\ 0 <= k
      BY <1>3, LenProperties
    <3> QED BY <1>3, <1>5, <3>1, Ends
  <2>10. Collected(text, q, rx, NoFade)
    <3> SUFFICES ASSUME NEW k \in 1..Len(text), q \in End(text, k - 1)..(End(text, k) - 1)
                 PROVE  FALSE
      BY DEF Collected
    <3>1. k - 1 \in 0..Len(text)
      BY <1>3, LenProperties
    <3> QED BY <1>5, <2>3, <2>9, <3>1
  <2>11. Heard(text, q, NoFade, ToSet(<<>>))
    <3> SUFFICES ASSUME NEW k \in 2..Len(text), End(text, k) <= q
                 PROVE  FALSE
      BY DEF Heard
    <3>1. k \in 0..Len(text)
      BY <1>3, LenProperties
    <3> QED BY <1>5, <2>3, <2>9, <3>1
  <2> QED BY <2>4, <2>7, <2>8, <2>10, <2>11 DEF Good
<1>10. air' = before \o signal /\ <<>> \in Seq(Event)
  BY <1>2, EmptySeq DEF before, signal
<1> HIDE DEF q
<1> QED BY <1>1, <1>2, <1>3, <1>8, <1>9, <1>10 DEF ReceptionInv

\* A chunk is demodulated: its symbols one after the other, and its events.
LEMMA ReceiveChunkStep == ASSUME ReceptionInv, ReceiveChunk PROVE ReceptionInv'
<1>1. /\ modem = "Psk31" /\ modem' = modem /\ sent' = sent /\ fade' = fade
      /\ squelch' = squelch
  BY DEF ReceiveChunk
<1>2. PICK n \in 1..2 :
        /\ n <= Len(air)
        /\ rx' = HearSymbols(rx, SubSeq(air, 1, n), squelch).rx
        /\ heard' = heard \o Events(SubSeq(air, 1, n),
                                    HearSymbols(rx, SubSeq(air, 1, n), squelch).shown)
        /\ air' = SubSeq(air, n + 1, Len(air))
  BY DEF ReceiveChunk
<1>3. sent \in Seq(Characters) /\ squelch \in Squelches /\ heard \in Seq(Event)
  BY <1>1 DEF ReceptionInv
<1> DEFINE p == Total(sent) - Len(air)
<1>4. PICK c \in {1, -1} : /\ OnAir(sent, c, p, air)
                           /\ Good(sent, c, squelch, p, rx, fade, ToSet(heard))
  BY <1>1 DEF ReceptionInv
<1>5. p \in Int /\ Total(sent) \in Nat
  BY <1>3, <1>4, Layout, LenProperties DEF OnAir
<1> HIDE DEF p
<1>6. OnAir(sent, c, p + n, air')
  BY <1>2, <1>3, <1>4, <1>5, AfterChunk
<1>7. heard' \in Seq(Event) /\ Good(sent, c, squelch, p + n, rx', fade, ToSet(heard'))
  BY <1>2, <1>3, <1>4, <1>5, HearChunk
<1>8. Total(sent) - Len(air') = p + n
  BY <1>5, <1>6, LenProperties DEF OnAir
<1> QED BY <1>1, <1>3, <1>6, <1>7, <1>8 DEF ReceptionInv

\* A chunk is below the threshold: the fade grows, the receiver starts anew.
LEMMA ReceiveWeakChunkStep == ASSUME ReceptionInv, ReceiveWeakChunk PROVE ReceptionInv'
<1>1. /\ modem = "Psk31" /\ modem' = modem /\ sent' = sent /\ heard' = heard
      /\ squelch' = squelch /\ rx' = HearNothing(rx)
  BY DEF ReceiveWeakChunk
<1>2. PICK n \in 1..2 :
        /\ n <= Len(air) /\ air[1].at > 0
        /\ fade = NoFade \/ air[1].at = fade.first + fade.length
        /\ fade' = [kind |-> "weak", length |-> fade.length + n,
                    first |-> IF fade = NoFade THEN air[1].at ELSE fade.first]
        /\ air' = SubSeq(air, n + 1, Len(air))
  BY DEF ReceiveWeakChunk
<1>3. sent \in Seq(Characters) /\ squelch \in Squelches /\ heard \in Seq(Event)
  BY <1>1 DEF ReceptionInv
<1> DEFINE p == Total(sent) - Len(air)
<1>4. PICK c \in {1, -1} : /\ OnAir(sent, c, p, air)
                           /\ Good(sent, c, squelch, p, rx, fade, ToSet(heard))
  BY <1>1 DEF ReceptionInv
<1>5. p \in Int /\ Total(sent) \in Nat
  BY <1>3, <1>4, Layout, LenProperties DEF OnAir
<1> HIDE DEF p
<1>6. OnAir(sent, c, p + n, air') /\ p + n <= Total(sent) /\ air[1].at = p + 1
  <2>1. IsSent(sent, c, p + 1, air[1])
    <3>1. \A j \in 1..n : IsSent(sent, c, p + j, air[j])
      BY <1>2, <1>3, <1>4, <1>5, AfterChunk
    <3>2. 1 \in 1..n
      OBVIOUS
    <3> QED BY <3>1, <3>2
  <2> QED BY <1>2, <1>3, <1>4, <1>5, <2>1, AfterChunk DEF IsSent
<1>7. Good(sent, c, squelch, p + n, rx', fade', ToSet(heard))
  <2>1. p + 1 > 0 /\ (fade = NoFade \/ p + 1 = After(fade))
    BY <1>2, <1>6 DEF After
  <2>2. fade' = [kind |-> "weak", length |-> fade.length + n,
                 first |-> IF fade = NoFade THEN p + 1 ELSE fade.first]
    BY <1>2, <1>6
  <2> QED BY <1>1, <1>3, <1>4, <1>5, <1>6, <2>1, <2>2, MissChunk
<1>8. Total(sent) - Len(air') = p + n
  BY <1>5, <1>6, LenProperties DEF OnAir
<1> QED BY <1>1, <1>3, <1>6, <1>7, <1>8 DEF ReceptionInv

\* Silence after the transmission: what has been heard stays heard.
LEMMA SilenceStep == ASSUME ReceptionInv, Silence PROVE ReceptionInv'
<1>1. /\ modem = "Psk31" /\ modem' = modem /\ sent' = sent /\ heard' = heard /\ fade' = fade
      /\ squelch' = squelch /\ rx' = HearNothing(rx) /\ air = <<>> /\ air' = air
  BY DEF Silence
<1>2. sent \in Seq(Characters) /\ squelch \in Squelches /\ heard \in Seq(Event)
  BY <1>1 DEF ReceptionInv
<1> DEFINE p == Total(sent) - Len(air)
<1>3. PICK c \in {1, -1} : /\ OnAir(sent, c, p, air)
                           /\ Good(sent, c, squelch, p, rx, fade, ToSet(heard))
  BY <1>1 DEF ReceptionInv
<1>4. /\ p = Total(sent) /\ p \in Nat /\ P \in Nat /\ P >= 3 /\ p = End(sent, Len(sent)) + P
      /\ End(sent, Len(sent)) \in Nat /\ Len(sent) \in Nat
  <2>1. P \in Nat /\ P >= 3 /\ Len(air) = 0 /\ Len(sent) \in Nat
    BY <1>1, <1>2, PreambleAssumption, EmptySeq, LenProperties DEF P
  <2>2. Len(sent) \in 0..Len(sent)
    BY <2>1
  <2>3. Total(sent) \in Nat /\ Total(sent) = End(sent, Len(sent)) + P
        /\ End(sent, Len(sent)) \in Nat
    BY <1>2, <2>2, Layout, Ends
  <2> QED BY <2>1, <2>3
<1> HIDE DEF p
<1>5. Typed(sent, p, rx, fade) /\ Clear(squelch, p, rx) /\ Heard(sent, p, fade, ToSet(heard))
  BY <1>3 DEF Good
<1>6. rx' \in Receivers /\ Idle(rx')
  <2>1. NewPskRx \in Receivers /\ Idle(NewPskRx)
    <3>1. <<>> \in Seq({0, 1})
      BY EmptySeq
    <3> QED BY <3>1 DEF NewPskRx, Receivers, Idle
  <2> QED BY <1>1, <1>5, <2>1 DEF HearNothing, Typed
<1>7. Typed(sent, p, rx', fade)
  BY <1>5, <1>6 DEF Typed
<1>8. Clear(squelch, p, rx')
  <2>1. squelch * 0 - 0 = 0
    BY <1>2, LoopbackAssumption
  <2> QED BY <1>5, <1>6, <2>1 DEF Clear, Idle
<1>9. Locked(sent, c, p, rx', fade) /\ Zeroed(p, rx')
  <2>1. End(sent, Len(sent)) >= P
    <3>1. 0 \in 0..Len(sent) /\ Len(sent) \in 0..Len(sent) /\ 0 <= Len(sent)
      BY <1>4
    <3> QED BY <1>2, <3>1, Ends
  <2> QED BY <1>4, <2>1 DEF Locked, Zeroed
<1>10. Collected(sent, p, rx', fade)
  <2> SUFFICES ASSUME NEW k \in 1..Len(sent), p \in End(sent, k - 1)..(End(sent, k) - 1)
               PROVE  FALSE
    BY DEF Collected
  <2>1. k \in 0..Len(sent) /\ Len(sent) \in 0..Len(sent) /\ k <= Len(sent)
    BY <1>4
  <2>2. End(sent, k) <= End(sent, Len(sent)) /\ End(sent, k) \in Nat
    BY <1>2, <2>1, Ends
  <2> QED BY <1>4, <2>2
<1>11. Good(sent, c, squelch, p, rx', fade, ToSet(heard))
  BY <1>5, <1>7, <1>8, <1>9, <1>10 DEF Good
<1> QED BY <1>1, <1>2, <1>3, <1>11 DEF ReceptionInv, p

\* So every step keeps it, those of the other modem too.
LEMMA ReceptionStep == ReceptionInv /\ [Next]_vars => ReceptionInv'
<1> SUFFICES ASSUME ReceptionInv, [Next]_vars PROVE ReceptionInv'
  OBVIOUS
<1>1. CASE SendFrame \/ Fade \/ ReceiveFrame
  <2>1. modem = "Mfsk16" /\ modem' = modem
    BY <1>1 DEF SendFrame, Fade, ReceiveFrame
  <2> QED BY <2>1 DEF ReceptionInv
<1>2. CASE SendText
  BY <1>2, SendTextStep
<1>3. CASE ReceiveChunk
  BY <1>3, ReceiveChunkStep
<1>4. CASE ReceiveWeakChunk
  BY <1>4, ReceiveWeakChunkStep
<1>5. CASE Silence
  BY <1>5, SilenceStep
<1>6. CASE UNCHANGED vars
  BY <1>6 DEF ReceptionInv, vars
<1> QED BY <1>1, <1>2, <1>3, <1>4, <1>5, <1>6 DEF Next

\* When nothing is left on the air, what should have been heard has been.
LEMMA ReceptionMeans == ReceptionInv => PskTextArrives
<1> SUFFICES ASSUME ReceptionInv, modem = "Psk31", Done, NEW k \in 2..Len(sent),
                    \/ fade = NoFade
                    \/ fade.first > EndOf(k)
                    \/ fade.first + fade.length < StartOf(k - 1)
                    \/ fade.first > Len(ModulateText(sent)) - EDGE
             PROVE  Arrived(k)
  BY DEF PskTextArrives
<1>1. PICK c \in {1, -1} :
        Good(sent, c, squelch, Total(sent) - Len(air), rx, fade, ToSet(heard))
  BY DEF ReceptionInv
<1>2. sent \in Seq(Characters) /\ Len(sent) \in Nat /\ air = <<>> /\ Len(air) = 0
  BY EmptySeq, LenProperties DEF ReceptionInv, Done
<1>3. P \in Nat /\ EDGE \in Nat /\ EDGE <= P
  BY PreambleAssumption, LoopbackAssumption DEF P
<1>4. /\ k \in 0..Len(sent) /\ k - 2 \in 0..Len(sent) /\ Len(sent) \in 0..Len(sent)
      /\ k <= Len(sent) /\ (k - 1) - 1 = k - 2
  BY <1>2
<1>5. /\ Total(sent) = End(sent, Len(sent)) + P /\ End(sent, k) \in Nat
      /\ End(sent, k) <= End(sent, Len(sent)) /\ End(sent, Len(sent)) \in Nat
      /\ End(sent, k - 2) \in Nat
  BY <1>2, <1>4, Layout, Ends
<1>6. EndOf(k) = End(sent, k) /\ EndOf((k - 1) - 1) = End(sent, k - 2)
  BY <1>4 DEF EndOf, End, P, Encoded
<1>7. Len(ModulateText(sent)) = Total(sent)
  <2>1. ModulateText(sent) = ModulateBits(Bits(sent))
    BY DEF ModulateText, Bits, P
  <2>2. DOMAIN Bits(sent) = 1..Total(sent) /\ Total(sent) \in Nat
    BY <1>2, Layout, LenProperties DEF Total
  <2> QED BY <2>1, <2>2 DEF ModulateBits
<1>8. fade.first \in Nat /\ After(fade) \in Nat /\ (fade = NoFade => After(fade) = 0)
  <2>1. fade \in Fades
    BY <1>1 DEF Good, Typed
  <2> QED BY <2>1 DEF Fades, After, NoFade
<1>9. fade.first > End(sent, k) \/ After(fade) <= End(sent, k - 2)
  <2>1. CASE fade = NoFade
    BY <1>5, <1>8, <2>1
  <2>2. CASE fade.first > EndOf(k)
    BY <1>6, <2>2
  <2>3. CASE fade.first + fade.length < StartOf(k - 1)
    BY <1>5, <1>6, <1>8, <2>3 DEF StartOf, After
  <2>4. CASE fade.first > Len(ModulateText(sent)) - EDGE
    BY <1>3, <1>5, <1>7, <1>8, <2>4
  <2> QED BY <2>1, <2>2, <2>3, <2>4
<1>10. End(sent, k) <= Total(sent) - Len(air)
  BY <1>2, <1>3, <1>5
<1>11. Shown(sent, k) \in ToSet(heard)
  BY <1>1, <1>9, <1>10 DEF Good, Heard
<1> QED BY <1>6, <1>11 DEF Arrived, Shown, ToSet

(***************************************************************************)
(* Psk31Modem.cpp 29-41, 60-74 and 86-107: a text sent with the PSK31      *)
(* modem is shown character by character, but for the first one, those     *)
(* that a fade touches, the next one, and one more when the fade ends just *)
(* where a character begins; for every table of code words, preamble,      *)
(* text, noise before the transmission, phase of the carrier, setting of   *)
(* the squelch, and run of weak chunks wherever it begins and however long *)
(* it lasts.                                                               *)
(***************************************************************************)
THEOREM AlwaysPskTextArrives == Spec => []PskTextArrives
<1>1. Spec => []ReceptionInv
  BY ReceptionInit, ReceptionStep, PTL DEF Spec
<1> QED BY <1>1, ReceptionMeans, PTL
=============================================================================
