-------------------------- MODULE Receiver_proofs ---------------------------
(***************************************************************************)
(* Safety of DspReceiver for every size of chunks, symbols, frames and     *)
(* buffers, and every sequence of scores.  First, IInv: whatever position  *)
(* the detector reports, and whatever a header says, frames are cut and    *)
(* completed as they should be.  Then, LInv: where those positions are,    *)
(* by induction over the samples of a chunk.                               *)
(***************************************************************************)
EXTENDS DspReceiver, SequenceTheorems, BoundedInduction, TLAPS

FrameType ==
  [state : {"Idle", "Collecting"}, buffer : Nat, symbols : Nat,
   nBlocks : {-1} \cup 1..MAX_NBLOCKS, ticks : Nat, lastCheck : Nat,
   at : Nat \cup {-1}]

Incomplete(f) ==
  WholeSymbols(f.buffer) <
    IF f.nBlocks < 0 THEN HeaderNeeds ELSE FrameNeeds(f.nBlocks)

\* A frame between two chunks, the next sample having position n.
Waiting(f, n) ==
  /\ f \in FrameType
  /\ f.state = "Collecting"
  /\ f.at >= 0 /\ f.at + f.buffer = n
  /\ f.lastCheck = f.buffer
  /\ f.symbols = WholeSymbols(f.buffer)
  /\ Incomplete(f)
  /\ f.ticks <= COLLECT_TIMEOUT_CHUNKS
  /\ f.buffer <= PRE_TRIGGER_SAMPLES + f.ticks * AUDIO_CHUNK_SAMPLES
  /\ f.buffer >= PreambleSamples + f.ticks * AUDIO_CHUNK_SAMPLES

\* What a message must be when it is handed on with n samples received.
Whole(e, n) ==
  LET size == FrameNeeds(e.blocks) * SAMPLES_PER_SYMBOL
  IN  /\ e.at >= 0 /\ e.at + size <= n
      /\ size <= PRE_TRIGGER_SAMPLES
                   + (COLLECT_TIMEOUT_CHUNKS + 1) * AUDIO_CHUNK_SAMPLES

Counts ==
  /\ counter \in Nat /\ preTrigger \in 0..PRE_TRIGGER_SAMPLES /\ dropped \in Nat
  /\ dropped + preTrigger = counter

Frames == rx = NoFrame \/ Waiting(rx, counter)

Flags ==
  /\ transmitting \in BOOLEAN /\ suspended = transmitting
  /\ transmitting => events = <<>>
  /\ shown = rx.state /\ polled = rx.state

Messages == \A e \in Reported("message") : Whole(e, counter)

IInv == Counts /\ Frames /\ Flags /\ Messages

(* ------------------------------ arithmetic ----------------------------- *)

(***************************************************************************)
(* What WholeSymbols(n) is: the number of symbols that n samples hold.     *)
(***************************************************************************)
LEMMA WholeSymbolsHold ==
  ASSUME NEW n \in Nat
  PROVE  /\ WholeSymbols(n) \in Nat
         /\ SAMPLES_PER_SYMBOL * WholeSymbols(n) <= n
         /\ n < SAMPLES_PER_SYMBOL * WholeSymbols(n) + SAMPLES_PER_SYMBOL
BY SyncAssumption DEF WholeSymbols

(***************************************************************************)
(* It is the only number of which that can be said.                        *)
(***************************************************************************)
LEMMA WholeSymbolsUnique ==
  ASSUME NEW n \in Nat, NEW q \in Nat,
         SAMPLES_PER_SYMBOL * q <= n,
         n < SAMPLES_PER_SYMBOL * q + SAMPLES_PER_SYMBOL
  PROVE  WholeSymbols(n) = q
<1> DEFINE d == WholeSymbols(n)
<1>1. /\ d \in Nat
      /\ SAMPLES_PER_SYMBOL * d <= n
      /\ n < SAMPLES_PER_SYMBOL * d + SAMPLES_PER_SYMBOL
  BY WholeSymbolsHold
<1> HIDE DEF d
<1>2. ASSUME d < q PROVE FALSE
  <2>1. SAMPLES_PER_SYMBOL * (d + 1) <= SAMPLES_PER_SYMBOL * q
    BY <1>1, <1>2, SyncAssumption
  <2> QED BY <2>1, <1>1, SyncAssumption
<1>3. ASSUME d > q PROVE FALSE
  <2>1. SAMPLES_PER_SYMBOL * (q + 1) <= SAMPLES_PER_SYMBOL * d
    BY <1>1, <1>3, SyncAssumption
  <2> QED BY <2>1, <1>1, SyncAssumption
<1>4. d = q
  BY <1>1, <1>2, <1>3
<1> QED BY <1>4 DEF d

(***************************************************************************)
(* Demodulating only the new samples finds the symbols that demodulating   *)
(* all of them would (MfskModem.cpp:258-267).                              *)
(***************************************************************************)
LEMMA CacheGrows ==
  ASSUME NEW old \in Nat, NEW new \in Nat, old <= new
  PROVE  LET fresh == new - WholeSymbols(old) * SAMPLES_PER_SYMBOL
         IN  /\ fresh \in Nat
             /\ (IF fresh < SAMPLES_PER_SYMBOL THEN WholeSymbols(old)
                 ELSE WholeSymbols(old) + WholeSymbols(fresh)) = WholeSymbols(new)
<1> DEFINE o == WholeSymbols(old)
           fresh == new - o * SAMPLES_PER_SYMBOL
           k == WholeSymbols(fresh)
<1>1. o \in Nat /\ SAMPLES_PER_SYMBOL * o <= old
  BY WholeSymbolsHold
<1> HIDE DEF o
<1>2. fresh \in Nat /\ fresh = new - SAMPLES_PER_SYMBOL * o
  BY <1>1, SyncAssumption
<1>3. new = SAMPLES_PER_SYMBOL * o + fresh
  BY <1>1, <1>2, SyncAssumption
<1>4. CASE fresh < SAMPLES_PER_SYMBOL
  <2>1. WholeSymbols(new) = o
    <3> HIDE DEF fresh
    <3> QED BY <1>1, <1>2, <1>3, <1>4, WholeSymbolsUnique, SyncAssumption
  <2> QED BY <1>2, <1>4, <2>1 DEF o
<1>5. CASE ~(fresh < SAMPLES_PER_SYMBOL)
  <2> HIDE DEF fresh
  <2>1. /\ k \in Nat
        /\ SAMPLES_PER_SYMBOL * k <= fresh
        /\ fresh < SAMPLES_PER_SYMBOL * k + SAMPLES_PER_SYMBOL
    BY <1>2, WholeSymbolsHold
  <2> HIDE DEF k
  <2>2. SAMPLES_PER_SYMBOL * (o + k) = SAMPLES_PER_SYMBOL * o + SAMPLES_PER_SYMBOL * k
    BY <1>1, <2>1, SyncAssumption
  <2>3. WholeSymbols(new) = o + k
    BY <1>1, <1>2, <1>3, <2>1, <2>2, WholeSymbolsUnique, SyncAssumption
  <2> QED BY <1>2, <1>5, <2>3 DEF o, k, fresh
<1> QED BY <1>4, <1>5 DEF o

(* ------------------------------ one attempt ---------------------------- *)

\* f is a collected frame whose newest samples may not have been demodulated.
Collected(f) ==
  /\ f \in FrameType /\ f.state = "Collecting" /\ f.at >= 0
  /\ f.lastCheck <= f.buffer
  /\ f.symbols = WholeSymbols(f.lastCheck)
  /\ f.nBlocks > 0 => f.buffer - f.lastCheck >= SAMPLES_PER_SYMBOL

\* g is f with all its samples demodulated and something still to come.
Continues(f, g) ==
  /\ g \in FrameType /\ g.state = "Collecting"
  /\ g.at = f.at /\ g.buffer = f.buffer /\ g.ticks = f.ticks
  /\ g.lastCheck = f.buffer /\ g.symbols = WholeSymbols(f.buffer)
  /\ Incomplete(g)

\* Nothing is emitted for f, or the one message that its samples hold.
Emits(f, emitted) ==
  \/ emitted = <<>>
  \/ \E b \in 1..MAX_NBLOCKS :
       /\ emitted = <<[kind |-> "message", at |-> f.at, blocks |-> b]>>
       /\ FrameNeeds(b) <= WholeSymbols(f.buffer)

(***************************************************************************)
(* The symbol counts that are compared are numbers.                        *)
(***************************************************************************)
LEMMA NeedsAreNumbers ==
  /\ HeaderNeeds \in Nat
  /\ \A b \in Nat : FrameNeeds(b) \in Nat
BY SyncAssumption, ModemAssumption DEF HeaderNeeds, FrameNeeds

(***************************************************************************)
(* Demodulate() leaves nothing to demodulate and changes nothing else.     *)
(***************************************************************************)
LEMMA Demodulated ==
  ASSUME NEW f, Collected(f)
  PROVE  LET d == Demodulate(f)
         IN  /\ d \in FrameType /\ d.state = "Collecting"
             /\ d.at = f.at /\ d.buffer = f.buffer /\ d.ticks = f.ticks
             /\ d.nBlocks = f.nBlocks
             /\ d.lastCheck = f.buffer /\ d.symbols = WholeSymbols(f.buffer)
<1> DEFINE fresh == f.buffer - WholeSymbols(f.lastCheck) * SAMPLES_PER_SYMBOL
           all == IF fresh < SAMPLES_PER_SYMBOL THEN WholeSymbols(f.lastCheck)
                  ELSE WholeSymbols(f.lastCheck) + WholeSymbols(fresh)
           d == Demodulate(f)
<1>1. f \in FrameType /\ f.buffer \in Nat /\ f.lastCheck \in Nat
  BY DEF Collected, FrameType
<1>2. all = WholeSymbols(f.buffer)
  BY <1>1, CacheGrows DEF Collected
<1>3. WholeSymbols(f.buffer) \in Nat
  BY <1>1, WholeSymbolsHold
<1>4. d = [f EXCEPT !.lastCheck = f.buffer, !.symbols = all]
  BY <1>1 DEF Demodulate, Collected, FrameType
<1> HIDE DEF all, d
<1>5. /\ d \in FrameType /\ d.state = "Collecting"
      /\ d.at = f.at /\ d.buffer = f.buffer /\ d.ticks = f.ticks
      /\ d.nBlocks = f.nBlocks
      /\ d.lastCheck = f.buffer /\ d.symbols = WholeSymbols(f.buffer)
  BY <1>1, <1>2, <1>3, <1>4 DEF Collected, FrameType
<1> QED BY <1>5 DEF d

(***************************************************************************)
(* tryCompleteFrame() goes back to listening or goes on with everything    *)
(* demodulated, and emits a message only when all its symbols are there.   *)
(***************************************************************************)
LEMMA TryCompletes ==
  ASSUME NEW f, Collected(f), NEW header \in Headers
  PROVE  LET r == TryCompleteFrame(f, header)
         IN  /\ r.rx = NoFrame \/ Continues(f, r.rx)
             /\ Emits(f, r.events)
<1> DEFINE d == Demodulate(f)
           r == TryCompleteFrame(f, header)
<1>1. /\ f \in FrameType /\ f.buffer \in Nat /\ f.lastCheck \in Nat
      /\ f.nBlocks \in {-1} \cup 1..MAX_NBLOCKS
  BY DEF Collected, FrameType
<1>2. /\ d \in FrameType /\ d.state = "Collecting"
      /\ d.at = f.at /\ d.buffer = f.buffer /\ d.ticks = f.ticks
      /\ d.nBlocks = f.nBlocks
      /\ d.lastCheck = f.buffer /\ d.symbols = WholeSymbols(f.buffer)
  BY Demodulated
<1>3. ~(f.nBlocks > 0 /\ f.buffer - f.lastCheck < SAMPLES_PER_SYMBOL)
  BY <1>1, SyncAssumption DEF Collected
<1>4. /\ WholeSymbols(f.buffer) \in Nat /\ HeaderNeeds \in Nat
      /\ \A b \in 1..MAX_NBLOCKS : FrameNeeds(b) \in Nat
  BY <1>1, WholeSymbolsHold, NeedsAreNumbers, ModemAssumption
<1> HIDE DEF d
<1>5. CASE d.symbols < HeaderNeeds
  <2>1. r = [rx |-> d, events |-> <<>>]
    BY <1>3, <1>5 DEF TryCompleteFrame, Then, d
  <2>2. Incomplete(d)
    <3>1. CASE d.nBlocks < 0
      BY <1>2, <1>5, <3>1 DEF Incomplete
    <3>2. CASE ~(d.nBlocks < 0)
      \* The header has been read, so it was complete before.
      <4>1. d.nBlocks \in 1..MAX_NBLOCKS
        BY <1>1, <1>2, <3>2
      <4>2. HeaderNeeds <= FrameNeeds(d.nBlocks)
        BY <4>1, SyncAssumption, ModemAssumption DEF HeaderNeeds, FrameNeeds
      <4> QED BY <1>2, <1>4, <1>5, <3>2, <4>1, <4>2 DEF Incomplete
    <3> QED BY <3>1, <3>2
  <2> QED BY <1>2, <2>1, <2>2 DEF Continues, Emits
<1>6. ASSUME NEW g, g \in FrameType, g.nBlocks \in 1..MAX_NBLOCKS,
             g.state = "Collecting",
             g.at = f.at, g.buffer = f.buffer, g.ticks = f.ticks,
             g.lastCheck = f.buffer, g.symbols = WholeSymbols(f.buffer)
      PROVE  /\ Decode(g).rx = NoFrame \/ Continues(f, Decode(g).rx)
             /\ Emits(f, Decode(g).events)
  <2>1. CASE g.symbols < FrameNeeds(g.nBlocks)
    <3>1. Decode(g) = [rx |-> g, events |-> <<>>]
      BY <2>1 DEF Decode, Then
    <3>2. Incomplete(g)
      BY <1>6, <2>1, ModemAssumption DEF Incomplete
    <3> QED BY <1>6, <3>1, <3>2 DEF Continues, Emits
  <2>2. CASE ~(g.symbols < FrameNeeds(g.nBlocks))
    <3>1. Decode(g) = [rx |-> NoFrame,
                       events |-> <<[kind |-> "message", at |-> g.at,
                                     blocks |-> g.nBlocks]>>]
      BY <2>2 DEF Decode, Then
    <3>2. FrameNeeds(g.nBlocks) <= WholeSymbols(f.buffer)
      BY <1>4, <1>6, <2>2
    <3> QED BY <1>6, <3>1, <3>2 DEF Emits
  <2> QED BY <2>1, <2>2
<1>7. CASE ~(d.symbols < HeaderNeeds) /\ d.nBlocks < 0
  <2>1. r = ReadHeader(d, header)
    BY <1>3, <1>7 DEF TryCompleteFrame, d
  <2>2. CASE header \notin 1..MAX_NBLOCKS
    BY <2>1, <2>2 DEF ReadHeader, Then, Emits
  <2>3. CASE header \in 1..MAX_NBLOCKS
    <3> DEFINE g == [d EXCEPT !.nBlocks = header]
    <3>1. r = Decode(g)
      BY <2>1, <2>3 DEF ReadHeader
    <3>2. /\ g \in FrameType /\ g.nBlocks \in 1..MAX_NBLOCKS
          /\ g.state = "Collecting"
          /\ g.at = f.at /\ g.buffer = f.buffer /\ g.ticks = f.ticks
          /\ g.lastCheck = f.buffer /\ g.symbols = WholeSymbols(f.buffer)
      BY <1>2, <2>3 DEF FrameType
    <3> QED BY <1>6, <3>1, <3>2
  <2> QED BY <2>2, <2>3
<1>8. CASE ~(d.symbols < HeaderNeeds) /\ ~(d.nBlocks < 0)
  <2>1. r = Decode(d)
    BY <1>3, <1>8 DEF TryCompleteFrame, d
  <2>2. d.nBlocks \in 1..MAX_NBLOCKS
    BY <1>1, <1>2, <1>8
  <2> QED BY <1>2, <1>6, <2>1, <2>2
<1> QED BY <1>5, <1>7, <1>8

(***************************************************************************)
(* Once the header has been accepted, there is a message as soon as there  *)
(* are the symbols it announced, and no other end but the timeout.         *)
(***************************************************************************)
LEMMA TryDecides ==
  ASSUME NEW f, Collected(f), f.nBlocks > 0, NEW header
  PROVE  LET r == TryCompleteFrame(f, header)
         IN  \/ r.events # <<>>
             \/ /\ r.rx.state = "Collecting" /\ r.rx.ticks = f.ticks
                /\ WholeSymbols(f.buffer) < FrameNeeds(f.nBlocks)
<1> DEFINE d == Demodulate(f)
           r == TryCompleteFrame(f, header)
<1>1. /\ f.buffer \in Nat /\ f.lastCheck \in Nat /\ f.nBlocks \in 1..MAX_NBLOCKS
  BY DEF Collected, FrameType
<1>2. /\ d.state = "Collecting" /\ d.ticks = f.ticks /\ d.nBlocks = f.nBlocks
      /\ d.symbols = WholeSymbols(f.buffer)
  BY Demodulated
<1>3. ~(f.nBlocks > 0 /\ f.buffer - f.lastCheck < SAMPLES_PER_SYMBOL)
  BY <1>1, SyncAssumption DEF Collected
<1>4. /\ WholeSymbols(f.buffer) \in Nat
      /\ HeaderNeeds \in Nat /\ FrameNeeds(f.nBlocks) \in Nat
      /\ HeaderNeeds <= FrameNeeds(f.nBlocks)
  <2>1. WholeSymbols(f.buffer) \in Nat
    BY <1>1, WholeSymbolsHold
  <2>2. HeaderNeeds \in Nat /\ FrameNeeds(f.nBlocks) \in Nat
    BY <1>1, NeedsAreNumbers, ModemAssumption
  <2>3. HeaderNeeds <= FrameNeeds(f.nBlocks)
    BY <1>1, SyncAssumption, ModemAssumption DEF HeaderNeeds, FrameNeeds
  <2> QED BY <2>1, <2>2, <2>3
<1> HIDE DEF d
<1>5. CASE d.symbols < HeaderNeeds
  <2>1. r = [rx |-> d, events |-> <<>>]
    BY <1>3, <1>5 DEF TryCompleteFrame, Then, d
  <2> QED BY <1>2, <1>4, <1>5, <2>1
<1>6. CASE ~(d.symbols < HeaderNeeds)
  <2>1. ~(d.nBlocks < 0)
    BY <1>1, <1>2, ModemAssumption
  <2>2. r = Decode(d)
    BY <1>3, <1>6, <2>1 DEF TryCompleteFrame, d
  <2>3. CASE d.symbols < FrameNeeds(d.nBlocks)
    BY <1>2, <2>2, <2>3 DEF Decode, Then
  <2>4. CASE ~(d.symbols < FrameNeeds(d.nBlocks))
    BY <2>2, <2>4 DEF Decode, Then
  <2> QED BY <2>3, <2>4
<1> QED BY <1>5, <1>6

\* A step's output, with n samples received: nothing, or one whole message.
Says(emitted, n) ==
  \/ emitted = <<>>
  \/ \E e : /\ emitted = <<e>> /\ e.kind = "message" /\ Whole(e, n)

(***************************************************************************)
(* A message that is emitted has all its samples in the buffer.            *)
(***************************************************************************)
LEMMA EmittedIsWhole ==
  ASSUME NEW f \in FrameType, f.at >= 0, NEW emitted, Emits(f, emitted),
         f.buffer <= PRE_TRIGGER_SAMPLES
                       + (COLLECT_TIMEOUT_CHUNKS + 1) * AUDIO_CHUNK_SAMPLES
  PROVE  Says(emitted, f.at + f.buffer)
<1>1. CASE emitted = <<>>
  BY <1>1 DEF Says
<1>2. CASE emitted # <<>>
  <2>1. PICK b \in 1..MAX_NBLOCKS :
          /\ emitted = <<[kind |-> "message", at |-> f.at, blocks |-> b]>>
          /\ FrameNeeds(b) <= WholeSymbols(f.buffer)
    BY <1>2 DEF Emits
  <2> DEFINE e == [kind |-> "message", at |-> f.at, blocks |-> b]
             w == WholeSymbols(f.buffer)
             need == FrameNeeds(b)
  <2>2. /\ f.buffer \in Nat /\ f.at \in Nat
        /\ b \in Nat /\ need \in Nat
        /\ PRE_TRIGGER_SAMPLES
             + (COLLECT_TIMEOUT_CHUNKS + 1) * AUDIO_CHUNK_SAMPLES \in Nat
    BY NeedsAreNumbers, ModemAssumption DEF FrameType
  <2>3. w \in Nat /\ SAMPLES_PER_SYMBOL * w <= f.buffer
    BY <2>2, WholeSymbolsHold
  <2>4. need <= w
    BY <2>1
  <2> HIDE DEF w, need
  <2>5. need * SAMPLES_PER_SYMBOL <= SAMPLES_PER_SYMBOL * w
    BY <2>2, <2>3, <2>4, SyncAssumption
  <2>6. need * SAMPLES_PER_SYMBOL \in Nat
    BY <2>2, SyncAssumption
  <2>7. /\ f.at + need * SAMPLES_PER_SYMBOL <= f.at + f.buffer
        /\ need * SAMPLES_PER_SYMBOL
             <= PRE_TRIGGER_SAMPLES
                  + (COLLECT_TIMEOUT_CHUNKS + 1) * AUDIO_CHUNK_SAMPLES
    <3> DEFINE size == need * SAMPLES_PER_SYMBOL
               most == PRE_TRIGGER_SAMPLES
                         + (COLLECT_TIMEOUT_CHUNKS + 1) * AUDIO_CHUNK_SAMPLES
    <3>1. size \in Nat /\ most \in Nat /\ size <= f.buffer /\ f.buffer <= most
      BY <2>2, <2>3, <2>5, <2>6, SyncAssumption
    <3> HIDE DEF size, most
    <3>2. f.at + size <= f.at + f.buffer /\ size <= most
      BY <2>2, <3>1
    <3> QED BY <3>2 DEF size, most
  <2>8. Whole(e, f.at + f.buffer)
    BY <2>2, <2>7 DEF Whole, need
  <2> QED BY <2>1, <2>8 DEF Says
<1> QED BY <1>1, <1>2

(* ------------------------------- one chunk ----------------------------- *)

\* A frame with the samples of one more chunk, as Collect() makes it.
Longer(f) == [f EXCEPT !.buffer = @ + AUDIO_CHUNK_SAMPLES]
Grown(f) == [Longer(f) EXCEPT !.ticks = @ + 1]

(***************************************************************************)
(* A chunk lengthens the frame and leaves it within the bounds, with a     *)
(* symbol at least to demodulate.                                          *)
(***************************************************************************)
LEMMA FrameGrows ==
  ASSUME NEW n \in Nat, NEW f, Waiting(f, n)
  PROVE  LET g == Grown(f)
         IN  /\ Collected(g)
             /\ g.at = f.at /\ g.at \in Nat /\ g.at + g.buffer = n + AUDIO_CHUNK_SAMPLES
             /\ g.nBlocks = f.nBlocks
             /\ g.ticks = f.ticks + 1 /\ g.ticks \in 1..(COLLECT_TIMEOUT_CHUNKS + 1)
             /\ g.buffer = f.buffer + AUDIO_CHUNK_SAMPLES /\ g.buffer \in Nat
             /\ g.buffer <= PRE_TRIGGER_SAMPLES + g.ticks * AUDIO_CHUNK_SAMPLES
             /\ g.buffer >= PreambleSamples + g.ticks * AUDIO_CHUNK_SAMPLES
             /\ g.buffer <= PRE_TRIGGER_SAMPLES
                              + (COLLECT_TIMEOUT_CHUNKS + 1) * AUDIO_CHUNK_SAMPLES
             /\ Longer(f).buffer <= MAX_BUFFER_SAMPLES
<1> DEFINE h == Longer(f)
           g == Grown(f)
<1>1. /\ f \in FrameType /\ f.buffer \in Nat /\ f.ticks \in Nat /\ f.at \in Nat
      /\ f.state = "Collecting" /\ f.at + f.buffer = n
      /\ f.lastCheck = f.buffer /\ f.symbols = WholeSymbols(f.buffer)
      /\ f.ticks <= COLLECT_TIMEOUT_CHUNKS
      /\ f.buffer <= PRE_TRIGGER_SAMPLES + f.ticks * AUDIO_CHUNK_SAMPLES
      /\ f.buffer >= PreambleSamples + f.ticks * AUDIO_CHUNK_SAMPLES
  BY DEF Waiting, FrameType
<1>2. /\ AUDIO_CHUNK_SAMPLES \in Nat /\ AUDIO_CHUNK_SAMPLES >= SAMPLES_PER_SYMBOL
      /\ SAMPLES_PER_SYMBOL \in Nat /\ COLLECT_TIMEOUT_CHUNKS \in Nat
      /\ PRE_TRIGGER_SAMPLES \in Nat /\ MAX_BUFFER_SAMPLES \in Nat
      /\ PRE_TRIGGER_SAMPLES + (COLLECT_TIMEOUT_CHUNKS + 1) * AUDIO_CHUNK_SAMPLES
           <= MAX_BUFFER_SAMPLES
      /\ PreambleSamples \in Nat
  BY SyncAssumption, ModemAssumption DEF PreambleSamples
<1>3. /\ g \in FrameType /\ g.state = "Collecting" /\ g.at = f.at
      /\ g.buffer = f.buffer + AUDIO_CHUNK_SAMPLES /\ g.ticks = f.ticks + 1
      /\ g.lastCheck = f.buffer /\ g.symbols = WholeSymbols(f.buffer)
      /\ g.nBlocks = f.nBlocks
      /\ h.buffer = f.buffer + AUDIO_CHUNK_SAMPLES
  <2>1. /\ h \in FrameType /\ h.state = "Collecting" /\ h.at = f.at
        /\ h.buffer = f.buffer + AUDIO_CHUNK_SAMPLES /\ h.ticks = f.ticks
        /\ h.lastCheck = f.buffer /\ h.symbols = WholeSymbols(f.buffer)
        /\ h.nBlocks = f.nBlocks
    BY <1>1, <1>2 DEF FrameType, Longer
  <2>2. g = [h EXCEPT !.ticks = @ + 1]
    BY DEF Grown
  <2> HIDE DEF h, g
  <2>3. h.ticks + 1 \in Nat
    BY <1>1, <2>1
  <2> QED BY <2>1, <2>2, <2>3 DEF FrameType
<1> HIDE DEF g, h
<1>4. /\ g.buffer <= PRE_TRIGGER_SAMPLES + g.ticks * AUDIO_CHUNK_SAMPLES
      /\ g.buffer >= PreambleSamples + g.ticks * AUDIO_CHUNK_SAMPLES
  <2> DEFINE t == f.ticks * AUDIO_CHUNK_SAMPLES
  <2>1. t \in Nat /\ (f.ticks + 1) * AUDIO_CHUNK_SAMPLES = t + AUDIO_CHUNK_SAMPLES
    BY <1>1, <1>2
  <2>2. f.buffer <= PRE_TRIGGER_SAMPLES + t /\ f.buffer >= PreambleSamples + t
    BY <1>1
  <2> HIDE DEF t
  <2> QED BY <1>1, <1>2, <1>3, <2>1, <2>2
<1>5. g.ticks \in 1..(COLLECT_TIMEOUT_CHUNKS + 1) /\ g.buffer \in Nat
  BY <1>1, <1>2, <1>3
<1>6. /\ g.buffer <= PRE_TRIGGER_SAMPLES
                       + (COLLECT_TIMEOUT_CHUNKS + 1) * AUDIO_CHUNK_SAMPLES
      /\ g.buffer <= MAX_BUFFER_SAMPLES
  <2> DEFINE t == g.ticks * AUDIO_CHUNK_SAMPLES
             m == (COLLECT_TIMEOUT_CHUNKS + 1) * AUDIO_CHUNK_SAMPLES
  <2>1. t \in Nat /\ m \in Nat /\ t <= m
    BY <1>2, <1>5
  <2>2. /\ g.buffer <= PRE_TRIGGER_SAMPLES + t
        /\ PRE_TRIGGER_SAMPLES + m <= MAX_BUFFER_SAMPLES
    BY <1>2, <1>4
  <2> HIDE DEF t, m
  <2>3. g.buffer <= PRE_TRIGGER_SAMPLES + m /\ g.buffer <= MAX_BUFFER_SAMPLES
    BY <1>2, <1>5, <2>1, <2>2
  <2> QED BY <2>3 DEF m
<1>7. Collected(g)
  <2>1. g.lastCheck <= g.buffer /\ g.buffer - g.lastCheck >= SAMPLES_PER_SYMBOL
    BY <1>1, <1>2, <1>3
  <2> QED BY <1>1, <1>3, <2>1 DEF Collected
<1>8. g.at + g.buffer = n + AUDIO_CHUNK_SAMPLES
  <2>1. /\ f.at \in Nat /\ f.buffer \in Nat /\ f.at + f.buffer = n
        /\ AUDIO_CHUNK_SAMPLES \in Nat
        /\ g.at = f.at /\ g.buffer = f.buffer + AUDIO_CHUNK_SAMPLES
    BY <1>1, <1>2, <1>3
  <2> QED BY <2>1
<1>9. h.buffer <= MAX_BUFFER_SAMPLES
  BY <1>3, <1>6
<1> QED BY <1>1, <1>3, <1>4, <1>5, <1>6, <1>7, <1>8, <1>9 DEF g, h

(***************************************************************************)
(* The limit on the buffer is never reached, because the timeout comes     *)
(* first: only the timeout undoes what tryCompleteFrame() left.            *)
(***************************************************************************)
LEMMA TimeoutComesFirst ==
  ASSUME NEW n \in Nat, NEW f, Waiting(f, n), NEW header
  PROVE  LET tried == TryCompleteFrame(Grown(f), header)
         IN  Collect(f, header) =
               IF tried.rx.ticks > COLLECT_TIMEOUT_CHUNKS
               THEN [rx |-> NoFrame, events |-> tried.events] ELSE tried
<1> DEFINE tried == TryCompleteFrame(Grown(f), header)
<1>1. Longer(f).buffer <= MAX_BUFFER_SAMPLES
  BY FrameGrows
<1>2. Longer(f).buffer \in Nat /\ MAX_BUFFER_SAMPLES \in Nat
  BY ModemAssumption DEF Longer, Waiting, FrameType
<1>3. ~(Longer(f).buffer > MAX_BUFFER_SAMPLES)
  BY <1>1, <1>2
<1>4. Collect(f, header) =
        IF Longer(f).buffer > MAX_BUFFER_SAMPLES THEN Then(NoFrame, <<>>)
        ELSE IF tried.rx.ticks > COLLECT_TIMEOUT_CHUNKS
             THEN Then(NoFrame, tried.events) ELSE tried
  BY Zenon DEF Collect, Longer, Grown
<1> QED BY <1>3, <1>4 DEF Then

(***************************************************************************)
(* A chunk for a frame under way: it is completed, given up or waited for. *)
(***************************************************************************)
LEMMA Collects ==
  ASSUME NEW n \in Nat, NEW f, Waiting(f, n), NEW header \in Headers
  PROVE  LET done == Collect(f, header)
         IN  /\ \/ done.rx = NoFrame
                \/ Waiting(done.rx, n + AUDIO_CHUNK_SAMPLES)
             /\ Says(done.events, n + AUDIO_CHUNK_SAMPLES)
<1> DEFINE g == Grown(f)
           tried == TryCompleteFrame(g, header)
           done == Collect(f, header)
<1> SUFFICES /\ done.rx = NoFrame \/ Waiting(done.rx, n + AUDIO_CHUNK_SAMPLES)
             /\ Says(done.events, n + AUDIO_CHUNK_SAMPLES)
  OBVIOUS
<1>1. /\ Collected(g) /\ g.at \in Nat /\ g.at + g.buffer = n + AUDIO_CHUNK_SAMPLES
      /\ g.buffer \in Nat
      /\ g.buffer <= PRE_TRIGGER_SAMPLES + g.ticks * AUDIO_CHUNK_SAMPLES
      /\ g.buffer >= PreambleSamples + g.ticks * AUDIO_CHUNK_SAMPLES
      /\ g.buffer <= PRE_TRIGGER_SAMPLES
                       + (COLLECT_TIMEOUT_CHUNKS + 1) * AUDIO_CHUNK_SAMPLES
  BY FrameGrows
<1>2. /\ done = IF tried.rx.ticks > COLLECT_TIMEOUT_CHUNKS
                THEN [rx |-> NoFrame, events |-> tried.events] ELSE tried
  BY TimeoutComesFirst
<1> HIDE DEF g
<1>3. /\ tried.rx = NoFrame \/ Continues(g, tried.rx)
      /\ Emits(g, tried.events)
  BY <1>1, TryCompletes
<1>4. Says(tried.events, n + AUDIO_CHUNK_SAMPLES)
  <2>1. g \in FrameType /\ g.at >= 0
    BY <1>1 DEF Collected
  <2> QED BY <1>1, <1>3, <2>1, EmittedIsWhole
<1> HIDE DEF tried, done
<1>5. CASE tried.rx.ticks > COLLECT_TIMEOUT_CHUNKS
  BY <1>2, <1>4, <1>5
<1>6. CASE ~(tried.rx.ticks > COLLECT_TIMEOUT_CHUNKS)
  <2>1. done = tried
    BY <1>2, <1>6
  <2>2. CASE tried.rx = NoFrame
    BY <1>4, <2>1, <2>2
  <2>3. CASE Continues(g, tried.rx)
    <3>1. tried.rx.ticks \in Nat /\ COLLECT_TIMEOUT_CHUNKS \in Nat
      BY <2>3, ModemAssumption DEF Continues, FrameType
    <3>2. Waiting(tried.rx, n + AUDIO_CHUNK_SAMPLES)
      BY <1>1, <1>6, <2>3, <3>1 DEF Continues, Waiting, Collected
    <3> QED BY <1>4, <2>1, <3>2
  <2> QED BY <1>3, <2>2, <2>3
<1> QED BY <1>5, <1>6

(***************************************************************************)
(* A frame of known length that ends without a message was too long.       *)
(***************************************************************************)
LEMMA GivenUpForLength ==
  ASSUME NEW n \in Nat, NEW f, Waiting(f, n), f.nBlocks > 0, NEW header,
         Collect(f, header).rx.state = "Idle", Collect(f, header).events = <<>>
  PROVE  FrameNeeds(f.nBlocks) * SAMPLES_PER_SYMBOL
           > PreambleSamples + (COLLECT_TIMEOUT_CHUNKS + 1) * AUDIO_CHUNK_SAMPLES
<1> DEFINE g == Grown(f)
           tried == TryCompleteFrame(g, header)
           w == WholeSymbols(g.buffer)
           need == FrameNeeds(f.nBlocks)
           m == (COLLECT_TIMEOUT_CHUNKS + 1) * AUDIO_CHUNK_SAMPLES
<1>1. /\ Collected(g) /\ g.nBlocks = f.nBlocks /\ g.buffer \in Nat
      /\ g.ticks \in 1..(COLLECT_TIMEOUT_CHUNKS + 1)
      /\ g.buffer >= PreambleSamples + g.ticks * AUDIO_CHUNK_SAMPLES
  BY FrameGrows
<1>2. Collect(f, header) =
        IF tried.rx.ticks > COLLECT_TIMEOUT_CHUNKS
        THEN [rx |-> NoFrame, events |-> tried.events] ELSE tried
  BY TimeoutComesFirst
<1> HIDE DEF g
<1>3. \/ tried.events # <<>>
      \/ tried.rx.state = "Collecting" /\ tried.rx.ticks = g.ticks /\ w < need
  BY <1>1, TryDecides
<1> HIDE DEF tried, w, need
<1>4. tried.events = <<>>
  BY <1>2
<1>5. tried.rx.ticks > COLLECT_TIMEOUT_CHUNKS
  BY <1>2, <1>3, <1>4
<1>6. g.ticks = COLLECT_TIMEOUT_CHUNKS + 1 /\ w < need
  <2>1. g.ticks > COLLECT_TIMEOUT_CHUNKS /\ w < need
    BY <1>3, <1>4, <1>5
  <2> QED BY <1>1, <2>1, ModemAssumption
<1>7. /\ w \in Nat /\ need \in Nat /\ m \in Nat /\ PreambleSamples \in Nat
      /\ g.buffer < SAMPLES_PER_SYMBOL * w + SAMPLES_PER_SYMBOL
  <2>1. w \in Nat /\ g.buffer < SAMPLES_PER_SYMBOL * w + SAMPLES_PER_SYMBOL
    BY <1>1, WholeSymbolsHold DEF w
  <2>2. f.nBlocks \in Nat
    BY ModemAssumption DEF Waiting, FrameType
  <2>3. need \in Nat
    BY <2>2, NeedsAreNumbers DEF need
  <2>4. m \in Nat /\ PreambleSamples \in Nat
    BY SyncAssumption, ModemAssumption DEF PreambleSamples
  <2> QED BY <2>1, <2>3, <2>4
<1>8. g.buffer >= PreambleSamples + m
  BY <1>1, <1>6
<1>9. SAMPLES_PER_SYMBOL * w + SAMPLES_PER_SYMBOL <= need * SAMPLES_PER_SYMBOL
  <2>1. w + 1 <= need /\ SAMPLES_PER_SYMBOL \in Nat
    BY <1>6, <1>7, SyncAssumption
  <2>2. SAMPLES_PER_SYMBOL * (w + 1) <= need * SAMPLES_PER_SYMBOL
    BY <1>7, <2>1
  <2> QED BY <1>7, <2>1, <2>2
<1>10. need * SAMPLES_PER_SYMBOL \in Nat /\ SAMPLES_PER_SYMBOL * w \in Nat
       /\ SAMPLES_PER_SYMBOL \in Nat
  BY <1>7, SyncAssumption
<1> HIDE DEF m
<1>11. need * SAMPLES_PER_SYMBOL > PreambleSamples + m
  BY <1>1, <1>7, <1>8, <1>9, <1>10
<1> QED BY <1>11 DEF need, m

\* Every message among these events is whole, n samples having been received.
AllWhole(emitted, n) ==
  \A i \in 1..Len(emitted) : emitted[i].kind = "message" => Whole(emitted[i], n)

(***************************************************************************)
(* The output of a step, alone or after the event of a lock, contains      *)
(* whole messages only.                                                    *)
(***************************************************************************)
LEMMA SaidIsWhole ==
  ASSUME NEW n, NEW emitted, Says(emitted, n), NEW p
  PROVE  /\ AllWhole(emitted, n)
         /\ AllWhole(<<[kind |-> "preamble", at |-> p]>> \o emitted, n)
<1> DEFINE lock == [kind |-> "preamble", at |-> p]
<1>0. lock.kind = "preamble"
  OBVIOUS
<1> HIDE DEF lock
<1>1. CASE emitted = <<>>
  BY <1>0, <1>1 DEF AllWhole, lock
<1>2. CASE emitted # <<>>
  <2>1. PICK e : emitted = <<e>> /\ e.kind = "message" /\ Whole(e, n)
    BY <1>2 DEF Says
  <2>2. AllWhole(<<e>>, n)
    BY <2>1 DEF AllWhole
  <2>3. AllWhole(<<lock>> \o <<e>>, n)
    <3> DEFINE S == {lock, e}
               both == <<lock>> \o <<e>>
    <3>1. <<lock>> \in Seq(S) /\ <<e>> \in Seq(S)
      OBVIOUS
    <3> HIDE DEF S
    <3>2. Len(<<lock>>) = 1 /\ Len(<<e>>) = 1
      OBVIOUS
    <3>3. Len(both) = 2 /\ both[1] = <<lock>>[1] /\ both[2] = <<e>>[1]
      BY <3>1, <3>2, ConcatProperties
    <3> HIDE DEF both
    <3>4. Len(both) = 2 /\ both[1] = lock /\ both[2] = e
      BY <3>3
    <3>5. AllWhole(both, n)
      BY <1>0, <2>1, <3>4 DEF AllWhole
    <3> QED BY <3>5 DEF both
  <2> QED BY <2>1, <2>2, <2>3 DEF lock
<1> QED BY <1>1, <1>2

(***************************************************************************)
(* The messages among the events, by their place in the sequence.          *)
(***************************************************************************)
LEMMA MessagesByIndex == Messages <=> AllWhole(events, counter)
BY DEF Messages, AllWhole, Reported

(***************************************************************************)
(* Trimming keeps the count of what was dropped (MfskModem.cpp:112-117,    *)
(* 134-139).                                                               *)
(***************************************************************************)
LEMMA RollingCounts ==
  ASSUME Counts, RollPreTrigger, counter' = counter + AUDIO_CHUNK_SAMPLES
  PROVE  Counts'
BY ModemAssumption DEF Counts, RollPreTrigger, Excess

(***************************************************************************)
(* A frame cut out of m_preTrigger, leaving room for a preamble: it ends   *)
(* where the audio ends, and is completed at once or waited for            *)
(* (MfskModem.cpp:155-168, 197-244).                                       *)
(***************************************************************************)
LEMMA CutFrame ==
  ASSUME NEW size \in 0..PRE_TRIGGER_SAMPLES, NEW gone \in Nat,
         NEW offset \in 0..(size - PreambleSamples), NEW header \in Headers
  PROVE  LET f == [NoFrame EXCEPT !.state = "Collecting",
                                  !.buffer = size - offset, !.at = gone + offset]
             tried == TryCompleteFrame(f, header)
         IN  /\ tried.rx = NoFrame \/ Waiting(tried.rx, gone + size)
             /\ Says(tried.events, gone + size)
<1> DEFINE f == [NoFrame EXCEPT !.state = "Collecting",
                                !.buffer = size - offset, !.at = gone + offset]
           tried == TryCompleteFrame(f, header)
           now == gone + size
<1> SUFFICES /\ tried.rx = NoFrame \/ Waiting(tried.rx, now)
             /\ Says(tried.events, now)
  OBVIOUS
<1>1. PRE_TRIGGER_SAMPLES \in Nat /\ PreambleSamples \in Nat
  BY SyncAssumption, ModemAssumption DEF PreambleSamples
<1>2. /\ offset \in Nat /\ size - offset \in Nat /\ gone + offset \in Nat
      /\ size - offset <= PRE_TRIGGER_SAMPLES /\ size - offset >= PreambleSamples
      /\ gone + offset + (size - offset) = now /\ now \in Nat
  BY <1>1
<1>3. /\ f \in FrameType /\ f.state = "Collecting"
      /\ f.buffer = size - offset /\ f.at = gone + offset
      /\ f.nBlocks = -1 /\ f.lastCheck = 0 /\ f.symbols = 0 /\ f.ticks = 0
  BY <1>2 DEF NoFrame, FrameType
<1>4. WholeSymbols(0) = 0
  BY SyncAssumption, WholeSymbolsUnique
<1> HIDE DEF f, now
<1>5. /\ f.at \in Nat /\ f.buffer \in Nat /\ f.at + f.buffer = now
      /\ f.buffer <= PRE_TRIGGER_SAMPLES /\ f.buffer >= PreambleSamples
  BY <1>2, <1>3
<1>6. Collected(f)
  BY <1>3, <1>4, <1>5 DEF Collected
<1>7. /\ tried.rx = NoFrame \/ Continues(f, tried.rx)
      /\ Emits(f, tried.events)
  BY <1>6, TryCompletes
<1>8. f.buffer <= PRE_TRIGGER_SAMPLES
                    + (COLLECT_TIMEOUT_CHUNKS + 1) * AUDIO_CHUNK_SAMPLES
  <2> DEFINE m == (COLLECT_TIMEOUT_CHUNKS + 1) * AUDIO_CHUNK_SAMPLES
  <2>1. m \in Nat
    BY ModemAssumption
  <2> HIDE DEF m
  <2>2. f.buffer <= PRE_TRIGGER_SAMPLES + m
    BY <1>1, <1>5, <2>1
  <2> QED BY <2>2 DEF m
<1>9. Says(tried.events, now)
  <2>1. f.at >= 0 /\ f.at + f.buffer = now
    BY <1>5
  <2>2. Says(tried.events, f.at + f.buffer)
    BY <1>3, <1>7, <1>8, <2>1, EmittedIsWhole
  <2> QED BY <2>1, <2>2
<1> HIDE DEF tried
<1>10. ASSUME Continues(f, tried.rx) PROVE Waiting(tried.rx, now)
  <2>1. /\ 0 * AUDIO_CHUNK_SAMPLES = 0 /\ 0 <= COLLECT_TIMEOUT_CHUNKS
        /\ PRE_TRIGGER_SAMPLES + 0 = PRE_TRIGGER_SAMPLES
        /\ PreambleSamples + 0 = PreambleSamples
    BY <1>1, ModemAssumption
  <2> QED BY <1>3, <1>5, <1>10, <2>1 DEF Continues, Waiting
<1> QED BY <1>7, <1>9, <1>10

(***************************************************************************)
(* A chunk while idle keeps the counts, and cuts out a frame or none.      *)
(***************************************************************************)
LEMMA IdleChunk ==
  ASSUME Counts, rx = NoFrame, NEW heard, NEW header \in Headers,
         ChunkWhileIdle(heard, header)
  PROVE  Counts' /\ Frames' /\ Messages'
<1>1. counter' = counter + AUDIO_CHUNK_SAMPLES /\ RollPreTrigger
  BY DEF ChunkWhileIdle, Synchronize
<1>2. Counts'
  BY <1>1, RollingCounts
<1> SUFFICES Frames' /\ AllWhole(events', counter')
  BY <1>2 DEF Messages, AllWhole, Reported
<1>3. CASE rx' = rx /\ events' = <<>>
  BY <1>3 DEF Frames, AllWhole
<1>4. CASE rx' = rx /\ events' = <<[kind |-> "outOfRange", at |-> heard.lock]>>
  BY <1>4 DEF Frames, AllWhole
<1>5. ASSUME NEW offset \in 0..(preTrigger' - PreambleSamples),
             rx' = TryCompleteFrame(Locked(offset), header).rx,
             events' = <<[kind |-> "preamble", at |-> heard.lock]>>
                         \o TryCompleteFrame(Locked(offset), header).events
      PROVE  Frames' /\ AllWhole(events', counter')
  <2> DEFINE tried == TryCompleteFrame(Locked(offset), header)
  <2>1. /\ preTrigger' \in 0..PRE_TRIGGER_SAMPLES /\ dropped' \in Nat
        /\ dropped' + preTrigger' = counter'
    BY <1>2 DEF Counts
  <2>2. /\ tried.rx = NoFrame \/ Waiting(tried.rx, dropped' + preTrigger')
        /\ Says(tried.events, dropped' + preTrigger')
    BY <2>1, CutFrame DEF Locked
  <2>3. rx' = tried.rx
        /\ events' = <<[kind |-> "preamble", at |-> heard.lock]>> \o tried.events
    BY <1>5
  <2> HIDE DEF tried
  <2>4. AllWhole(events', counter')
    BY <2>1, <2>2, <2>3, SaidIsWhole
  <2> QED BY <2>1, <2>2, <2>3, <2>4 DEF Frames
<1> QED BY <1>3, <1>4, <1>5 DEF ChunkWhileIdle

(***************************************************************************)
(* A chunk while collecting.                                               *)
(***************************************************************************)
LEMMA CollectingChunk ==
  ASSUME Counts, Waiting(rx, counter), NEW heard, NEW header \in Headers,
         ChunkWhileCollecting(heard, header)
  PROVE  Counts' /\ Frames' /\ Messages'
<1>1. /\ counter' = counter + AUDIO_CHUNK_SAMPLES /\ RollPreTrigger
      /\ rx' = Collect(rx, header).rx /\ events' = Collect(rx, header).events
  BY DEF ChunkWhileCollecting, Synchronize
<1>2. Counts'
  BY <1>1, RollingCounts
<1>3. counter \in Nat
  BY DEF Counts
<1>4. /\ rx' = NoFrame \/ Waiting(rx', counter')
      /\ Says(events', counter')
  BY <1>1, <1>3, Collects
<1>5. AllWhole(events', counter')
  BY <1>4, SaidIsWhole
<1> QED BY <1>2, <1>4, <1>5 DEF Frames, Messages, AllWhole, Reported
(* ------------------------------ invariance ----------------------------- *)

(***************************************************************************)
(* A receiver that has just been made satisfies the invariant.             *)
(***************************************************************************)
LEMMA InitHolds == Init => IInv
<1> SUFFICES ASSUME Init PROVE IInv
  OBVIOUS
<1>1. Counts
  BY ModemAssumption DEF Init, ModemInit, Counts
<1>2. Frames /\ Flags
  BY DEF Init, ModemInit, Frames, Flags, NoFrame
<1>3. Messages
  BY DEF Init, ModemInit, Messages, Reported
<1> QED BY <1>1, <1>2, <1>3 DEF IInv

(***************************************************************************)
(* No chunk, transmission or change of mode breaks it.                     *)
(***************************************************************************)
LEMMA StepHolds == IInv /\ [Next]_vars => IInv'
<1> SUFFICES ASSUME IInv, [Next]_vars PROVE IInv'
  OBVIOUS
<1>1. Counts /\ Frames /\ Flags /\ Messages
  BY DEF IInv
<1>2. CASE OnAudioChunk
  <2>1. PollModemStatus /\ transmitting' = transmitting
    BY <1>2 DEF OnAudioChunk
  <2>2. CASE ChunkWhileSuspended
    <3>1. /\ counter' = counter /\ preTrigger' = preTrigger
          /\ dropped' = dropped /\ rx' = rx /\ suspended' = suspended
          /\ events' = <<>>
      BY <2>2 DEF ChunkWhileSuspended
    <3>2. Counts' /\ Frames'
      BY <1>1, <3>1 DEF Counts, Frames
    <3>3. Flags'
      BY <1>1, <2>1, <3>1 DEF Flags, PollModemStatus
    <3>4. Messages'
      BY <3>1 DEF Messages, Reported
    <3> QED BY <3>2, <3>3, <3>4 DEF IInv
  <2>3. ASSUME NEW heard, NEW header \in Headers,
               \/ ChunkWhileCollecting(heard, header)
               \/ ChunkWhileIdle(heard, header)
        PROVE  IInv'
    <3>1. Counts' /\ Frames' /\ Messages'
      <4>1. CASE ChunkWhileCollecting(heard, header)
        <5>1. Waiting(rx, counter)
          BY <1>1, <4>1 DEF Frames, ChunkWhileCollecting, NoFrame
        <5> QED BY <1>1, <4>1, <5>1, CollectingChunk
      <4>2. CASE ChunkWhileIdle(heard, header)
        <5>1. rx = NoFrame
          BY <1>1, <4>2 DEF Frames, ChunkWhileIdle, Waiting
        <5> QED BY <1>1, <4>2, <5>1, IdleChunk
      <4> QED BY <2>3, <4>1, <4>2
    <3>2. ~suspended /\ suspended' = suspended
      BY <2>3 DEF ChunkWhileCollecting, ChunkWhileIdle
    <3>3. Flags'
      BY <1>1, <2>1, <3>2 DEF Flags, PollModemStatus
    <3> QED BY <3>1, <3>3 DEF IInv
  <2> QED BY <1>2, <2>2, <2>3 DEF OnAudioChunk, ProcessAudioChunk
<1>3. CASE Transmit \/ OnTxComplete
  <2>1. /\ counter' = counter /\ preTrigger' = preTrigger
        /\ dropped' = dropped /\ rx' = rx /\ events' = <<>>
        /\ polled' = polled /\ shown' = shown
    BY <1>3 DEF Transmit, OnTxComplete
  <2>2. transmitting' \in BOOLEAN /\ suspended' = transmitting'
    BY <1>3 DEF Transmit, OnTxComplete
  <2>3. Counts' /\ Frames'
    BY <1>1, <2>1 DEF Counts, Frames
  <2>4. Flags'
    BY <1>1, <2>1, <2>2 DEF Flags
  <2>5. Messages'
    BY <2>1 DEF Messages, Reported
  <2> QED BY <2>3, <2>4, <2>5 DEF IInv
<1>4. CASE SetMode
  <2>1. /\ ~transmitting /\ transmitting' = transmitting
        /\ counter' = 0 /\ preTrigger' = 0 /\ dropped' = 0 /\ rx' = NoFrame
        /\ suspended' = FALSE /\ events' = <<>>
        /\ polled' = "Idle" /\ shown' = "Idle"
    BY <1>4 DEF SetMode
  <2>2. Counts' /\ Frames'
    BY <2>1, ModemAssumption DEF Counts, Frames
  <2>3. Flags'
    BY <1>1, <2>1 DEF Flags, NoFrame
  <2>4. Messages'
    BY <2>1 DEF Messages, Reported
  <2> QED BY <2>2, <2>3, <2>4 DEF IInv
<1>5. CASE UNCHANGED vars
  <2>1. /\ counter' = counter /\ preTrigger' = preTrigger
        /\ dropped' = dropped /\ rx' = rx /\ events' = events
        /\ polled' = polled /\ shown' = shown
        /\ transmitting' = transmitting /\ suspended' = suspended
    BY <1>5 DEF vars, modemVars
  <2>2. Counts' /\ Frames' /\ Flags'
    BY <1>1, <2>1 DEF Counts, Frames, Flags
  <2>3. Messages'
    BY <1>1, <2>1 DEF Messages, Reported
  <2> QED BY <2>2, <2>3 DEF IInv
<1> QED BY <1>2, <1>3, <1>4, <1>5 DEF Next

(***************************************************************************)
(* What the invariant says of the frame under way.                         *)
(***************************************************************************)
LEMMA FramesHold ==
  ASSUME IInv
  PROVE  TypeOK /\ BuffersAgree /\ CacheMatchesFrame /\ FrameIsIncomplete
         /\ CollectionIsBounded
<1>1. Counts /\ Frames /\ Flags
  BY DEF IInv
<1>2. CASE rx = NoFrame
  <2>1. /\ rx.state = "Idle" /\ rx.buffer = 0 /\ rx.symbols = 0
        /\ rx.ticks = 0 /\ rx \in FrameType
    BY <1>2 DEF NoFrame, FrameType
  <2>2. WholeSymbols(0) = 0
    BY SyncAssumption, WholeSymbolsUnique
  <2>3. TypeOK
    BY <1>1, <2>1 DEF Counts, Flags, TypeOK, FrameType
  <2>4. BuffersAgree /\ CacheMatchesFrame /\ FrameIsIncomplete
    BY <1>1, <1>2, <2>1, <2>2
    DEF Counts, BuffersAgree, CacheMatchesFrame, FrameIsIncomplete
  <2>5. CollectionIsBounded
    <3>1. /\ COLLECT_TIMEOUT_CHUNKS \in Nat /\ PRE_TRIGGER_SAMPLES \in Nat
          /\ MAX_BUFFER_SAMPLES \in Nat /\ 0 * AUDIO_CHUNK_SAMPLES = 0
      BY ModemAssumption
    <3> QED BY <2>1, <3>1 DEF CollectionIsBounded
  <2> QED BY <2>3, <2>4, <2>5
<1>3. CASE Waiting(rx, counter)
  <2>1. /\ rx \in FrameType /\ rx.state = "Collecting" /\ rx.at >= 0
        /\ rx.at + rx.buffer = counter /\ rx.symbols = WholeSymbols(rx.buffer)
        /\ Incomplete(rx) /\ rx.ticks <= COLLECT_TIMEOUT_CHUNKS
        /\ rx.buffer <= PRE_TRIGGER_SAMPLES + rx.ticks * AUDIO_CHUNK_SAMPLES
        /\ rx.ticks \in Nat /\ rx.buffer \in Nat
    BY <1>3 DEF Waiting, FrameType
  <2>2. TypeOK
    BY <1>1, <2>1 DEF Counts, Flags, TypeOK, FrameType
  <2>3. BuffersAgree /\ CacheMatchesFrame /\ FrameIsIncomplete
    BY <1>1, <2>1
    DEF Counts, BuffersAgree, CacheMatchesFrame, FrameIsIncomplete, Incomplete
  <2>4. rx.buffer <= MAX_BUFFER_SAMPLES
    <3> DEFINE t == rx.ticks * AUDIO_CHUNK_SAMPLES
               m == (COLLECT_TIMEOUT_CHUNKS + 1) * AUDIO_CHUNK_SAMPLES
    <3>1. AUDIO_CHUNK_SAMPLES \in Nat /\ COLLECT_TIMEOUT_CHUNKS \in Nat
          /\ PRE_TRIGGER_SAMPLES \in Nat /\ MAX_BUFFER_SAMPLES \in Nat
      BY ModemAssumption
    <3>2. t \in Nat /\ m \in Nat /\ t <= m
      BY <2>1, <3>1
    <3>3. rx.buffer <= PRE_TRIGGER_SAMPLES + t
          /\ PRE_TRIGGER_SAMPLES + m <= MAX_BUFFER_SAMPLES
      BY <2>1, ModemAssumption
    <3> HIDE DEF t, m
    <3> QED BY <2>1, <3>1, <3>2, <3>3
  <2>5. CollectionIsBounded
    BY <2>1, <2>4 DEF CollectionIsBounded
  <2> QED BY <2>2, <2>3, <2>5
<1> QED BY <1>1, <1>2, <1>3 DEF Frames

(***************************************************************************)
(* The inductive invariant: counts, frame, flags and messages together.    *)
(***************************************************************************)
THEOREM Invariance == Spec => []IInv
<1>1. Init => IInv
  BY InitHolds
<1>2. IInv /\ [Next]_vars => IInv'
  BY StepHolds
<1> QED BY <1>1, <1>2, PTL DEF Spec

(***************************************************************************)
(* The type invariant.                                                     *)
(***************************************************************************)
THEOREM ReceiverTypes == Spec => []TypeOK
<1>1. IInv => TypeOK
  BY FramesHold
<1> QED BY <1>1, Invariance, PTL

(***************************************************************************)
(* The positions of the detector and of the buffers agree at all times, so *)
(* that every frame is cut at the sample where its preamble began.         *)
(***************************************************************************)
THEOREM CountsAgree == Spec => []BuffersAgree
<1>1. IInv => BuffersAgree
  BY FramesHold
<1> QED BY <1>1, Invariance, PTL

(***************************************************************************)
(* Demodulating in pieces gives the symbols of the whole, and a finished,  *)
(* refused or abandoned frame leaves nothing behind.                       *)
(***************************************************************************)
THEOREM CacheIsFaithful == Spec => []CacheMatchesFrame
<1>1. IInv => CacheMatchesFrame
  BY FramesHold
<1> QED BY <1>1, Invariance, PTL

(***************************************************************************)
(* A frame never waits once all its symbols are there.                     *)
(***************************************************************************)
THEOREM FramesAreDecodedAtOnce == Spec => []FrameIsIncomplete
<1>1. IInv => FrameIsIncomplete
  BY FramesHold
<1> QED BY <1>1, Invariance, PTL

(***************************************************************************)
(* A collection ends by the timeout, and its buffer stays below the limit. *)
(***************************************************************************)
THEOREM CollectionEnds == Spec => []CollectionIsBounded
<1>1. IInv => CollectionIsBounded
  BY FramesHold
<1> QED BY <1>1, Invariance, PTL

(***************************************************************************)
(* An accepted frame that fits in the timeout is never given up: only the  *)
(* longer ones can end without a message.                                  *)
(***************************************************************************)
THEOREM ShortFramesArrive == Spec => OnlyLongFramesAreGivenUp
<1> DEFINE long == FrameNeeds(rx.nBlocks) * SAMPLES_PER_SYMBOL
                     > PreambleSamples
                         + (COLLECT_TIMEOUT_CHUNKS + 1) * AUDIO_CHUNK_SAMPLES
<1>1. IInv /\ [Next]_vars => [GivenUp => long]_vars
  <2> SUFFICES ASSUME IInv, Next, GivenUp PROVE long
    BY DEF vars, modemVars, GivenUp
  <2>1. counter \in Nat /\ counter' # counter
    BY DEF IInv, Counts, GivenUp
  <2>2. rx # NoFrame
    BY DEF GivenUp, NoFrame
  <2>3. Waiting(rx, counter)
    BY <2>2 DEF IInv, Frames
  <2>4. OnAudioChunk
    BY <2>1 DEF Next, Transmit, OnTxComplete, SetMode, GivenUp
  <2>5. PICK heard : \E header \in Headers : ChunkWhileCollecting(heard, header)
    <3>1. ~ChunkWhileSuspended /\ rx.state = "Collecting"
      BY <2>1, <2>3 DEF ChunkWhileSuspended, Waiting
    <3> QED BY <2>4, <3>1 DEF OnAudioChunk, ProcessAudioChunk, ChunkWhileIdle
  <2>6. PICK header \in Headers : ChunkWhileCollecting(heard, header)
    BY <2>5
  <2>7. rx' = Collect(rx, header).rx /\ events' = Collect(rx, header).events
    BY <2>6 DEF ChunkWhileCollecting
  <2> QED BY <2>1, <2>3, <2>7, GivenUpForLength DEF GivenUp
<1> QED BY <1>1, Invariance, PTL DEF Spec, OnlyLongFramesAreGivenUp

(***************************************************************************)
(* A message is decoded from samples that have all been received.          *)
(***************************************************************************)
THEOREM NoMessageFromNothing == Spec => []MessagesAreWhole
<1>1. IInv => MessagesAreWhole
  BY DEF IInv, Messages, MessagesAreWhole, Whole
<1> QED BY <1>1, Invariance, PTL

(***************************************************************************)
(* The operator is shown the state the receiver is in.                     *)
(***************************************************************************)
THEOREM DisplayIsTrue == Spec => []ShownIsTrue
<1>1. IInv => ShownIsTrue
  BY DEF IInv, Flags, ShownIsTrue
<1> QED BY <1>1, Invariance, PTL

(* ----------------------------- the detector ---------------------------- *)

Detector ==
  [inRun : BOOLEAN, best : Nat, bestAt : Int, length : Nat, lastEnd : Int,
   found : BOOLEAN, lock : Int, chainAt : Nat]

\* The preamble that began at this position ended within the present chain,
\* n samples having been received.
InChain(at, s, n) == at + PreambleSamples \in s.chainAt + 1..n

\* A detector after n samples, those of the present chunk from c on.
Hearing(s, c, n) ==
  /\ s \in Detector
  /\ s.chainAt <= n /\ s.lastEnd < n
  /\ s.inRun => s.best > 0
  /\ s.best > 0 => InChain(s.bestAt, s, n)
  /\ s.found => s.lastEnd >= c /\ InChain(s.lock, s, n)

(***************************************************************************)
(* The sizes that the detector compares are numbers.                       *)
(***************************************************************************)
LEMMA SizesAreNumbers ==
  /\ PreambleSamples \in Nat /\ REACH_BACK \in Nat
  /\ MAX_RUN_SAMPLES \in Nat /\ RESET_GAP_SAMPLES = PreambleSamples
  /\ AUDIO_CHUNK_SAMPLES \in Nat /\ AUDIO_CHUNK_SAMPLES <= RESET_GAP_SAMPLES
BY SyncAssumption, ModemAssumption
DEF PreambleSamples, REACH_BACK, MAX_RUN_SAMPLES, RESET_GAP_SAMPLES

(***************************************************************************)
(* The fields after a sample above the threshold has been taken into a     *)
(* run.                                                                    *)
(***************************************************************************)
LEMMA RunStarts ==
  ASSUME NEW s \in Detector, NEW now \in Nat,
         NEW r, r = StartRun(Chained(s, now), now)
  PROVE  LET same == s.inRun \/ SameChain(s, now)
         IN  /\ r \in Detector /\ r.inRun
             /\ r.best = IF same THEN s.best ELSE 0
             /\ r.chainAt = IF same THEN s.chainAt ELSE now
             /\ r.bestAt = s.bestAt /\ r.lastEnd = s.lastEnd
             /\ r.found = s.found /\ r.lock = s.lock
<1> DEFINE h == Chained(s, now)
           same == s.inRun \/ SameChain(s, now)
<1>1. /\ h \in Detector /\ h.inRun = s.inRun /\ h.best = s.best
      /\ h.chainAt = IF same THEN s.chainAt ELSE now
      /\ h.bestAt = s.bestAt /\ h.lastEnd = s.lastEnd
      /\ h.found = s.found /\ h.lock = s.lock
  BY DEF Detector, Chained
<1>2. SameChain(h, now) <=> SameChain(s, now)
  BY <1>1 DEF SameChain
<1>3. r = StartRun(h, now)
  OBVIOUS
<1> HIDE DEF h
<1>4. CASE s.inRun
  <2>1. r = h
    BY <1>1, <1>3, <1>4 DEF StartRun
  <2> QED BY <1>1, <1>4, <2>1
<1>5. CASE ~s.inRun
  <2>1. r = [h EXCEPT !.inRun = TRUE, !.length = 0,
                      !.best = IF SameChain(s, now) THEN @ ELSE 0]
    BY <1>1, <1>2, <1>3, <1>5 DEF StartRun
  <2> DEFINE best == IF SameChain(s, now) THEN h.best ELSE 0
  <2>2. best \in Nat
    BY <1>1 DEF Detector
  <2>3. r = [h EXCEPT !.inRun = TRUE, !.length = 0, !.best = best]
    BY <2>1
  <2> HIDE DEF best
  <2>4. r \in Detector
    <3>1. ASSUME NEW b \in Nat
          PROVE  [h EXCEPT !.inRun = TRUE, !.length = 0, !.best = b] \in Detector
      BY <1>1 DEF Detector
    <3> QED BY <2>2, <2>3, <3>1
  <2>5. /\ r.inRun = TRUE /\ r.best = best
        /\ r.chainAt = h.chainAt /\ r.bestAt = h.bestAt /\ r.lastEnd = h.lastEnd
        /\ r.found = h.found /\ r.lock = h.lock
    BY <1>1, <2>3 DEF Detector
  <2> QED BY <1>1, <1>5, <2>4, <2>5 DEF best
<1> QED BY <1>4, <1>5

(***************************************************************************)
(* The high-water mark after the sample.                                   *)
(***************************************************************************)
LEMMA RunClimbs ==
  ASSUME NEW s \in Detector, NEW now \in Nat, NEW score \in Nat,
         NEW r, r = Climb(s, now, score)
  PROVE  /\ r \in Detector /\ r.inRun = s.inRun /\ r.chainAt = s.chainAt
         /\ r.lastEnd = s.lastEnd /\ r.found = s.found /\ r.lock = s.lock
         /\ score > s.best => r.best = score /\ r.bestAt = now - PreambleSamples + 1
         /\ ~(score > s.best) => r.best = s.best /\ r.bestAt = s.bestAt
<1> DEFINE h == [s EXCEPT !.length = @ + 1]
           at == now - PreambleSamples + 1
<1>1. at \in Int
  BY SizesAreNumbers
<1>2. /\ h \in Detector /\ h.inRun = s.inRun /\ h.chainAt = s.chainAt
      /\ h.lastEnd = s.lastEnd /\ h.found = s.found /\ h.lock = s.lock
      /\ h.best = s.best /\ h.bestAt = s.bestAt
  BY DEF Detector
<1>3. r = IF score > h.best THEN [h EXCEPT !.best = score, !.bestAt = at] ELSE h
  BY DEF Climb
<1> HIDE DEF h, at
<1>4. CASE score > s.best
  <2>1. r = [h EXCEPT !.best = score, !.bestAt = at]
    BY <1>2, <1>3, <1>4
  <2>2. /\ r \in Detector /\ r.inRun = h.inRun /\ r.chainAt = h.chainAt
        /\ r.lastEnd = h.lastEnd /\ r.found = h.found /\ r.lock = h.lock
        /\ r.best = score /\ r.bestAt = at
    BY <1>1, <1>2, <2>1 DEF Detector
  <2> QED BY <1>2, <1>4, <2>2 DEF at
<1>5. CASE ~(score > s.best)
  BY <1>2, <1>3, <1>5
<1> QED BY <1>4, <1>5

(***************************************************************************)
(* The end of a run reports its best point.                                *)
(***************************************************************************)
LEMMA RunEnds ==
  ASSUME NEW s \in Detector, NEW now \in Nat, NEW r, r = EndRun(s, now)
  PROVE  /\ r \in Detector /\ ~r.inRun /\ r.chainAt = s.chainAt
         /\ r.lastEnd = now /\ r.found /\ r.lock = s.bestAt
         /\ r.best = s.best /\ r.bestAt = s.bestAt
<1>1. s.bestAt \in Int /\ now \in Int
  BY DEF Detector
<1>2. r = [s EXCEPT !.inRun = FALSE, !.lastEnd = now, !.found = TRUE,
                    !.lock = s.bestAt]
  BY DEF EndRun
<1>3. /\ r.inRun = FALSE /\ r.chainAt = s.chainAt
      /\ r.lastEnd = now /\ r.found = TRUE /\ r.lock = s.bestAt
      /\ r.best = s.best /\ r.bestAt = s.bestAt
  BY <1>2 DEF Detector
<1>4. ASSUME NEW n \in Int, NEW at \in Int
      PROVE  [s EXCEPT !.inRun = FALSE, !.lastEnd = n, !.found = TRUE,
                       !.lock = at] \in Detector
  BY DEF Detector
<1>5. r \in Detector
  BY <1>1, <1>2, <1>4
<1> QED BY <1>3, <1>5

(***************************************************************************)
(* A sample leaves a detector a detector.                                  *)
(***************************************************************************)
LEMMA PushTypes ==
  ASSUME NEW s \in Detector, NEW now \in Nat, NEW score \in Nat
  PROVE  PushSample(s, now, score) \in Detector
<1>1. EndRun(s, now) \in Detector
  BY RunEnds
<1>2. Above(s, now, score) \in Detector
  <2> DEFINE h == StartRun(Chained(s, now), now)
             r == Climb(h, now, score)
  <2>1. h \in Detector
    BY RunStarts
  <2> HIDE DEF h
  <2>2. r \in Detector
    BY <2>1, RunClimbs
  <2>3. EndRun(r, now) \in Detector
    BY <2>2, RunEnds
  <2> QED BY <2>2, <2>3 DEF Above, h
<1>3. /\ now < REACH_BACK \/ now >= REACH_BACK
      /\ score >= SCORE_THRESHOLD \/ score < SCORE_THRESHOLD
  BY SizesAreNumbers, SyncAssumption
<1> QED BY <1>1, <1>2, <1>3, SizesAreNumbers, SyncAssumption DEF PushSample

(***************************************************************************)
(* A sample above the threshold.  It begins a new chain only a preamble    *)
(* after the last run; a lock of this chunk is younger than that.          *)
(***************************************************************************)
LEMMA AboveKeeps ==
  ASSUME NEW c \in Nat, NEW now \in Nat, c <= now, now < c + AUDIO_CHUNK_SAMPLES,
         NEW s, Hearing(s, c, now), NEW score \in Nat, score >= SCORE_THRESHOLD
  PROVE  Hearing(Above(s, now, score), c, now + 1)
<1> DEFINE h == StartRun(Chained(s, now), now)
           same == s.inRun \/ SameChain(s, now)
           r == Climb(h, now, score)
<1>0. /\ s \in Detector /\ s.best \in Nat /\ s.bestAt \in Int /\ s.lastEnd \in Int
      /\ s.lock \in Int /\ s.chainAt \in Nat /\ PreambleSamples \in Nat
      /\ s.chainAt <= now /\ s.lastEnd < now
      /\ s.best > 0 => InChain(s.bestAt, s, now)
      /\ s.found => s.lastEnd >= c /\ InChain(s.lock, s, now)
  BY SizesAreNumbers DEF Hearing, Detector
<1>1. /\ h \in Detector /\ h.inRun
      /\ h.best = IF same THEN s.best ELSE 0
      /\ h.chainAt = IF same THEN s.chainAt ELSE now
      /\ h.bestAt = s.bestAt /\ h.lastEnd = s.lastEnd
      /\ h.found = s.found /\ h.lock = s.lock
  BY <1>0, RunStarts
<1> HIDE DEF h
<1>2. /\ r \in Detector /\ r.inRun = h.inRun /\ r.chainAt = h.chainAt
      /\ r.lastEnd = h.lastEnd /\ r.found = h.found /\ r.lock = h.lock
      /\ score > h.best => r.best = score /\ r.bestAt = now - PreambleSamples + 1
      /\ ~(score > h.best) => r.best = h.best /\ r.bestAt = h.bestAt
  <2>1. h \in Detector
    BY <1>1
  <2> QED BY ONLY <2>1, RunClimbs, now \in Nat, score \in Nat
<1> HIDE DEF r
<1>3. s.found => same
  BY <1>0, SizesAreNumbers DEF SameChain
<1>4. r.best > 0
  BY <1>0, <1>1, <1>2, SyncAssumption
<1>5. InChain(r.bestAt, r, now + 1)
  <2>1. CASE score > h.best
    BY <1>0, <1>1, <1>2, <2>1 DEF InChain
  <2>2. CASE ~(score > h.best)
    BY <1>0, <1>1, <1>2, <1>4, <2>2 DEF InChain
  <2> QED BY <2>1, <2>2
<1>6. r.found => r.lastEnd >= c /\ InChain(r.lock, r, now + 1)
  BY <1>0, <1>1, <1>2, <1>3 DEF InChain
<1>7. r.chainAt <= now + 1 /\ r.lastEnd < now + 1
  BY <1>0, <1>1, <1>2
<1>8. Hearing(r, c, now + 1)
  BY <1>2, <1>4, <1>5, <1>6, <1>7 DEF Hearing
<1>9. Hearing(EndRun(r, now), c, now + 1)
  <2> DEFINE e == EndRun(r, now)
  <2>1. /\ e \in Detector /\ ~e.inRun /\ e.chainAt = r.chainAt
        /\ e.lastEnd = now /\ e.lock = r.bestAt
        /\ e.best = r.best /\ e.bestAt = r.bestAt
    BY <1>2, RunEnds
  <2> HIDE DEF e
  <2>2. e.chainAt <= now + 1 /\ e.lastEnd < now + 1 /\ e.lastEnd >= c
    BY <1>7, <2>1
  <2>3. InChain(e.bestAt, e, now + 1) /\ InChain(e.lock, e, now + 1)
    BY <1>5, <2>1 DEF InChain
  <2>4. Hearing(e, c, now + 1)
    BY <2>1, <2>2, <2>3 DEF Hearing
  <2> QED BY <2>4 DEF e
<1> QED BY <1>8, <1>9 DEF Above, r, h

(***************************************************************************)
(* Any sample.                                                             *)
(***************************************************************************)
LEMMA PushKeeps ==
  ASSUME NEW c \in Nat, NEW now \in Nat, c <= now, now < c + AUDIO_CHUNK_SAMPLES,
         NEW s, Hearing(s, c, now), NEW score \in Nat
  PROVE  Hearing(PushSample(s, now, score), c, now + 1)
<1>0. /\ s \in Detector /\ s.best \in Nat /\ s.bestAt \in Int /\ s.lastEnd \in Int
      /\ s.lock \in Int /\ s.chainAt \in Nat /\ PreambleSamples \in Nat
  BY SizesAreNumbers DEF Hearing, Detector
<1>1. Hearing(s, c, now + 1)
  BY <1>0 DEF Hearing, InChain
<1>2. CASE now < REACH_BACK
  <2>1. PushSample(s, now, score) = s
    BY <1>2, SizesAreNumbers, SyncAssumption DEF PushSample
  <2> QED BY <1>1, <2>1
<1>3. CASE now >= REACH_BACK /\ score >= SCORE_THRESHOLD
  <2>1. PushSample(s, now, score) = Above(s, now, score)
    BY <1>3, SizesAreNumbers, SyncAssumption DEF PushSample
  <2> QED BY <1>3, <2>1, AboveKeeps
<1>4. CASE now >= REACH_BACK /\ score < SCORE_THRESHOLD
  <2>1. PushSample(s, now, score) = IF s.inRun THEN EndRun(s, now) ELSE s
    BY <1>4, SizesAreNumbers, SyncAssumption DEF PushSample
  <2>2. s.inRun => Hearing(EndRun(s, now), c, now + 1)
    <3> DEFINE e == EndRun(s, now)
    <3> SUFFICES ASSUME s.inRun PROVE Hearing(e, c, now + 1)
      OBVIOUS
    <3>1. /\ e \in Detector /\ ~e.inRun /\ e.chainAt = s.chainAt
          /\ e.lastEnd = now /\ e.lock = s.bestAt
          /\ e.best = s.best /\ e.bestAt = s.bestAt
      <4>1. s \in Detector /\ e = EndRun(s, now)
        BY <1>0
      <4> HIDE DEF e
      <4> QED BY <4>1, RunEnds
    <3> HIDE DEF e
    <3>2. /\ s.chainAt <= now /\ InChain(s.bestAt, s, now + 1)
      BY <1>1 DEF Hearing
    <3>3. InChain(e.bestAt, e, now + 1) /\ InChain(e.lock, e, now + 1)
      BY <3>1, <3>2 DEF InChain
    <3> QED BY <1>0, <3>1, <3>2, <3>3 DEF Hearing
  <2> QED BY <1>1, <2>1, <2>2
<1> QED BY <1>2, <1>3, <1>4, SizesAreNumbers, SyncAssumption

(***************************************************************************)
(* All the samples of a chunk, by induction: the state of the detector     *)
(* after it has taken n of them.                                           *)
(***************************************************************************)
LEMMA HeardKeeps ==
  ASSUME counter \in Nat, Hearing(sync, counter, counter),
         NEW scores \in [1..AUDIO_CHUNK_SAMPLES -> Scores]
  PROVE  Hearing(Heard(scores), counter, counter + AUDIO_CHUNK_SAMPLES)
<1> DEFINE N == AUDIO_CHUNK_SAMPLES
           Follows(g) ==
             g = [n \in 0..N |-> IF n = 0 THEN sync
                                 ELSE PushSample(g[n - 1], counter + n - 1, scores[n])]
           after == CHOOSE g : Follows(g)
           step == [n \in 1..N |-> [s \in Detector |->
                      PushSample(s, counter + n - 1, scores[n])]]
           S == {n \in 0..N : Hearing(after[n], counter, counter + n)}
<1>1. N \in Nat /\ \A n \in 1..N : counter + n - 1 \in Nat /\ scores[n] \in Nat
  <2>1. N \in Nat /\ Scores \subseteq Nat
    BY ModemAssumption
  <2>2. \A n \in 1..N : scores[n] \in Scores
    OBVIOUS
  <2> HIDE DEF N
  <2>3. \A n \in 1..N : counter + n - 1 \in Nat
    BY <2>1
  <2> QED BY <2>1, <2>2, <2>3
<1>2. sync \in Detector
  BY DEF Hearing
<1>3. \E g : Follows(g)
  <2>1. \A n \in 1..N, s \in Detector :
          PushSample(s, counter + n - 1, scores[n]) \in Detector
    BY <1>1, PushTypes
  <2>2. step \in [1..N -> [Detector -> Detector]]
    BY <2>1
  <2> HIDE DEF step
  <2>3. PICK g : Recursive(N, Detector, sync, step, g)
    <3>1. N \in Nat /\ sync \in Detector
      BY <1>1, <1>2
    <3> HIDE DEF N
    <3> QED BY ONLY <2>2, <3>1, RecursionExists
  <2>4. ASSUME NEW n \in 1..N
        PROVE  step[n][g[n - 1]] = PushSample(g[n - 1], counter + n - 1, scores[n])
    <3> HIDE DEF N
    <3>1. g[n - 1] \in Detector
      <4>1. n - 1 \in 0..N
        BY <1>1
      <4> QED BY <2>3, <4>1 DEF Recursive
    <3> QED BY <3>1 DEF step
  <2>5. Follows(g)
    <3>1. \A n \in 0..N : n # 0 => n \in 1..N
      BY <1>1
    <3> HIDE DEF N, step
    <3> QED BY <2>3, <2>4, <3>1 DEF Recursive
  <2> QED BY <2>5
<1>4. Follows(after)
  <2> HIDE DEF Follows
  <2> QED BY <1>3
<1>5. Heard(scores) = after[N]
  BY DEF Heard
<1> HIDE DEF after, N
<1>6. 0 \in S
  BY <1>1, <1>4
<1>7. ASSUME NEW n \in 1..N, n - 1 \in S PROVE n \in S
  <2>1. n - 1 \in 0..N /\ n \in 0..N /\ Hearing(after[n - 1], counter, counter + n - 1)
    BY <1>1, <1>7
  <2>2. after[n] = PushSample(after[n - 1], counter + n - 1, scores[n])
    BY <1>1, <1>4
  <2>3. /\ counter + n - 1 \in Nat /\ scores[n] \in Nat
        /\ counter <= counter + n - 1 /\ counter + n - 1 < counter + N
        /\ (counter + n - 1) + 1 = counter + n
    BY <1>1
  <2>4. Hearing(after[n], counter, counter + n)
    BY <2>1, <2>2, <2>3, PushKeeps DEF N
  <2> QED BY <2>1, <2>4
<1>8. 0..N \subseteq S
  <2> HIDE DEF S
  <2> QED BY <1>1, <1>6, <1>7, UpTo
<1>9. N \in S
  BY <1>1, <1>8
<1> QED BY <1>5, <1>9 DEF N

(* ------------------------- where preambles are ------------------------- *)

\* The locks reported lie in the present chain, n samples having been received.
Placed(emitted, s, n) ==
  \A i \in 1..Len(emitted) :
    emitted[i].kind \in {"preamble", "outOfRange"} => InChain(emitted[i].at, s, n)

\* Only locks of old chains, or of none, are passed over.
Excused(emitted, s, n) ==
  \A i \in 1..Len(emitted) :
    emitted[i].kind = "outOfRange" =>
      \/ emitted[i].at < 0
      \/ n - s.chainAt > PRE_TRIGGER_SAMPLES - PreambleSamples

LInv ==
  /\ Hearing(sync, counter, counter)
  /\ dropped > 0 => preTrigger = PRE_TRIGGER_SAMPLES
  /\ Placed(events, sync, counter) /\ Excused(events, sync, counter)

\* The only lock among these events is that of a preamble at p.
OneLock(emitted, p) ==
  \A i \in 1..Len(emitted) :
    /\ emitted[i].kind # "outOfRange"
    /\ emitted[i].kind = "preamble" => emitted[i].at = p

(***************************************************************************)
(* The output of an attempt to complete a frame reports no lock of its     *)
(* own.                                                                    *)
(***************************************************************************)
LEMMA SaidIsNoLock ==
  ASSUME NEW n, NEW emitted, Says(emitted, n), NEW p
  PROVE  /\ OneLock(emitted, p)
         /\ OneLock(<<[kind |-> "preamble", at |-> p]>> \o emitted, p)
         /\ \A i \in 1..Len(emitted) : emitted[i].kind = "message"
<1> DEFINE lock == [kind |-> "preamble", at |-> p]
<1>0. lock.kind = "preamble" /\ lock.at = p
  OBVIOUS
<1> HIDE DEF lock
<1>1. CASE emitted = <<>>
  <2>1. <<lock>> \o emitted = <<lock>>
    BY <1>1
  <2>2. OneLock(<<lock>>, p)
    BY <1>0 DEF OneLock
  <2> QED BY <1>1, <2>1, <2>2 DEF OneLock, lock
<1>2. CASE emitted # <<>>
  <2>1. PICK e : emitted = <<e>> /\ e.kind = "message"
    BY <1>2 DEF Says
  <2>2. OneLock(<<e>>, p)
    BY <2>1 DEF OneLock
  <2>3. OneLock(<<lock>> \o <<e>>, p)
    <3> DEFINE S == {lock, e}
               both == <<lock>> \o <<e>>
    <3>1. <<lock>> \in Seq(S) /\ <<e>> \in Seq(S)
      OBVIOUS
    <3> HIDE DEF S
    <3>2. Len(<<lock>>) = 1 /\ Len(<<e>>) = 1
      OBVIOUS
    <3>3. Len(both) = 2 /\ both[1] = <<lock>>[1] /\ both[2] = <<e>>[1]
      BY <3>1, <3>2, ConcatProperties
    <3> HIDE DEF both
    <3>4. Len(both) = 2 /\ both[1] = lock /\ both[2] = e
      BY <3>3
    <3>5. OneLock(both, p)
      BY <1>0, <2>1, <3>4 DEF OneLock
    <3> QED BY <3>5 DEF both
  <2> QED BY <2>1, <2>2, <2>3 DEF lock
<1> QED BY <1>1, <1>2

(***************************************************************************)
(* The detector between two chunks.                                        *)
(***************************************************************************)
LEMMA SyncSettles ==
  ASSUME counter \in Nat, NEW heard,
         Hearing(heard, counter, counter + AUDIO_CHUNK_SAMPLES), Synchronize(heard)
  PROVE  Hearing(sync', counter', counter') /\ sync'.chainAt = heard.chainAt
<1> DEFINE n == counter + AUDIO_CHUNK_SAMPLES
<1>1. counter' = n /\ sync' = [heard EXCEPT !.found = FALSE, !.lock = 0]
  BY DEF Synchronize
<1>2. heard \in Detector
  BY DEF Hearing
<1>3. /\ sync' \in Detector /\ ~sync'.found /\ sync'.chainAt = heard.chainAt
      /\ sync'.lastEnd = heard.lastEnd /\ sync'.inRun = heard.inRun
      /\ sync'.best = heard.best /\ sync'.bestAt = heard.bestAt
  <2>1. ASSUME NEW s \in Detector, NEW p \in Int, NEW r,
               r = [s EXCEPT !.found = FALSE, !.lock = p]
        PROVE  /\ r \in Detector /\ ~r.found /\ r.chainAt = s.chainAt
               /\ r.lastEnd = s.lastEnd /\ r.inRun = s.inRun
               /\ r.best = s.best /\ r.bestAt = s.bestAt
    <3>1. r \in Detector
      BY <2>1 DEF Detector
    <3>2. /\ r.found = FALSE /\ r.chainAt = s.chainAt
          /\ r.lastEnd = s.lastEnd /\ r.best = s.best /\ r.bestAt = s.bestAt
      BY <2>1 DEF Detector
    <3>3. r.inRun = s.inRun
      BY <2>1 DEF Detector
    <3> QED BY <3>1, <3>2, <3>3
  <2>2. 0 \in Int
    OBVIOUS
  <2> QED BY <1>1, <1>2, <2>1, <2>2
<1>4. /\ heard.chainAt <= n /\ heard.lastEnd < n
      /\ heard.inRun => heard.best > 0
      /\ heard.best > 0 => InChain(heard.bestAt, heard, n)
  BY DEF Hearing
<1>5. sync'.best > 0 => InChain(sync'.bestAt, sync', n)
  BY <1>3, <1>4 DEF InChain
<1> HIDE DEF n
<1> QED BY <1>1, <1>3, <1>4, <1>5 DEF Hearing

(***************************************************************************)
(* Once anything has been dropped, m_preTrigger is full.                   *)
(***************************************************************************)
LEMMA DroppedWhenFull ==
  ASSUME Counts, dropped > 0 => preTrigger = PRE_TRIGGER_SAMPLES, RollPreTrigger
  PROVE  dropped' > 0 => preTrigger' = PRE_TRIGGER_SAMPLES
<1>1. AUDIO_CHUNK_SAMPLES \in Nat \ {0} /\ PRE_TRIGGER_SAMPLES \in Nat
  BY SyncAssumption, ModemAssumption
<1> QED BY <1>1 DEF Counts, RollPreTrigger, Excess

(***************************************************************************)
(* A lock that is not in m_preTrigger lies before it, for it cannot lie    *)
(* after it; so something has been dropped, and m_preTrigger is full.      *)
(***************************************************************************)
LEMMA PassedOver ==
  ASSUME NEW p \in Int, NEW chain \in Nat,
         NEW gone \in Nat, NEW size \in 0..PRE_TRIGGER_SAMPLES,
         gone > 0 => size = PRE_TRIGGER_SAMPLES,
         p + PreambleSamples \in chain + 1..gone + size,
         {o \in 0..(size - PreambleSamples) : gone + o = p} = {}
  PROVE  p < 0 \/ gone + size - chain > PRE_TRIGGER_SAMPLES - PreambleSamples
<1>1. PreambleSamples \in Nat /\ PRE_TRIGGER_SAMPLES \in Nat
  BY SizesAreNumbers, ModemAssumption
<1>2. p - gone \notin 0..(size - PreambleSamples)
  <2>1. \A o \in 0..(size - PreambleSamples) : gone + o # p
    OBVIOUS
  <2>2. gone + (p - gone) = p
    OBVIOUS
  <2> QED BY <2>1, <2>2
<1>3. p < gone
  BY <1>1, <1>2
<1> QED BY <1>1, <1>3

(***************************************************************************)
(* A chunk while idle.                                                 *)
(***************************************************************************)
LEMMA IdleChunkPlaces ==
  ASSUME IInv, LInv, rx = NoFrame, NEW heard, NEW header \in Headers,
         Hearing(heard, counter, counter + AUDIO_CHUNK_SAMPLES),
         ChunkWhileIdle(heard, header)
  PROVE  LInv'
<1> DEFINE n == counter'
           p == heard.lock
<1>1. Synchronize(heard) /\ RollPreTrigger /\ n = counter + AUDIO_CHUNK_SAMPLES
  BY DEF ChunkWhileIdle, Synchronize
<1>2. Hearing(sync', n, n) /\ sync'.chainAt = heard.chainAt
  BY <1>1, SyncSettles DEF IInv, Counts
<1>3. dropped' > 0 => preTrigger' = PRE_TRIGGER_SAMPLES
  BY <1>1, DroppedWhenFull DEF IInv, LInv
<1>4. Counts'
  BY <1>1, RollingCounts DEF IInv
<1>5. heard.found => InChain(p, sync', n)
  BY <1>1, <1>2 DEF Hearing, InChain
<1> SUFFICES Placed(events', sync', n) /\ Excused(events', sync', n)
  BY <1>2, <1>3 DEF LInv, Placed, Excused, InChain, Hearing
<1> HIDE DEF n, p
<1>6. CASE events' = <<>>
  BY <1>6 DEF Placed, Excused
<1>7. CASE /\ heard.found
           /\ {o \in 0..(preTrigger' - PreambleSamples) : dropped' + o = p} = {}
           /\ events' = <<[kind |-> "outOfRange", at |-> p]>>
  <2>1. Placed(events', sync', n)
    BY <1>5, <1>7 DEF Placed
  <2>2. p \in Int /\ sync'.chainAt \in Nat
    BY <1>2 DEF Hearing, Detector, p
  <2>3. /\ dropped' \in Nat /\ preTrigger' \in 0..PRE_TRIGGER_SAMPLES
        /\ n = dropped' + preTrigger'
    BY <1>4 DEF Counts, n
  <2>4. p + PreambleSamples \in sync'.chainAt + 1..dropped' + preTrigger'
    BY <1>5, <1>7, <2>3 DEF InChain
  <2>5. p < 0 \/ n - sync'.chainAt > PRE_TRIGGER_SAMPLES - PreambleSamples
    BY <1>3, <1>7, <2>2, <2>3, <2>4, PassedOver
  <2>6. Excused(events', sync', n)
    BY <1>7, <2>5 DEF Excused
  <2> QED BY <2>1, <2>6
<1>8. ASSUME heard.found, NEW offset \in 0..(preTrigger' - PreambleSamples),
             events' = <<[kind |-> "preamble", at |-> p]>>
                         \o TryCompleteFrame(Locked(offset), header).events
      PROVE  Placed(events', sync', n) /\ Excused(events', sync', n)
  <2> DEFINE tried == TryCompleteFrame(Locked(offset), header)
  <2>1. preTrigger' \in 0..PRE_TRIGGER_SAMPLES /\ dropped' \in Nat
    BY <1>4 DEF Counts
  <2>2. Says(tried.events, dropped' + preTrigger')
    BY <2>1, CutFrame DEF Locked
  <2>3. events' = <<[kind |-> "preamble", at |-> p]>> \o tried.events
    BY <1>8
  <2> HIDE DEF tried
  <2>4. OneLock(events', p)
    BY <2>2, <2>3, SaidIsNoLock
  <2> QED BY <1>5, <1>8, <2>4 DEF OneLock, Placed, Excused
<1> QED BY <1>6, <1>7, <1>8 DEF ChunkWhileIdle, p

(***************************************************************************)
(* A chunk while collecting: the detector goes on, and reports nothing.    *)
(***************************************************************************)
LEMMA CollectingChunkPlaces ==
  ASSUME IInv, LInv, Waiting(rx, counter), NEW heard, NEW header \in Headers,
         Hearing(heard, counter, counter + AUDIO_CHUNK_SAMPLES),
         ChunkWhileCollecting(heard, header)
  PROVE  LInv'
<1>1. /\ counter' = counter + AUDIO_CHUNK_SAMPLES /\ RollPreTrigger
      /\ Synchronize(heard) /\ events' = Collect(rx, header).events
  BY DEF ChunkWhileCollecting, Synchronize
<1>2. Hearing(sync', counter', counter')
  BY <1>1, SyncSettles DEF IInv, Counts
<1>3. dropped' > 0 => preTrigger' = PRE_TRIGGER_SAMPLES
  BY <1>1, DroppedWhenFull DEF IInv, LInv
<1>4. Says(events', counter')
  BY <1>1, Collects DEF IInv, Counts
<1>5. \A i \in 1..Len(events') : events'[i].kind = "message"
  BY <1>4, SaidIsNoLock
<1>6. Placed(events', sync', counter') /\ Excused(events', sync', counter')
  BY <1>5 DEF Placed, Excused
<1> QED BY <1>2, <1>3, <1>6 DEF LInv, Placed, Excused, InChain, Hearing

(***************************************************************************)
(* No step breaks it.                                                      *)
(***************************************************************************)
LEMMA PlacesHold == IInv /\ LInv /\ [Next]_vars => LInv'
<1> SUFFICES ASSUME IInv, LInv, [Next]_vars PROVE LInv'
  OBVIOUS
<1>1. ASSUME counter' = counter, sync' = sync, preTrigger' = preTrigger,
             dropped' = dropped, events' \in {events, <<>>}
      PROVE  LInv'
  <2>1. Hearing(sync', counter', counter')
        /\ (dropped' > 0 => preTrigger' = PRE_TRIGGER_SAMPLES)
    BY <1>1 DEF LInv
  <2>2. Placed(events', sync', counter') /\ Excused(events', sync', counter')
    BY <1>1 DEF LInv, Placed, Excused
  <2> QED BY <2>1, <2>2 DEF LInv, Placed, Excused, InChain, Hearing
<1>2. ASSUME NEW scores \in [1..AUDIO_CHUNK_SAMPLES -> Scores], NEW header \in Headers,
             \/ ChunkWhileCollecting(Heard(scores), header)
             \/ ChunkWhileIdle(Heard(scores), header)
      PROVE  LInv'
  <2> DEFINE heard == Heard(scores)
  <2>1. Hearing(heard, counter, counter + AUDIO_CHUNK_SAMPLES)
    BY HeardKeeps DEF IInv, LInv, Counts
  <2>2. Frames
    BY DEF IInv
  <2> HIDE DEF heard
  <2>3. CASE ChunkWhileCollecting(heard, header)
    <3>1. Waiting(rx, counter)
      BY <2>2, <2>3 DEF Frames, ChunkWhileCollecting, NoFrame
    <3> QED BY <2>1, <2>3, <3>1, CollectingChunkPlaces
  <2>4. CASE ChunkWhileIdle(heard, header)
    <3>1. rx = NoFrame
      BY <2>2, <2>4 DEF Frames, ChunkWhileIdle, Waiting
    <3> QED BY <2>1, <2>4, <3>1, IdleChunkPlaces
  <2> QED BY <1>2, <2>3, <2>4 DEF heard
<1>3. CASE OnAudioChunk
  <2>1. CASE ChunkWhileSuspended
    BY <1>1, <2>1 DEF ChunkWhileSuspended
  <2> QED BY <1>2, <1>3, <2>1 DEF OnAudioChunk, ProcessAudioChunk
<1>4. CASE Transmit \/ OnTxComplete
  BY <1>1, <1>4 DEF Transmit, OnTxComplete
<1>5. CASE SetMode
  <2>1. /\ counter' = 0 /\ sync' = NewSync /\ dropped' = 0 /\ events' = <<>>
    BY <1>5 DEF SetMode
  <2>2. Hearing(sync', counter', counter')
    BY <2>1 DEF Hearing, NewSync, Detector
  <2>3. Placed(events', sync', counter') /\ Excused(events', sync', counter')
    BY <2>1 DEF Placed, Excused
  <2> QED BY <2>1, <2>2, <2>3 DEF LInv, Placed, Excused, InChain, Hearing
<1>6. CASE UNCHANGED vars
  BY <1>1, <1>6 DEF vars, modemVars
<1> QED BY <1>3, <1>4, <1>5, <1>6 DEF Next

(***************************************************************************)
(* What is known of the detector and of its locks, at all times.           *)
(***************************************************************************)
THEOREM LocksInvariance == Spec => []LInv
<1>1. Init => LInv
  <2> SUFFICES ASSUME Init PROVE LInv
    OBVIOUS
  <2>1. /\ counter = 0 /\ sync = NewSync /\ dropped = 0 /\ events = <<>>
    BY DEF Init, ModemInit
  <2>2. Hearing(sync, counter, counter)
    BY <2>1 DEF Hearing, NewSync, Detector
  <2>3. Placed(events, sync, counter) /\ Excused(events, sync, counter)
    BY <2>1 DEF Placed, Excused
  <2> QED BY <2>1, <2>2, <2>3 DEF LInv
<1>2. IInv /\ LInv /\ [Next]_vars => LInv'
  BY PlacesHold
<1> QED BY <1>1, <1>2, Invariance, PTL DEF Spec

(***************************************************************************)
(* ADR-114: the best point, and every lock, lie in the present chain of    *)
(* runs, whatever the scores of the samples were.                          *)
(***************************************************************************)
THEOREM LocksAreFresh == Spec => []LockIsOfItsChain
<1>1. LInv => LockIsOfItsChain
  BY DEF LInv, Placed, Hearing, InChain, LockIsOfItsChain, Reported
<1> QED BY <1>1, LocksInvariance, PTL

(***************************************************************************)
(* A preamble is passed over only if its chain began longer ago than       *)
(* m_preTrigger reaches back, or if it would have begun before the start.  *)
(***************************************************************************)
THEOREM FreshPreamblesAreTaken == Spec => []OnlyOldChainsAreMissed
<1>1. LInv => OnlyOldChainsAreMissed
  BY DEF LInv, Excused, OnlyOldChainsAreMissed, Reported
<1> QED BY <1>1, LocksInvariance, PTL
=============================================================================
