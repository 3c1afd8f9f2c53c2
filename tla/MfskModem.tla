----------------------------- MODULE MfskModem ------------------------------
(***************************************************************************)
(* The receiver of the MFSK modem.  Idle, it keeps the last seconds of     *)
(* audio and waits for PreambleSync to report where a preamble began;      *)
(* collecting, it gathers samples from that point on, demodulates the new  *)
(* ones into a cache of symbols, reads the number of blocks from the       *)
(* header, and decodes when the symbols that number calls for are there.   *)
(*                                                                         *)
(* Buffers are represented by their lengths and, where it matters, by the  *)
(* position of their first sample.  What a header says is an input: the    *)
(* block count, or BadHeader if its first byte is not the expected one.    *)
(***************************************************************************)
EXTENDS PreambleSync, Sequences

CONSTANTS
  AUDIO_CHUNK_SAMPLES,     \* 2048
  PRE_TRIGGER_SAMPLES,     \* 3 s of audio
  MAX_BUFFER_SAMPLES,      \* 30 s of audio
  COLLECT_TIMEOUT_CHUNKS,  \* 468 chunks, 20 s of audio
  HDR_TOTAL,               \* 12 symbols, the header three times
  PAYLOAD_START,           \* 16 symbols, the header and the CRC
  BLOCK_SYMS,              \* 48 symbols, one coded block
  MAX_NBLOCKS,             \* 125
  Scores,                  \* the scores a sample can have
  Headers,                 \* what a header can be read as
  MaxSamples               \* bound: samples that reach one modem

BadHeader == -1

ASSUME ModemAssumption ==
  /\ AUDIO_CHUNK_SAMPLES \in Nat /\ AUDIO_CHUNK_SAMPLES >= SAMPLES_PER_SYMBOL
  /\ AUDIO_CHUNK_SAMPLES <= PreambleSamples
  /\ PRE_TRIGGER_SAMPLES \in Nat /\ MAX_BUFFER_SAMPLES \in Nat
  /\ COLLECT_TIMEOUT_CHUNKS \in Nat
  /\ PRE_TRIGGER_SAMPLES + (COLLECT_TIMEOUT_CHUNKS + 1) * AUDIO_CHUNK_SAMPLES
       <= MAX_BUFFER_SAMPLES
  /\ HDR_TOTAL \in Nat /\ PAYLOAD_START \in Nat /\ HDR_TOTAL <= PAYLOAD_START
  /\ BLOCK_SYMS \in Nat /\ MAX_NBLOCKS \in Nat /\ MaxSamples \in Nat
  /\ Scores \subseteq Nat
  /\ Headers \subseteq Nat \cup {BadHeader}

VARIABLES
  counter,     \* m_sampleCounter of the detector
  sync,        \* the rest of the detector
  preTrigger,  \* size of m_preTrigger
  dropped,     \* m_preTriggerDropped
  rx,          \* the frame under way: see NoFrame
  suspended,   \* m_rxSuspended
  events       \* what the last chunk gave rise to

modemVars == <<counter, sync, preTrigger, dropped, rx, suspended, events>>

(***************************************************************************)
(* buffer: size of m_rxBuffer; symbols: size of m_cachedSoftSymbols; at, a *)
(* history: the position of the first sample of m_rxBuffer.  resetRx()     *)
(* leaves this state.                                                      *)
(***************************************************************************)
NoFrame ==
  [state |-> "Idle", buffer |-> 0, symbols |-> 0, nBlocks |-> -1,
   ticks |-> 0, lastCheck |-> 0, at |-> -1]

ModemInit ==
  /\ counter = 0 /\ sync = NewSync
  /\ preTrigger = 0 /\ dropped = 0
  /\ rx = NoFrame
  /\ suspended = FALSE
  /\ events = <<>>

(* --------------------------- collecting a frame ------------------------ *)

HeaderNeeds  == PREAMBLE_LENGTH + HDR_TOTAL
FrameNeeds(n) == PREAMBLE_LENGTH + PAYLOAD_START + n * BLOCK_SYMS

\* The symbols that a demodulator finds in so many samples.
WholeSymbols(n) == n \div SAMPLES_PER_SYMBOL

Demodulate(f) ==
  LET fresh == f.buffer - f.symbols * SAMPLES_PER_SYMBOL
  IN  [f EXCEPT !.lastCheck = f.buffer,
                !.symbols = IF fresh < SAMPLES_PER_SYMBOL THEN @
                            ELSE @ + WholeSymbols(fresh)]

\* The result of a step on a frame: what becomes of it, and what is emitted.
Then(f, emitted) == [rx |-> f, events |-> emitted]

\* Mutant: the finished frame's symbols stay in the cache.
DecodeKeepingCache(f) ==
  IF f.symbols < FrameNeeds(f.nBlocks) THEN Then(f, <<>>)
  ELSE Then([NoFrame EXCEPT !.symbols = f.symbols],
            <<[kind |-> "message", at |-> f.at, blocks |-> f.nBlocks]>>)

\* Mutant: waits for one symbol more than the frame has.
DecodeLate(f) ==
  IF f.symbols <= FrameNeeds(f.nBlocks) THEN Then(f, <<>>)
  ELSE Then(NoFrame, <<[kind |-> "message", at |-> f.at, blocks |-> f.nBlocks]>>)

\* Mutant: the preamble is not counted among the symbols needed.
DecodeWithoutPreamble(f) ==
  IF f.symbols + PREAMBLE_LENGTH < FrameNeeds(f.nBlocks) THEN Then(f, <<>>)
  ELSE Then(NoFrame, <<[kind |-> "message", at |-> f.at, blocks |-> f.nBlocks]>>)

\* Frame::parse() votes on the same header symbols again and so reports no
\* error; a message with a failed CRC is emitted like any other.
Decode(f) ==
  IF f.symbols < FrameNeeds(f.nBlocks) THEN Then(f, <<>>)
  ELSE Then(NoFrame, <<[kind |-> "message", at |-> f.at, blocks |-> f.nBlocks]>>)

\* Mutant: off by one in the range of block counts.
ReadHeaderOneMore(f, header) ==
  IF header \notin 1..(MAX_NBLOCKS + 1) THEN Then(NoFrame, <<>>)
  ELSE Decode([f EXCEPT !.nBlocks = header])

ReadHeader(f, header) ==
  IF header \notin 1..MAX_NBLOCKS THEN Then(NoFrame, <<>>)
  ELSE Decode([f EXCEPT !.nBlocks = header])

TryCompleteFrame(f, header) ==
  LET d == Demodulate(f)
  IN  IF f.nBlocks > 0 /\ f.buffer - f.lastCheck < SAMPLES_PER_SYMBOL
      THEN Then(f, <<>>)
      ELSE IF d.symbols < HeaderNeeds THEN Then(d, <<>>)
      ELSE IF d.nBlocks < 0 THEN ReadHeader(d, header) ELSE Decode(d)

(* ------------------------------- one chunk ----------------------------- *)

\* m_sync is pushed every sample of the chunk and keeps the last lock found.
Heard(scores) ==
  LET after[n \in 0..AUDIO_CHUNK_SAMPLES] ==
        IF n = 0 THEN sync
        ELSE PushSample(after[n - 1], counter + n - 1, scores[n])
  IN  after[AUDIO_CHUNK_SAMPLES]

Synchronize(heard) ==
  /\ counter' = counter + AUDIO_CHUNK_SAMPLES
  /\ sync' = [heard EXCEPT !.found = FALSE, !.lock = 0]

\* Appends the chunk to m_preTrigger and trims its front.
Excess == IF preTrigger + AUDIO_CHUNK_SAMPLES > PRE_TRIGGER_SAMPLES
          THEN preTrigger + AUDIO_CHUNK_SAMPLES - PRE_TRIGGER_SAMPLES ELSE 0

\* Mutant: trims without counting what it drops.
RollPreTriggerUncounted ==
  /\ preTrigger' = preTrigger + AUDIO_CHUNK_SAMPLES - Excess
  /\ dropped' = dropped

RollPreTrigger ==
  /\ preTrigger' = preTrigger + AUDIO_CHUNK_SAMPLES - Excess
  /\ dropped' = dropped + Excess

\* A message is being played: the chunk never reaches the detector.
ChunkWhileSuspended ==
  /\ suspended
  /\ events' = <<>>
  /\ UNCHANGED <<counter, sync, preTrigger, dropped, rx, suspended>>

\* Mutant: without the timeout, the buffer's limit alone ends a collection.
CollectWithoutTimeout(f, header) ==
  LET grown == [f EXCEPT !.buffer = @ + AUDIO_CHUNK_SAMPLES]
  IN  IF grown.buffer > MAX_BUFFER_SAMPLES THEN Then(NoFrame, <<>>)
      ELSE TryCompleteFrame([grown EXCEPT !.ticks = @ + 1], header)

\* Mutant: the timeout comes one chunk early.
CollectLess(f, header) ==
  LET grown == [f EXCEPT !.buffer = @ + AUDIO_CHUNK_SAMPLES]
      tried == TryCompleteFrame([grown EXCEPT !.ticks = @ + 1], header)
  IN  IF grown.buffer > MAX_BUFFER_SAMPLES THEN Then(NoFrame, <<>>)
      ELSE IF tried.rx.ticks >= COLLECT_TIMEOUT_CHUNKS THEN Then(NoFrame, tried.events)
      ELSE tried

Collect(f, header) ==
  LET grown == [f EXCEPT !.buffer = @ + AUDIO_CHUNK_SAMPLES]
      tried == TryCompleteFrame([grown EXCEPT !.ticks = @ + 1], header)
  IN  IF grown.buffer > MAX_BUFFER_SAMPLES THEN Then(NoFrame, <<>>)
      ELSE IF tried.rx.ticks > COLLECT_TIMEOUT_CHUNKS THEN Then(NoFrame, tried.events)
      ELSE tried

ChunkWhileCollecting(heard, header) ==
  /\ ~suspended /\ rx.state = "Collecting"
  /\ Synchronize(heard) /\ RollPreTrigger
  /\ LET done == Collect(rx, header)
     IN  rx' = done.rx /\ events' = done.events
  /\ UNCHANGED suspended

\* onPreambleLocked(), on the samples of m_preTrigger from offset on.
Locked(offset) ==
  [NoFrame EXCEPT !.state = "Collecting", !.buffer = preTrigger' - offset,
                  !.at = dropped' + offset]

ChunkWhileIdle(heard, header) ==
  /\ ~suspended /\ rx.state = "Idle"
  /\ Synchronize(heard) /\ RollPreTrigger
  /\ LET inRange == {o \in 0..(preTrigger' - PreambleSamples) :
                       dropped' + o = heard.lock}
     IN  \/ /\ ~heard.found
            /\ rx' = rx /\ events' = <<>>
         \/ /\ heard.found /\ inRange = {}
            /\ rx' = rx /\ events' = <<[kind |-> "outOfRange", at |-> heard.lock]>>
         \/ /\ heard.found
            /\ \E offset \in inRange :
                 LET done == TryCompleteFrame(Locked(offset), header)
                 IN  /\ rx' = done.rx
                     /\ events' = <<[kind |-> "preamble", at |-> heard.lock]>>
                                    \o done.events
  /\ UNCHANGED suspended

ProcessAudioChunk ==
  \/ ChunkWhileSuspended
  \/ /\ counter + AUDIO_CHUNK_SAMPLES <= MaxSamples
     /\ \E scores \in [1..AUDIO_CHUNK_SAMPLES -> Scores] :
          LET heard == Heard(scores)
          IN  \E header \in Headers : \/ ChunkWhileCollecting(heard, header)
                                      \/ ChunkWhileIdle(heard, header)
=============================================================================
