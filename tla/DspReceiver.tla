---------------------------- MODULE DspReceiver -----------------------------
(***************************************************************************)
(* The receiving side of DspPipeline: chunks go to the modem, the state of *)
(* the modem is polled after each, a transmission mutes the modem, and a   *)
(* change of mode replaces it.  All of it happens on the DSP thread.       *)
(***************************************************************************)
EXTENDS MfskModem

VARIABLES
  transmitting,  \* DspPipeline::m_transmitting
  polled,        \* m_lastPolledRxState
  shown          \* what the last rxStateChanged said

vars == <<modemVars, transmitting, polled, shown>>

Init ==
  /\ ModemInit
  /\ transmitting = FALSE /\ polled = "Idle" /\ shown = "Idle"

PollModemStatus ==
  /\ polled' = rx'.state
  /\ shown' = IF rx'.state # polled THEN rx'.state ELSE shown

OnAudioChunk ==
  /\ ProcessAudioChunk
  /\ PollModemStatus
  /\ UNCHANGED transmitting

Transmit ==
  /\ ~transmitting
  /\ transmitting' = TRUE
  /\ suspended' = TRUE /\ events' = <<>>
  /\ UNCHANGED <<counter, sync, preTrigger, dropped, rx, polled, shown>>

\* Also called for a message that never got as far as being played.
OnTxComplete ==
  /\ transmitting' = FALSE
  /\ suspended' = FALSE /\ events' = <<>>
  /\ UNCHANGED <<counter, sync, preTrigger, dropped, rx, polled, shown>>

\* Mutant: the polled and the shown state stay those of the old modem.
SetModeSilently ==
  /\ ~transmitting
  /\ counter' = 0 /\ sync' = NewSync /\ preTrigger' = 0 /\ dropped' = 0
  /\ rx' = NoFrame /\ suspended' = FALSE /\ events' = <<>>
  /\ UNCHANGED <<transmitting, polled, shown>>

\* The modem is made anew.  A spell of PSK31 between two of MFSK has no MFSK
\* modem to speak of and is seen as one change of mode.
SetMode ==
  /\ ~transmitting
  /\ counter' = 0 /\ sync' = NewSync /\ preTrigger' = 0 /\ dropped' = 0
  /\ rx' = NoFrame /\ suspended' = FALSE /\ events' = <<>>
  /\ polled' = "Idle" /\ shown' = "Idle"
  /\ UNCHANGED transmitting

Next == OnAudioChunk \/ Transmit \/ OnTxComplete \/ SetMode

Spec == Init /\ [][Next]_vars

-----------------------------------------------------------------------------

Kinds == {"preamble", "message", "outOfRange"}
Reported(kind) == {e \in {events[i] : i \in 1..Len(events)} : e.kind = kind}

TypeOK ==
  /\ counter \in Nat /\ preTrigger \in 0..PRE_TRIGGER_SAMPLES /\ dropped \in Nat
  /\ rx \in [state : {"Idle", "Collecting"}, buffer : Nat, symbols : Nat,
             nBlocks : {-1} \cup 1..MAX_NBLOCKS, ticks : Nat, lastCheck : Nat,
             at : Nat \cup {-1}]
  /\ suspended \in BOOLEAN /\ transmitting \in BOOLEAN
  /\ polled \in {"Idle", "Collecting"} /\ shown \in {"Idle", "Collecting"}

(***************************************************************************)
(* A lock is a position in the detector's count and is cut out of          *)
(* m_preTrigger with m_preTriggerDropped: the three counts must agree at   *)
(* all times, through trimming in either state, suspension and resets, or  *)
(* frames would be cut at the wrong sample (MfskModem.cpp:158).            *)
(***************************************************************************)
BuffersAgree ==
  /\ dropped + preTrigger = counter
  /\ rx.state = "Collecting" => rx.at >= 0 /\ rx.at + rx.buffer = counter

(***************************************************************************)
(* The cache of symbols is exactly the demodulation of the frame's samples *)
(* so far, and nothing of a frame is left when the next one begins         *)
(* (MfskModem.cpp:262-268, resetRx).                                       *)
(***************************************************************************)
CacheMatchesFrame ==
  /\ rx.symbols = WholeSymbols(rx.buffer)
  /\ rx.state = "Idle" => rx = NoFrame

(***************************************************************************)
(* A frame is decoded, and a bad header found out, in the very chunk that  *)
(* completes it: between chunks there is always something to wait for.     *)
(***************************************************************************)
FrameIsIncomplete ==
  rx.state = "Collecting" =>
    WholeSymbols(rx.buffer) <
      IF rx.nBlocks < 0 THEN HeaderNeeds ELSE FrameNeeds(rx.nBlocks)

(***************************************************************************)
(* A collection cannot outlast the timeout, whatever the header announced, *)
(* and the buffer stays below its limit on the way there                   *)
(* (MfskModem.cpp:119-129).                                                *)
(***************************************************************************)
CollectionIsBounded ==
  /\ rx.ticks <= COLLECT_TIMEOUT_CHUNKS
  /\ rx.buffer <= PRE_TRIGGER_SAMPLES + rx.ticks * AUDIO_CHUNK_SAMPLES
  /\ rx.buffer <= MAX_BUFFER_SAMPLES

(***************************************************************************)
(* A message is handed on only when every one of its samples has been      *)
(* received, and no message longer than the timeout is ever handed on.     *)
(***************************************************************************)
MessagesAreWhole ==
  \A e \in Reported("message") :
    LET size == FrameNeeds(e.blocks) * SAMPLES_PER_SYMBOL
    IN  /\ e.at >= 0 /\ e.at + size <= counter
        /\ size <= PRE_TRIGGER_SAMPLES
                     + (COLLECT_TIMEOUT_CHUNKS + 1) * AUDIO_CHUNK_SAMPLES

(***************************************************************************)
(* A frame whose header was accepted is given up without a message only if *)
(* it is longer than the timeout and the preamble together: no receivable  *)
(* frame is lost to the order of checks in a chunk (MfskModem.cpp:119-129, *)
(* 248-250).                                                               *)
(***************************************************************************)
GivenUp ==
  /\ rx.nBlocks > 0 /\ counter' > counter
  /\ rx'.state = "Idle" /\ events' = <<>>

OnlyLongFramesAreGivenUp ==
  [][GivenUp => FrameNeeds(rx.nBlocks) * SAMPLES_PER_SYMBOL
                  > PreambleSamples
                      + (COLLECT_TIMEOUT_CHUNKS + 1) * AUDIO_CHUNK_SAMPLES]_vars

(***************************************************************************)
(* ADR-114: the high-water mark belongs to the present chain of runs.  The *)
(* best point, and so every lock, lies in it, never at an older signal.    *)
(***************************************************************************)
LockIsOfItsChain ==
  /\ sync.best > 0 => sync.bestAt + PreambleSamples \in sync.chainAt + 1..counter
  /\ \A e \in Reported("preamble") \cup Reported("outOfRange") :
       e.at + PreambleSamples \in sync.chainAt + 1..counter

(***************************************************************************)
(* An idle receiver passes over a preamble only if the chain of runs it    *)
(* belongs to has gone on for longer than m_preTrigger reaches back, or it *)
(* would have begun before the first sample (MfskModem.cpp:160).           *)
(***************************************************************************)
OnlyOldChainsAreMissed ==
  \A e \in Reported("outOfRange") :
    \/ e.at < 0
    \/ counter - sync.chainAt > PRE_TRIGGER_SAMPLES - PreambleSamples

(***************************************************************************)
(* The state shown to the operator is the receiver's, also after a change  *)
(* of mode in the middle of a frame (DspPipeline.cpp:27, 31, 129-133).     *)
(***************************************************************************)
ShownIsTrue == shown = rx.state /\ polled = rx.state
=============================================================================
