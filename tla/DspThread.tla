----------------------------- MODULE DspThread ------------------------------
(***************************************************************************)
(* The worker thread of ADR-109: src/audio/AudioEngine (receiver and       *)
(* transmitter) and src/pipeline/DspPipeline (the modem's front), driven   *)
(* by the calls MainWindow queues for it and answering with signals queued *)
(* for the GUI thread.  Both queues are first-in first-out; one queued     *)
(* call, or the completion timer, runs at a time.                          *)
(*                                                                         *)
(* What the audio contains is left out: a transmission is the number of    *)
(* the message it carries, or Sweep for the tone test.                     *)
(***************************************************************************)
EXTENDS Naturals, Sequences

CONSTANTS
  MaxJobs,   \* how many messages are ever transmitted
  Faults     \* the ways a device may misbehave: subset of FaultKinds

FaultKinds == {"rxfail", "rxmismatch", "txfail", "txmismatch"}

VARIABLES
  rx,            \* AudioEngine::m_receiving
  playing,       \* what the sink plays; None iff ~AudioEngine::m_transmitting
  busy,          \* DspPipeline::m_transmitting
  rxSuspended,   \* MfskModem::m_rxSuspended (the PSK31 modem has no such flag)
  dspQ,          \* calls queued for this thread
  guiQ           \* signals queued for the GUI thread

None == 0
Jobs == 1..MaxJobs
Sweep == MaxJobs + 1
Audio == Jobs \cup {Sweep}

Calls == {"stopRx", "startRx", "stop", "transmit", "startTx", "pipeDone",
          "setMode", "sweepAudio"}
Signals == {"txAudioReady", "transmitFailed", "audioError", "txComplete",
            "sweepReady"}

\* The type invariant of the worker thread's objects and of its two queues.
DspTypeOK ==
  /\ {rx, busy, rxSuspended} \subseteq BOOLEAN
  /\ playing \in {None} \cup Audio
  /\ dspQ \in Seq([do : Calls, job : {None} \cup Audio])
  /\ guiQ \in Seq([sig : Signals, job : {None} \cup Audio])

DspInit ==
  /\ rx = TRUE /\ playing = None /\ busy = FALSE /\ rxSuspended = FALSE
  /\ dspQ = <<>> /\ guiQ = <<>>

Call(do) == [do |-> do, job |-> None]
CallFor(do, job) == [do |-> do, job |-> job]

Takes(do) == dspQ # <<>> /\ Head(dspQ).do = do /\ dspQ' = Tail(dspQ)
Arg == Head(dspQ).job
Emit(sig, job) == guiQ' = Append(guiQ, [sig |-> sig, job |-> job])

-----------------------------------------------------------------------------
(* AudioEngine                                                              *)

StopRx ==
  /\ Takes("stopRx")
  /\ rx' = FALSE
  /\ UNCHANGED <<playing, busy, rxSuspended, guiQ>>

(* startRx() drops the source it has first. A device that cannot be opened  *)
(* leaves the receiver off; a wrong format is only reported.                *)
StartRx ==
  /\ Takes("startRx")
  /\ \/ rx' = TRUE /\ UNCHANGED guiQ
     \/ "rxfail" \in Faults /\ rx' = FALSE /\ Emit("audioError", None)
     \/ "rxmismatch" \in Faults /\ rx' = TRUE /\ Emit("audioError", None)
  /\ UNCHANGED <<playing, busy, rxSuspended>>

(* startTx() stops what plays, without txComplete. A wrong format is        *)
(* reported with the same signal as a failure, but the audio plays.         *)
StartTx ==
  /\ Takes("startTx")
  /\ \/ playing' = Arg /\ UNCHANGED guiQ
     \/ "txfail" \in Faults /\ playing' = None /\ Emit("audioError", None)
     \/ "txmismatch" \in Faults /\ playing' = Arg /\ Emit("audioError", None)
  /\ UNCHANGED <<rx, busy, rxSuspended>>

(* stop(): stopRx() and stopTx(); the completion timer dies unheard.        *)
StopAll ==
  /\ Takes("stop")
  /\ rx' = FALSE /\ playing' = None
  /\ UNCHANGED <<busy, rxSuspended, guiQ>>

\* Mutant: txComplete does not reach the pipeline.
CompletionTimerGuiOnly ==
  /\ playing # None
  /\ playing' = None
  /\ Emit("txComplete", None)
  /\ UNCHANGED <<rx, busy, rxSuspended, dspQ>>

(* onTxCompletionTimer(): txComplete goes to DspPipeline::onTxComplete() as *)
(* a direct call and to MainWindow through the queue.                       *)
CompletionTimer ==
  /\ playing # None
  /\ playing' = None /\ busy' = FALSE /\ rxSuspended' = FALSE
  /\ Emit("txComplete", None)
  /\ UNCHANGED <<rx, dspQ>>

-----------------------------------------------------------------------------
(* DspPipeline                                                              *)

(* transmit(): the text is never empty here, onTransmit() saw to it.        *)
Transmit ==
  /\ Takes("transmit")
  /\ \/ busy /\ Emit("transmitFailed", None) /\ UNCHANGED <<busy, rxSuspended>>
     \/ ~busy /\ Emit("txAudioReady", Arg) /\ busy' = TRUE /\ rxSuspended' = TRUE
  /\ UNCHANGED <<rx, playing>>

(* onTxComplete(), called for a transmission that was given up              *)
PipeDone ==
  /\ Takes("pipeDone")
  /\ busy' = FALSE /\ rxSuspended' = FALSE
  /\ UNCHANGED <<rx, playing, guiQ>>

\* Mutant: a mode change is not refused during a transmission.
SetModeAlways ==
  /\ Takes("setMode")
  /\ rxSuspended' = FALSE
  /\ UNCHANGED <<rx, playing, busy, guiQ>>

(* setMode() is ignored during a transmission; else the modem is a new one. *)
SetMode ==
  /\ Takes("setMode")
  /\ rxSuspended' = IF busy THEN rxSuspended ELSE FALSE
  /\ UNCHANGED <<rx, playing, busy, guiQ>>

(* requestToneSweepAudio() makes the audio without touching the modem.      *)
RequestToneSweepAudio ==
  /\ Takes("sweepAudio")
  /\ Emit("sweepReady", Sweep)
  /\ UNCHANGED <<rx, playing, busy, rxSuspended>>

-----------------------------------------------------------------------------
DspStep ==
  \/ StopRx \/ StartRx \/ StartTx \/ StopAll
  \/ Transmit \/ PipeDone \/ SetMode \/ RequestToneSweepAudio

(* An MFSK modem is muted exactly while the pipeline counts a transmission  *)
(* as in progress: a finished or abandoned transmission never leaves the    *)
(* station deaf, and no mode change lets it decode its own signal.          *)
MutedIffBusy == rxSuspended = busy
=============================================================================
