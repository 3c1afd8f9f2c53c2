---------------------------- MODULE TxSequencer -----------------------------
(***************************************************************************)
(* src/ui/MainWindow as the sequencer of transmissions: the GUI thread's   *)
(* handlers, its timers and its modal alarms, composed with the worker     *)
(* thread (DspThread) and with the PTT manager and the rig (PttManager).   *)
(*                                                                         *)
(* One transmission takes turns on both threads:                           *)
(*   onTransmit -> transmit() -> txAudioReady -> requestTX() -> PTT lead   *)
(*     -> startTx() -> txComplete -> PTT tail -> txOff(), startRx()        *)
(* and every arrow is a queued call, a queued signal or a single-shot      *)
(* timer, so that anything may happen on the way.                          *)
(***************************************************************************)
EXTENDS Naturals, Sequences

CONSTANTS
  Replies, UnkeyAttempts,  \* see PttManager
  MaxJobs, Faults,         \* see DspThread
  LongJobs,                \* messages that play for more than 120 s
  Disturbances,            \* what may come between: subset of DisturbanceKinds
  Budget                   \* how many of the counted ones may

(***************************************************************************)
(* "eager" (a message sent during the tail) and "macro" (one sent by a     *)
(* macro's auto-TX, which does not look at the button) are bounded by      *)
(* MaxJobs, every other disturbance by Budget.                             *)
(***************************************************************************)
DisturbanceKinds == {"eager", "macro", "settings", "sweep", "link", "mode",
                     "quit"}

ASSUME LongJobsAssumption == LongJobs \subseteq 1..MaxJobs
ASSUME DisturbancesAssumption == Disturbances \subseteq DisturbanceKinds
ASSUME BudgetAssumption == Budget \in Nat

VARIABLES
  line, rigKeyed, transmitting, pttKeyed, watchdog, alarmOpen, doomed, closed,
  alarmed, misreported,                             \* PttManager
  rx, playing, busy, rxSuspended, dspQ, guiQ,       \* DspThread
  radio,      \* m_radio: none, or a client whose link is down or up
  hasCall,    \* a callsign is entered
  uiOn,       \* m_txButton and m_txInput are enabled
  awaiting,   \* m_awaitingTxStart
  sweep,      \* m_toneSweepActive; the tone button is enabled iff it is FALSE
  leads,      \* lead timers running, oldest first: what each will play
  tails,      \* tail timers running, oldest first: "msg" or "sweep"
  modal,      \* modal boxes open, the innermost first: what runs on closing
  jobs,       \* messages sent so far
  budget,     \* disturbances left
  refused,    \* history: messages whose requestTX() was refused
  swept       \* history: a tone sweep was requested

Ptt == INSTANCE PttManager
Dsp == INSTANCE DspThread
Interlock ==
  INSTANCE TxInterlock WITH NoAudio <- 0, rig <- (radio # "none"),
    receiving <- rx, keyed <- rigKeyed, onAir <- playing

ASSUME RepliesAssumption == Replies \subseteq Ptt!Reply
ASSUME AttemptsAssumption == UnkeyAttempts \in Nat \ {0}
ASSUME FaultsAssumption == Faults \subseteq Dsp!FaultKinds
ASSUME JobsAssumption == MaxJobs \in Nat \ {0}

pttVars == <<line, rigKeyed, transmitting, pttKeyed, watchdog, alarmOpen,
             doomed, closed, alarmed, misreported>>
dspVars == <<rx, playing, busy, rxSuspended, dspQ, guiQ>>
guiVars == <<radio, hasCall, uiOn, awaiting, sweep, leads, tails, modal>>
ghosts == <<jobs, budget, refused, swept>>
vars == <<pttVars, dspVars, guiVars, ghosts>>

(***************************************************************************)
(* A box is an alarm that suspends a txOff() - the rest of whose caller is *)
(* a message's tail, a sweep's tail, the watchdog or nothing - or the box  *)
(* "tripped" of the watchdog. own: the txOff() is the current manager's.   *)
(***************************************************************************)
Callers == {"msg", "sweep", "watchdog", "none"}
Box == [of : Callers \cup {"tripped"}, own : BOOLEAN]
Alarm(caller) == [of |-> caller, own |-> TRUE]
Tripped == [of |-> "tripped", own |-> FALSE]

\* The type invariant of the whole; alarmOpen is what PttManager sees of modal.
TypeOK ==
  /\ Ptt!TypeOK
  /\ Dsp!DspTypeOK
  /\ radio \in {"none", "down", "up"}
  /\ {hasCall, uiOn, awaiting, sweep, swept} \subseteq BOOLEAN
  /\ leads \in Seq(Dsp!Audio)
  /\ tails \in Seq({"msg", "sweep"})
  /\ modal \in Seq(Box)
  /\ alarmOpen = \E i \in 1..Len(modal) : modal[i].own
  /\ jobs \in 0..MaxJobs
  /\ budget \in 0..Budget
  /\ refused \subseteq Dsp!Jobs

Init ==
  /\ Ptt!Init
  /\ Dsp!DspInit
  /\ radio = IF line = "up" THEN "up" ELSE "none"
  /\ hasCall = TRUE /\ uiOn = TRUE
  /\ awaiting = FALSE /\ sweep = FALSE
  /\ leads = <<>> /\ tails = <<>> /\ modal = <<>>
  /\ jobs = 0 /\ budget = Budget /\ refused = {} /\ swept = FALSE

-----------------------------------------------------------------------------
(* What the handlers are made of.                                           *)

\* Calls queued for the worker thread.
Post(calls) == dspQ' = dspQ \o calls
StopListening == <<Dsp!Call("stopRx")>>
Listen == <<Dsp!Call("startRx")>>
GiveUp == <<Dsp!Call("pipeDone")>>
Play(a) == <<Dsp!CallFor("startTx", a)>>

Hears(sig) == ~closed /\ guiQ # <<>> /\ Head(guiQ).sig = sig /\ guiQ' = Tail(guiQ)
Heard == Head(guiQ).job

Disturb(d) == ~closed /\ d \in Disturbances /\ budget > 0 /\ budget' = budget - 1

dspOnly == <<rx, playing, busy, rxSuspended>>

(* txOff() called by a handler that posts some calls before it and some     *)
(* after: it runs to its end; or it opens the alarm over what was open, and *)
(* the rest of the handler waits for that box.                              *)
TxOff(caller, before, after) ==
  /\ \/ /\ Ptt!TxOffCompletes
        /\ Post(before \o after)
        /\ UNCHANGED <<alarmOpen, modal>>
     \/ /\ Ptt!TxOffAlarms
        /\ Post(before)
        /\ alarmOpen' = TRUE
        /\ modal' = <<Alarm(caller)>> \o modal
  /\ UNCHANGED <<line, doomed, closed>>

(* requestTX() called by a handler for what is about to be played           *)
RequestTX(granted) ==
  /\ Ptt!RequestTX(granted)
  /\ UNCHANGED <<line, alarmOpen, doomed, closed, alarmed>>

(* onTxComplete(): the UI comes back at once and the tail starts. A pending *)
(* tone sweep takes the call for its own.                                   *)
Complete ==
  /\ awaiting' = FALSE /\ sweep' = FALSE
  /\ uiOn' = (uiOn \/ ~sweep)
  /\ tails' = Append(tails, IF sweep THEN "sweep" ELSE "msg")

-----------------------------------------------------------------------------
(* A message, step by step                                                  *)

\* Mutant: the message is handed over before the receiver is stopped.
OnTransmitSwapped ==
  /\ ~closed /\ jobs < MaxJobs /\ uiOn /\ modal = <<>> /\ playing = Dsp!None
  /\ tails = <<>>
  /\ jobs' = jobs + 1 /\ uiOn' = FALSE
  /\ Post(<<Dsp!CallFor("transmit", jobs + 1)>> \o StopListening)
  /\ UNCHANGED <<pttVars, dspOnly, guiQ, radio, hasCall, awaiting, sweep,
                 leads, tails, modal, budget, refused, swept>>

(* onTransmit(). Nobody can press the disabled button, or any while a box   *)
(* is open; a macro's auto-TX calls the slot all the same. isTransmitting() *)
(* is read across the threads.                                              *)
OnTransmit ==
  /\ ~closed /\ jobs < MaxJobs /\ hasCall /\ playing = Dsp!None
  /\ \/ uiOn /\ modal = <<>> /\ (tails # <<>> => "eager" \in Disturbances)
     \/ "macro" \in Disturbances
  /\ jobs' = jobs + 1
  /\ uiOn' = FALSE
  /\ Post(StopListening \o <<Dsp!CallFor("transmit", jobs + 1)>>)
  /\ UNCHANGED <<pttVars, dspOnly, guiQ, radio, hasCall, awaiting, sweep,
                 leads, tails, modal, budget, refused, swept>>

\* Mutant: the UI is not enabled again.
OnTransmitFailedLocked ==
  /\ Hears("transmitFailed")
  /\ Post(Listen)
  /\ UNCHANGED <<pttVars, dspOnly, guiVars, ghosts>>

(* onTransmitFailed()                                                       *)
OnTransmitFailed ==
  /\ Hears("transmitFailed")
  /\ uiOn' = TRUE
  /\ Post(Listen)
  /\ UNCHANGED <<pttVars, dspOnly, radio, hasCall, awaiting, sweep, leads,
                 tails, modal, ghosts>>

\* Mutant: a refused request is reported but the message is not given up.
OnTxAudioReadyHeedless ==
  /\ Hears("txAudioReady")
  /\ \E granted \in BOOLEAN :
       /\ RequestTX(granted)
       /\ refused' = refused \cup (IF granted THEN {} ELSE {Heard})
  /\ leads' = Append(leads, Heard)
  /\ UNCHANGED <<dspOnly, dspQ, radio, hasCall, uiOn, awaiting, sweep, tails,
                 modal, jobs, budget, swept>>

(* The txAudioReady handler: key the rig and wait for the lead; give the    *)
(* message up when the key is refused; without a connected rig play at once *)
(* (VOX).                                                                   *)
OnTxAudioReady ==
  /\ Hears("txAudioReady")
  /\ \/ /\ radio = "up" /\ RequestTX(TRUE)
        /\ leads' = Append(leads, Heard)
        /\ UNCHANGED <<dspQ, uiOn, awaiting, sweep, tails, refused>>
     \/ /\ radio = "up" /\ RequestTX(FALSE)
        /\ refused' = refused \cup {Heard}
        /\ Post(GiveUp) /\ Complete
        /\ UNCHANGED leads
     \/ /\ radio # "up"
        /\ awaiting' = TRUE /\ Post(Play(Heard))
        /\ UNCHANGED <<pttVars, uiOn, sweep, leads, tails, refused>>
  /\ UNCHANGED <<dspOnly, radio, hasCall, modal, jobs, budget, swept>>

(* The lead timer                                                           *)
LeadElapsed ==
  /\ ~closed /\ leads # <<>>
  /\ leads' = Tail(leads)
  /\ awaiting' = TRUE
  /\ Post(Play(Head(leads)))
  /\ UNCHANGED <<pttVars, dspOnly, guiQ, radio, hasCall, uiOn, sweep, tails,
                 modal, ghosts>>

(* onTxStartError(): any audioError while a start is awaited is taken for   *)
(* the failure of that start.                                               *)
OnTxStartError ==
  /\ Hears("audioError")
  /\ \/ /\ ~awaiting
        /\ UNCHANGED <<pttVars, dspQ, uiOn, awaiting, sweep, tails, modal>>
     \/ /\ awaiting /\ sweep
        /\ awaiting' = FALSE /\ sweep' = FALSE
        /\ TxOff("none", <<>>, <<>>)
        /\ UNCHANGED <<uiOn, tails>>
     \/ /\ awaiting /\ ~sweep
        /\ Complete
        /\ TxOff("none", GiveUp, <<>>)
  /\ UNCHANGED <<dspOnly, radio, hasCall, leads, ghosts>>

OnTxComplete ==
  /\ Hears("txComplete")
  /\ Complete
  /\ UNCHANGED <<pttVars, dspOnly, dspQ, radio, hasCall, leads, modal, ghosts>>

(* The tail timer: release the key, then listen again; a sweep never        *)
(* stopped the receiver.                                                    *)
TailElapsed ==
  /\ ~closed /\ tails # <<>>
  /\ tails' = Tail(tails)
  /\ TxOff(Head(tails), <<>>, IF Head(tails) = "msg" THEN Listen ELSE <<>>)
  /\ UNCHANGED <<dspOnly, guiQ, radio, hasCall, uiOn, awaiting, sweep, leads,
                 ghosts>>

-----------------------------------------------------------------------------
(* The watchdog and the boxes                                               *)

(* onWatchdog() after 120 s, an age beside every queue and timer here: it   *)
(* expires only when nothing else is about to happen, or during the audio   *)
(* of a long message.                                                       *)
WatchdogTrips ==
  /\ watchdog /\ ~closed
  /\ dspQ = <<>> /\ guiQ = <<>> /\ leads = <<>> /\ tails = <<>>
  /\ playing \in {Dsp!None} \cup LongJobs
  /\ \/ /\ Ptt!TxOffCompletes
        /\ modal' = <<Tripped>> \o modal
        /\ UNCHANGED alarmOpen
     \/ /\ Ptt!TxOffAlarms
        /\ modal' = <<Alarm("watchdog")>> \o modal
        /\ alarmOpen' = TRUE
  /\ UNCHANGED <<line, doomed, closed, dspOnly, dspQ, guiQ, radio, hasCall, uiOn,
                 awaiting, sweep, leads, tails, ghosts>>

\* Mutant: what is left of txOff() acts on the manager in use at that time.
DismissOnNewManager ==
  /\ modal # <<>> /\ ~closed /\ Head(modal).of \in {"msg", "sweep", "none"}
  /\ Ptt!TxOffResumes
  /\ modal' = Tail(modal)
  /\ alarmOpen' = \E i \in 2..Len(modal) : modal[i].own
  /\ Post(IF Head(modal).of = "msg" THEN Listen ELSE <<>>)
  /\ UNCHANGED <<line, doomed, closed, dspOnly, guiQ, radio, hasCall, uiOn,
                 awaiting, sweep, tails, leads, ghosts>>

(* The innermost box is closed: a suspended txOff() ends, on the manager it *)
(* belongs to, and its caller goes on - listens, shows the watchdog's box,  *)
(* or, after that box, runs onTxComplete().                                 *)
Dismiss ==
  /\ modal # <<>> /\ ~closed
  /\ LET box == Head(modal) IN
     /\ IF box.own
          THEN Ptt!TxOffResumes
          ELSE UNCHANGED <<rigKeyed, transmitting, pttKeyed, watchdog, alarmed,
                           misreported>>
     /\ \/ /\ box.of \in {"msg", "sweep", "none"}
           /\ modal' = Tail(modal)
           /\ Post(IF box.of = "msg" THEN Listen ELSE <<>>)
           /\ UNCHANGED <<uiOn, awaiting, sweep, tails>>
        \/ /\ box.of = "watchdog"
           /\ modal' = <<Tripped>> \o Tail(modal)
           /\ UNCHANGED <<dspQ, uiOn, awaiting, sweep, tails>>
        \/ /\ box.of = "tripped"
           /\ modal' = Tail(modal)
           /\ Complete
           /\ UNCHANGED dspQ
  /\ alarmOpen' = \E i \in 2..Len(modal) : modal[i].own
  /\ UNCHANGED <<line, doomed, closed, dspOnly, guiQ, radio, hasCall, leads,
                 ghosts>>

-----------------------------------------------------------------------------
(* The tone sweep                                                           *)

(* onToneSweepTx(): neither the callsign nor the state of the message in    *)
(* preparation is looked at.                                                *)
OnToneSweepTx ==
  /\ Disturb("sweep") /\ modal = <<>> /\ ~sweep /\ playing = Dsp!None
  /\ sweep' = TRUE /\ swept' = TRUE
  /\ Post(<<Dsp!Call("sweepAudio")>>)
  /\ UNCHANGED <<pttVars, dspOnly, guiQ, radio, hasCall, uiOn, awaiting, leads,
                 tails, modal, jobs, refused>>

OnToneSweepAudioReady ==
  /\ Hears("sweepReady")
  /\ \/ /\ ~sweep
        /\ UNCHANGED <<pttVars, dspQ, awaiting, sweep, leads>>
     \/ /\ sweep /\ radio = "up" /\ RequestTX(TRUE)
        /\ leads' = Append(leads, Heard)
        /\ UNCHANGED <<dspQ, awaiting, sweep>>
     \/ /\ sweep /\ radio = "up" /\ RequestTX(FALSE)
        /\ sweep' = FALSE
        /\ UNCHANGED <<dspQ, awaiting, leads>>
     \/ /\ sweep /\ radio # "up"
        /\ awaiting' = TRUE /\ Post(Play(Heard))
        /\ UNCHANGED <<pttVars, sweep, leads>>
  /\ UNCHANGED <<dspOnly, radio, hasCall, uiOn, tails, modal, ghosts>>

-----------------------------------------------------------------------------
(* Settings, mode, radio, exit                                              *)

(* onSettingsChanged(): the audio is stopped and the receiver restarted.    *)
OnSettingsChanged ==
  /\ Disturb("settings") /\ modal = <<>>
  /\ hasCall' \in BOOLEAN
  /\ uiOn' = hasCall'
  /\ Post(<<Dsp!Call("stop")>> \o Listen)
  /\ UNCHANGED <<pttVars, dspOnly, guiQ, radio, awaiting, sweep, leads, tails,
                 modal, jobs, refused, swept>>

OnModeChanged ==
  /\ Disturb("mode") /\ modal = <<>>
  /\ Post(<<Dsp!Call("setMode")>>)
  /\ UNCHANGED <<pttVars, dspOnly, guiQ, guiVars, jobs, refused, swept>>

(* stopRadio(), with startRadio() after it or not: the client is destroyed, *)
(* a new one may be connecting.                                             *)
RadioReconfigured ==
  /\ Disturb("link") /\ modal = <<>>
  /\ radio' \in {"none", "down"}
  /\ IF radio = "none" THEN UNCHANGED pttVars ELSE Ptt!Discard
  /\ UNCHANGED <<dspVars, hasCall, uiOn, awaiting, sweep, leads, tails,
                 modal, jobs, refused, swept>>

\* Mutant: the manager made before the radio connected stays in use.
RadioConnectsUnnoticed ==
  /\ ~closed /\ radio = "down" /\ radio' = "up"
  /\ UNCHANGED <<pttVars, dspVars, hasCall, uiOn, awaiting, sweep, leads,
                 tails, modal, ghosts>>

\* Mutant: an open box stays tied to whatever manager is current.
RadioConnectsKeepsBoxes ==
  /\ ~closed /\ radio = "down" /\ radio' = "up"
  /\ Ptt!Replace
  /\ UNCHANGED <<dspVars, hasCall, uiOn, awaiting, sweep, leads, tails, modal,
                 ghosts>>

(* The client's connected() signal, the first or after a reconnection: a    *)
(* new manager takes over, the boxes open belong to the old one.            *)
RadioConnects ==
  /\ ~closed /\ radio = "down" /\ radio' = "up"
  /\ Ptt!Replace
  /\ modal' = [i \in DOMAIN modal |-> [of |-> modal[i].of, own |-> FALSE]]
  /\ UNCHANGED <<dspVars, hasCall, uiOn, awaiting, sweep, leads, tails,
                 ghosts>>

RadioDrops ==
  /\ Disturb("link") /\ radio = "up" /\ radio' = "down"
  /\ Ptt!LinkDrops
  /\ UNCHANGED <<dspVars, hasCall, uiOn, awaiting, sweep, leads, tails,
                 modal, jobs, refused, swept>>

(* deleteLater() of a replaced manager takes effect.                        *)
OldManagerDestroyed ==
  /\ ~closed
  /\ \E d \in doomed, released \in BOOLEAN :
       /\ Ptt!Destroy(d, released)
       /\ modal' = IF released THEN modal
                   ELSE <<[of |-> "none", own |-> FALSE]>> \o modal
  /\ UNCHANGED <<dspVars, radio, hasCall, uiOn, awaiting, sweep, leads,
                 tails, ghosts>>

(* ~MainWindow(): the worker thread is stopped and joined first.            *)
Quit ==
  /\ Disturb("quit") /\ modal = <<>>
  /\ Ptt!Shutdown
  /\ rx' = FALSE /\ playing' = Dsp!None /\ dspQ' = <<>> /\ guiQ' = <<>>
  /\ leads' = <<>> /\ tails' = <<>> /\ radio' = "none"
  /\ UNCHANGED <<busy, rxSuspended, hasCall, uiOn, awaiting, sweep, modal, jobs,
                 refused, swept>>

-----------------------------------------------------------------------------
Worker == Dsp!DspStep /\ UNCHANGED <<pttVars, guiVars, ghosts>>
AudioEnds == Dsp!CompletionTimer /\ UNCHANGED <<pttVars, guiVars, ghosts>>

Handler ==
  \/ OnTransmitFailed \/ OnTxAudioReady \/ OnTxStartError \/ OnTxComplete
  \/ OnToneSweepAudioReady

Next ==
  \/ OnTransmit \/ Handler \/ LeadElapsed \/ TailElapsed
  \/ Worker \/ AudioEnds
  \/ WatchdogTrips \/ Dismiss
  \/ OnToneSweepTx \/ OnSettingsChanged \/ OnModeChanged
  \/ RadioReconfigured \/ RadioConnects \/ RadioDrops \/ OldManagerDestroyed
  \/ Quit

(* Both event loops run what is queued for them, timers fire, audio ends,   *)
(* and the operator closes the boxes. Nobody has to transmit, and no radio  *)
(* has to come back.                                                        *)
Fairness ==
  /\ WF_vars(Worker) /\ WF_vars(AudioEnds)
  /\ WF_vars(Handler) /\ WF_vars(LeadElapsed) /\ WF_vars(TailElapsed)
  /\ WF_vars(WatchdogTrips) /\ WF_vars(Dismiss) /\ WF_vars(OldManagerDestroyed)

Spec == Init /\ [][Next]_vars /\ Fairness

-----------------------------------------------------------------------------
(* The manager is used as PttManager says, by all of these handlers in any  *)
(* order; its guarantees and its fairness hold here.                        *)
ImplementsPttManager == Ptt!Spec

(* An undisturbed station keeps the order a half-duplex rig needs: receiver *)
(* off, key, lead, audio, tail, unkey, receiver on - also when the audio    *)
(* fails to start.                                                          *)
ImplementsInterlock == Interlock!Spec

(* The modem is deaf exactly while a transmission is in progress.           *)
MutedIffBusy == Dsp!MutedIffBusy

(* The client MainWindow asks before it keys is the one its manager keys.   *)
ManagerHasTheRadio == radio = "up" <=> line = "up"

(* A message whose key was refused is never put on the air.                 *)
RefusedNeverPlays == playing \notin refused

(* The transmit button and its text come back, whatever happened on the way *)
(* - unless the callsign was erased, or a tone sweep took the completion of *)
(* the message for its own.                                                 *)
UiReturns == ~uiOn ~> (uiOn \/ ~hasCall \/ swept \/ closed)

(* MainWindow.cpp: "Pipeline clears its transmitting flag when audio        *)
(* finishes".                                                               *)
PipelineReturns == busy ~> ~busy

(* After whatever the operator sent, the station listens again: the rig is  *)
(* unkeyed, the receiver runs, the modem is not muted, the button is back.  *)
Listening ==
  ~rigKeyed /\ ~transmitting /\ rx /\ ~rxSuspended /\ uiOn /\ playing = Dsp!None
ListensAgain == []<>Listening
=============================================================================
