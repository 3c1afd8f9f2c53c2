------------------------------- MODULE Tuning -------------------------------
(***************************************************************************)
(* MainWindow between a radio client that is up, the frequency control,    *)
(* the waterfall and the frequency that contacts are logged with.  Every   *)
(* event runs to its end on the GUI thread; a command blocks it.           *)
(***************************************************************************)
EXTENDS FrequencyControl, RigCommands

CONSTANTS
  Dials,     \* where the knob of the rig can be turned to
  Offsets,   \* of a place on the waterfall from the lowest tone
  NoLine,    \* no tuning line on the waterfall
  MODE_POLL_EVERY_N_TICKS,
  MaxMoves   \* bound: gestures of the operator, at the screen or at the rig

ASSUME TuningAssumption ==
  /\ Dials \subseteq Nat \ {0} /\ Dials # {}
  /\ \A hz \in Dials \cup RigBand, offset \in Offsets : hz + offset \in Nat \ {0}
  /\ MODE_POLL_EVERY_N_TICKS \in Nat \ {0} /\ MaxMoves \in Nat

VARIABLES
  method,   \* the class of *m_radio
  up,       \* m_radio->isConnected()
  link,     \* see NewLink
  tick,     \* m_pollTick
  due,      \* the single shot of onRadioConnected() is running
  logged,   \* m_frequency of the LogPanel
  line,     \* the waterfall's tuning line, as an offset
  moves     \* history: gestures so far

vars == <<shown, method, up, link, tick, due, logged, line, moves>>

Init ==
  /\ method \in Methods /\ up = FALSE /\ due = FALSE
  /\ \E dial \in Dials : link = NewLink(dial)
  /\ shown = 0 /\ logged = 0 /\ tick = 0 /\ line = NoLine /\ moves = 0

\* The link at the beginning of an event, with room for another request.
Idle == [link EXCEPT !.done = <<>>]
MayAsk == up /\ Len(link.asked) < MaxOutstanding

\* frequencyChanged(): MainWindow's display and the log panel hear it.
FrequencyChanged(hz) == SetFrequency(hz) /\ logged' = hz

(* ----------------------------- the operator ---------------------------- *)

Move == moves < MaxMoves /\ moves' = moves + 1

\* The slot of frequencyRequested(); without a radio nothing is sent.
Tune ==
  /\ Move
  /\ \E hz \in Scrolled \cup Clicked \cup Typed \cup Entered \cup Stepped :
       /\ FrequencyChanged(hz)
       /\ \/ /\ MayAsk
             /\ link' \in Outcomes(method, Idle, Request("F", hz))
          \/ ~up /\ link' = Idle
  /\ UNCHANGED <<method, up, tick, due, line>>

\* eventFilter() of the waterfall: a right click shows the tuning line and a
\* movement of the mouse moves it.
ShowLine == line' \in Offsets

\* tuningLineAt(), whose slot reads the dial for the status.
MoveLine ==
  /\ Move
  /\ ShowLine
  /\ \/ /\ MayAsk
        /\ link' \in Outcomes(method, Idle, Request("f", 0))
     \/ ~up /\ link' = Idle
  /\ UNCHANGED <<shown, method, up, tick, due, logged>>

\* Escape.
DropLine ==
  /\ line # NoLine /\ line' = NoLine
  /\ UNCHANGED <<shown, method, up, link, tick, due, logged, moves>>

\* A left click, onWaterfallTune().  The log panel does not hear of it.
WaterfallTune ==
  /\ Move /\ line # NoLine /\ line' = NoLine
  /\ \/ ~up /\ link' = Idle /\ shown' = shown
     \/ /\ MayAsk
        /\ \E read \in Outcomes(method, Idle, Request("f", 0)) :
             \/ ~Answer(read).ok /\ link' = read /\ shown' = shown
             \/ /\ Answer(read).ok
                /\ SetFrequency(Answer(read).value + line)
                /\ link' \in Outcomes(method, read, Request("F", shown'))
  /\ UNCHANGED <<method, up, tick, due, logged>>

\* setPTT(), when a message begins and ends.
Key ==
  /\ Move /\ MayAsk
  /\ link' \in Outcomes(method, Idle, Request("T", 0))
  /\ UNCHANGED <<shown, method, up, tick, due, logged, line>>

TurnKnob ==
  /\ Move
  /\ \E dial \in Dials \ {link.dial} :
       link' = [Idle EXCEPT !.dial = dial,
                            !.answers = IF method = "tci" /\ up
                                        THEN Append(@, Line("vfo", dial)) ELSE @]
  /\ UNCHANGED <<shown, method, up, tick, due, logged, line>>

(* ------------------------------ the radio ------------------------------ *)

\* Mutant: what the display shows already is not said again.
HearsChanges(read) ==
  IF Answer(read).ok /\ Answer(read).value # shown
  THEN FrequencyChanged(Answer(read).value)
  ELSE UNCHANGED <<shown, logged>>

\* A read of the frequency that emits frequencyChanged() for a number.
Hears(read) ==
  IF Answer(read).ok THEN FrequencyChanged(Answer(read).value)
  ELSE UNCHANGED <<shown, logged>>

\* onPollTimer(), and every so often the mode.
Poll ==
  /\ method \in Polled /\ MayAsk
  /\ tick' = (tick + 1) % MODE_POLL_EVERY_N_TICKS
  /\ \E read \in Outcomes(method, Idle, Request("f", 0)) :
       /\ Hears(read)
       /\ \/ tick' # 0 /\ link' = read
          \/ tick' = 0 /\ link' \in Outcomes(method, read, Request("m", 0))
  /\ UNCHANGED <<method, up, due, line, moves>>

\* requestFrequency(), when the single shot ends.
RequestFrequency ==
  /\ due /\ due' = FALSE
  /\ \/ ~up /\ UNCHANGED <<shown, logged, link>>
     \/ /\ method = "tci" /\ MayAsk
        /\ link' = [Idle EXCEPT !.asked = Append(@, Request("f", 0))]
        /\ UNCHANGED <<shown, logged>>
     \/ /\ method \in Polled /\ MayAsk
        /\ \E read \in Outcomes(method, Idle, Request("f", 0)) :
             Hears(read) /\ link' = read
  /\ UNCHANGED <<method, up, tick, line, moves>>

\* Between two events the server serves a request.
Serve ==
  /\ up /\ link.asked # <<>>
  /\ link' = [Served(method, link) EXCEPT !.done = <<>>]
  /\ UNCHANGED <<shown, method, up, tick, due, logged, line, moves>>

\* parseTCIMessage() of a frequency.
Push ==
  /\ up /\ method = "tci" /\ link.answers # <<>>
  /\ LET hz == Head(link.answers).value
     IN  /\ link' = [Idle EXCEPT !.answers = Tail(@), !.cache = hz]
         /\ FrequencyChanged(hz)
  /\ UNCHANGED <<method, up, tick, due, line, moves>>

\* The connection is lost: onRadioDisconnected().  A HamlibClient does not
\* notice that its rig is gone.
Drop ==
  /\ Move /\ up /\ method # "hamlib"
  /\ up' = FALSE
  /\ link' = [NewLink(link.dial) EXCEPT !.cache = link.cache]
  /\ SetFrequency(0)
  /\ UNCHANGED <<method, tick, due, logged, line>>

\* parseTCIMessage() before "ready": a frequency that the server pushes then is
\* kept and not announced.
Greeted ==
  IF method # "tci" THEN {Idle}
  ELSE {[Idle EXCEPT !.cache = hz] : hz \in {link.cache, link.dial}}

\* The slot of connected() may set the mode.
Opened == UNION {{l} \cup Outcomes(method, l, Request("M", 0)) : l \in Greeted}

\* Mutant: what came in the init block is taken to be enough.
ConnectUnasked ==
  /\ ~up /\ up' = TRUE /\ tick' = 0 /\ due' = TRUE
  /\ \E opened \in Opened :
       \/ method = "tci" /\ link' = opened /\ UNCHANGED <<shown, logged>>
       \/ /\ method \in Polled
          /\ \E read \in Outcomes(method, opened, Request("f", 0)) :
               Hears(read) /\ link' = read
  /\ UNCHANGED <<method, line, moves>>

\* It is made, the first time or again.  Then a TCI client requests the
\* frequency, and a client that polls reads it at once.
Connect ==
  /\ ~up /\ up' = TRUE /\ tick' = 0 /\ due' = TRUE
  /\ \E opened \in Opened :
       \/ /\ method = "tci"
          /\ link' = [opened EXCEPT !.asked = Append(@, Request("f", 0))]
          /\ UNCHANGED <<shown, logged>>
       \/ /\ method \in Polled
          /\ \E read \in Outcomes(method, opened, Request("f", 0)) :
               Hears(read) /\ link' = read
  /\ UNCHANGED <<method, line, moves>>

Next ==
  \/ Tune \/ MoveLine \/ DropLine \/ WaterfallTune \/ Key \/ TurnKnob
  \/ Poll \/ RequestFrequency \/ Serve \/ Push \/ Drop \/ Connect

(***************************************************************************)
(* A server serves, and a client reconnects.  A server gets to the end of  *)
(* its requests, and a poll that has nothing before it is answered in      *)
(* time, not always, but again and again: a poll comes every two seconds   *)
(* and waits for up to two seconds.                                        *)
(***************************************************************************)
CaughtUp == Len(link.asked) = 1 /\ Serve
PollAnswered == link.asked = <<>> /\ Poll /\ link'.done[1].ok

Fairness ==
  /\ WF_vars(Serve) /\ WF_vars(Connect)
  /\ SF_vars(CaughtUp) /\ SF_vars(PollAnswered)

Spec == Init /\ [][Next]_vars /\ Fairness

(* ------------------------------ properties ----------------------------- *)

\* A command that a client with no request under way reports as done has been
\* done, and a frequency it returns is the one the rig is on: what came late
\* for an earlier command is never taken for its answer (sendCommand of
\* RigctldClient).
AnswersAreOfTheirCommand ==
  method \in Polled =>
    \A i \in DOMAIN link.done :
      LET entry == link.done[i]
      IN  entry.ok /\ entry.before = 0 =>
            entry.carriedOut /\ (entry.cmd = "f" => entry.value = entry.dial)

\* A TCI radio is not polled.  Once nothing is on its way to it or from it, the
\* frequency its client returns, which a click on the waterfall tunes from, is
\* the one the rig is on, and display and log show it too, unless they hold one
\* that the rig refused: what the init block pushed, what was known before a
\* lost connection and the placeholder do not stay (TCIClient.cpp:136-155,
\* 164-176).
QuietTciShowsTheRig ==
  method = "tci" /\ up /\ link.asked = <<>> /\ link.answers = <<>> =>
    /\ link.cache = link.dial
    /\ \A hz \in {shown, logged} : hz = link.dial \/ hz \notin RigBand \cup {0}

\* With a radio that is polled, the display and the frequency that contacts are
\* logged with become the one the rig is on and stay it, whatever was asked of
\* it, refused by it, turned at its knob or lost on the way to it before.
DisplayCatchesUp ==
  <>[](method \in Polled => up /\ shown = link.dial /\ logged = link.dial)
=============================================================================
