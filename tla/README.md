# HAVEN-FSK: a TLA+ verification project

HAVEN-FSK is a Qt application for digital radio: it turns text into audio (MFSK
or PSK31), keys a transceiver while the audio plays, and decodes what it hears.
This directory holds a TLA+ model of the program: keying, sequencing and the two
threads that share the work, the connections to the radio and the commands on them,
the receiver, the codecs of both modes, and the log with its export; with TLC
configurations that check it and TLAPS proofs about it.

    tlc -workers 2 -config MCPttManager.cfg MCPttManager.tla
    tlapm PttManager_proofs.tla

`PROJECT.json` maps every definition to its source lines and lists the runs, the
mutants that each property must catch, the hazards and the theorems.

## 1. Inventory

| component | state | operations | interacts by |
|---|---|---|---|
| `MainWindow` (GUI thread) | button enabled, `m_awaitingTxStart`, `m_toneSweepActive`, current radio and PTT manager, single-shot timers, open boxes | `onTransmit`, the `txAudioReady` slot, lead and tail timers, `onTxComplete`, `onTxStartError`, `onTransmitFailed`, tone sweep, settings, mode, radio configuration, exit | calls queued for the DSP thread; signals queued back; direct calls to the manager; nested event loops of message boxes |
| `PTTManager` (GUI) | `m_transmitting`, `m_pttKeyed`, watchdog timer, pointer to the radio | `requestTX`, `txOff`, `onWatchdog`, destructor | blocking `setPTT()`; `pttReleaseFailed` and `watchdogTripped`, whose slots open modal boxes |
| `RigctldClient`, `TCIClient`, `HamlibClient` (GUI, one pool thread) | connected, user disconnected, ever connected, attempt count, timers, socket or rig handle | connect, disconnect, retry and back-off, poll, `setPTT` and other commands | sockets or Hamlib; `connected`, `disconnected`, `connectFailed` |
| `AudioEngine` (DSP thread) | `m_receiving`, `m_transmitting`, sink, source, completion timer | `startRx`, `stopRx`, `startTx`, `stopTx`, `stop`, the completion timer | `txComplete`, `audioError`, `rxDataReady` |
| `DspPipeline` (DSP thread) | `m_transmitting`, the modem, measurement cache | `transmit`, `onTxComplete`, `setMode`, `onAudioChunk`, tone sweep | direct calls on its thread, queued signals to the GUI |
| `MfskModem`, `PreambleSync` | idle or collecting, buffers, soft-symbol cache, run tracker, `m_rxSuspended` | `processAudioChunk`, `tryCompleteFrame`, `resetRx` | called by the pipeline |
| `Frame`, `Interleaver`, `FEC`, Gray code | none | assemble, parse, encode, decode | called by the modem |
| `Psk31Modem`, `Varicode` | signal present, quality sum, decoder bits | `processAudioChunk`, `decodeBit` | called by the pipeline |
| `LogManager`, `AdifExporter`, `ExportDialog` | SQLite connection, open flag; date option and preview | open, close, log, update, delete, queries, export | called by `MainWindow` and the export dialog |
| `LogPanel` | entry strip, row under edit, table of the session, `m_frequency` | log, edit, delete, auto-population from decoded messages | `contactLogged`, `contactUpdated`, `contactDeleted`; modal boxes |
| `FrequencyControl`, tuning line of `WaterfallWidget` | frequency shown, digit under the mouse, step | scroll, click, type, step, set from the radio | `frequencyRequested`, `tuneRequested`; blocking commands of the client |
| RX recording | recording flag, buffer | toggle, append, save at the cap | `rxDataReady` |
| panels, dialogs, `main`, self-tests, kissfft | forms and pictures | - | - |

What makes the system hard: one transmission takes turns on two threads through
two queues and two timers; `txOff()` and the watchdog open message boxes and so
run *other* handlers in the middle of a handler, and so do the log panel's; radios reconnect at any time and
replace the PTT manager under a running transmission; a command to the rig can be
lost, refused, executed and not acknowledged, or answered after the next one was sent;
the table of contacts and the database change in separate steps; a flag on one thread decides
about the state of the other.

What makes each part correct: the manager never forgets a key it holds; the
sequencer keeps the half-duplex order and gives the operator the button and the
receiver back; the pipeline is muted exactly while it transmits; the clients
retry as often as they say and no more; the receiver always goes back to
listening and never mixes two frames; the codec gives back what it was given, and says
so when it cannot; an entry of the log is about one station, what was saved stays, and
the exported files are the day's; the frequency shown and logged is the rig's.

## 2. Plan

Done in this order: `PttManager` and its proofs; `DspThread`; `TxInterlock` (the
abstract half-duplex station); `TxSequencer`, which composes the first two with
`MainWindow`; its simulation of `PttManager`, proved; two invariants of the
composition, proved; `RadioClient` with the connection machines of `RigctldClient`,
`TCIClient` and `HamlibClient`, composed by `RadioLinks` with what `MainWindow` and the
dialog do to them; the invariants of `RadioLinks`, proved; `PreambleSync`, `MfskModem` and
`DspReceiver`, the receiving side, and its invariants, proved.

Then `Interleaver`, `FEC`, `Frame`, `Varicode` and `Psk31Modem`, composed by `Loopback` with the
path between two stations, and two theorems about the interleaver; `LogManager`,
`AdifExporter` and `LogPanel`, composed by `LogDesk`; `RigCommands` and `FrequencyControl`,
composed by `Tuning`; and proofs about both compositions. Last, inductions over data where a
theorem needs them (`BoundedInduction`): the detector's samples, the selections of the log;
the refinement of `TxInterlock`, proved for the undisturbed station; and that the text of a
PSK31 transmission arrives, proved over the symbols on the air.

What remains worth doing, in order:

1. `RadioLinks` as the implementation of what `PttManager` assumes of the link (`line`), and
   `Tuning` over `RadioLinks` instead of over a link that is up or down.
2. `DspThread` over `DspReceiver` instead of over a flag that says whether the modem is
   muted; the measurement cache, which the two threads share under a mutex.
3. The recording buffer, which is saved and cleared inside the chunk handler.
4. Proofs: that a frame which the channel left alone arrives, from the encoder to the decoder,
   for every parity matrix whose encoder can be built.

## 3. Modules

| module | models | abstraction of the data |
|---|---|---|
| `PttManager` | `PTTManager`, the rig, the client as `setPTT()` sees it, the replacement of managers in `MainWindow` | a `setPTT()` call is a pair: what it returned, whether the rig obeyed |
| `DspThread` | `AudioEngine` and `DspPipeline` on the worker thread, the two queues | audio is the number of the message it carries |
| `TxSequencer` | `MainWindow`'s handlers, timers and boxes, composed with the two above | texts, devices and levels are left out; the callsign is present or not |
| `TxInterlock` | abstract: what a half-duplex station owes its transceiver (ADR-071, ADR-073) | - |
| `RadioClient` | the fields the three clients share, their bounded first attempts, the rig label and the dialog's status line | times and back-off delays are left out: a timer is pending or not |
| `RigctldClient`, `TCIClient`, `HamlibClient` | the connection machine of each | addresses, rig models and commands are left out |
| `RadioLinks` | `startRadio()`, `stopRadio()`, the radio dialog's buttons, composed with one client of the method chosen | a saved setting is the method it names |
| `PreambleSync` | the run tracker of the preamble detector, as operators on a record | what the sliding DFT hears is a score, any score |
| `MfskModem` | the receiver: rolling buffer, frame under way, symbol cache, header, limits | a buffer is its length and its position; what a header says is an input; PCM, tones and text are left out |
| `DspReceiver` | the receiving side of `DspPipeline`, composed with the modem | - |
| `RigCommands` | commands on a link that is up, for the three clients, and rigctld or a TCI server behind it | an answer is its first line; how much is served while a command waits is a choice |
| `FrequencyControl` | the frequency shown and what the operator can ask for from there | digits and buttons are the frequencies they lead to |
| `Tuning` | `MainWindow` between the client, the two widgets and the log's frequency | mode is read and set, not kept |
| `Interleaver` | the interleaver, for bits in place of soft values | - |
| `FEC` | encoder and decoder | a soft value is certain or missing |
| `Frame` | `assemble()` and `parse()` | a symbol is its tone, or erased |
| `Varicode`, `Psk31Modem` | the Varicode coder and decoder, the modem around them | a symbol is its phase, or missing, and a quality |
| `Loopback` | one station, a path that fades and errs, another station | - |
| `Selection` | the loops that pick the rows of a query and the events of a chunk | - |
| `LogManager` | the contacts table and its statements | a contact is its entry, frequency, day, time, parks and summit |
| `AdifExporter` | the files of a date | a file is its name's parts and its records |
| `LogPanel` | entry, table, edit mode and boxes | a field is the station its text is about |
| `LogDesk` | the four with `MainWindow`'s slots, messages, settings and the export dialog | a message is whom it names, who signed it, and whether it has tags |
| `PttManager_proofs`, `TxSequencer_proofs`, `RadioLinks_proofs`, `Receiver_proofs`, `Loopback_proofs`, `Tuning_proofs`, `LogDesk_proofs` | theorems | - |
| `BoundedInduction` | induction up to a bound, recursive functions, selections and concatenations, for those | - |
| `MCPttManager`, `MCTxSequencer`, `MCRadioLinks`, `MCReceiver`, `MCLoopback`, `MCLogDesk`, `MCTuning` | values for TLC | - |

### How the code corresponds

*Handlers are actions.* A queued call is a record in `dspQ`, a queued signal one in
`guiQ`; each is taken from the head by one action that does everything the handler
does. Calls are queued in the order in which the code makes them.

*Nested event loops.* `txOff()` has two ways through: `TxOffCompletes`, to its end,
and `TxOffAlarms`, up to `pttReleaseFailed()`. In the second case the box opened by
`onPttReleaseFailed()` is pushed on `modal`, together with what the caller still
has to do (`Callers`); other handlers run; `Dismiss` closes the innermost box and
continues. In `PttManager` alone, where the stack is not visible, `alarmOpen` says
that at least one call is suspended and `AlarmDismissed` may leave another open.
`TypeOK` of `TxSequencer` and theorem `BoxesMatch` say that the two views agree.

*Replacement.* The `connected()` slot makes a new manager and sends the old one to
`deleteLater()`. `doomed` remembers replaced managers that held a key: their
destructor will call `txOff()`, on the client in use ("same") or on one that has been
destroyed in between ("gone"). What a call through a destroyed client does is
undefined: it may return and do anything. Boxes of the old manager stay open and no
longer touch the new one (`own` becomes FALSE). A suspended `txOff()` that resumes on
a deleted manager is undefined in C++ as well; the model gives it no effect on the
new manager.

*Shutdown.* `~MainWindow()` stops and joins the worker, disconnects the radio, and
leaves the rest to `~QWidget()`, which destroys children in the order in which they
were created: the client before the manager made for it.

*The rig.* Only its PTT line. `Answers` gives every outcome of a call: over a live
link one of the constant `Replies`; over a dropped one, failure without effect; over
a destroyed client, anything.

*Timers.* Lead and tail timers are queues because equal delays fire in order. The
120 s watchdog is long beside the queues and the timers (0 to 2 s): it fires when
none of those is about to act and either nothing plays or a message of `LongJobs`
does. `PttManager` alone lets it fire at any time.

*The operator.* A disabled button and any control behind a modal box cannot be
pressed, but a macro with auto-TX calls `onTransmit()` all the same 50 ms later.
`isTransmitting()` is read across the threads. The message box of `onAudioError()` is
left out: each slot of a queued signal is an event of its own, so `onTxStartError()`
runs inside that box's event loop, next in order, and nothing waits for the box.

*Initial states.* After the constructor: the receiver runs, nothing is queued, and a
radio is connected or none is configured. The callsign is entered.

*One client at a time.* `startRadio()` makes the client and calls its `connect()` once;
`stopRadio()` calls `disconnect()` and sends it to `deleteLater()`. So no handler runs on a
client whose `m_userDisconnected` is true, except the delivery of a posted result to a
Hamlib client that waits for its deletion, and the field is not a variable.
`stopRadio()` clears the label, whatever `disconnect()` emitted before.

*rigctld.* The first attempt blocks in `waitForConnected()`, and the socket emits its
signals inside it. `Connect` is the set of states it may leave: connected; connected
and lost again by a command that a slot of `connected()` sent (`onDisconnected()` runs
inside `onConnected()`); refused, which `onError()` and then `connect()` itself schedule;
or timed out, which only `connect()` schedules. Later attempts are asynchronous.

*TCI.* The retry timer repeats until `onConnected` stops it, and every tick opens the
socket anew while the connection is not up: an attempt still under way is abandoned
without a signal. A link that is open but has not finished its init block is `open`
with `up` false; the timer leaves it alone, because the socket is valid.

*Hamlib.* `rig_open()` runs on a pool thread. `job` is how far the worker of the current
client has come: opening, past the open, past its one look at the cancel flag, its
result posted. A client that is left keeps its worker as an entry of `orphans`. A worker
past its look posts to a client that may be gone; whether the rig it opened is then
closed depends on whether the deletion comes first, and `leaked` records that it was not.

*Attempts.* `attempts` is the code's counter. It decides nothing above `MaxAttempts` but the
length of a delay, and saturates there. `tries` is a history: the attempts made before
the first success, whatever the counter says.

*The dialog.* `wired` is whether it is connected to the signals of the client there is now:
`startRadioAndWire` does it after `startRadio()` has returned. Connect emits
`configChanged()` and `connectRequested()`, and the slots of both start the radio: two
clients, of which the first is left at once.

*The modem.* `rxSuspended` is `MfskModem`'s flag. The PSK31 modem inherits an empty
`setRxSuspended()` from `IModem`; what is said of muting is said of MFSK.

*The receiver's positions.* `counter` is the detector's count of samples, `preTrigger` the
size of the rolling buffer and `dropped` what was trimmed from its front; a lock is a
position in the first and is cut out with the other two. `at` is a history: the position
of the first sample of the frame under way. A chunk is one action: the detector takes
all its samples (a recursive function of the scores), then the collecting or the idle branch runs to
its end, then the pipeline polls. `events` is what the chunk emitted.

*The detector.* A run is a stretch of samples above the threshold, cut after two symbols;
`chainAt`, a history, is where the present chain of runs began, runs no further apart than
one preamble. The DFT's warm-up is shorter than `REACH_BACK`, so one test stands for both.

*A frame.* `nBlocks` is -1 until the header is read. The header's three copies and their
vote are abstracted to the result: `BadHeader` or a count. `Frame::parse()` votes on the same
symbols and so finds what the modem found; a frame with a failed CRC is handed on like
any other and marked for the operator.

*Suspension.* A suspended modem drops the chunk before the detector sees it, and keeps the
frame under way: it goes on after the transmission, with the samples of both sides
joined. The model does the same; `BuffersAgree` and the limits hold across it.

*Modes.* `setMode()` makes a new modem. A spell of PSK31 between two of MFSK is seen as one
change of mode.

*Commands.* A command of `RigctldClient` blocks the GUI thread for up to its timeout. `served` says
how many of the requests before it and itself rigctld got to in that time: all, and the
last answer is its own; fewer, and it fails, its request stays in `asked`, and the
answers it missed arrive later. What has arrived when the next command begins is
discarded (`answers`), what has not is read as the next one's: `SendCommand` does both.
The two lines of a mode's answer arrive together in the model; with nothing outstanding,
which is what the property is about, that changes nothing.
`done` records the commands of the present event, for the property. `TCIClient` returns
before anything is served, and hears frequencies as pushes; `HamlibClient` calls the rig.

*The frequency.* `shown` is what `FrequencyControl` shows and counts from, `logged` what the
log panel stamps contacts with. A request of the operator sets both before the radio
has it. `WaterfallTune` and the loss of the radio set only the first. A third copy is
`link.cache`, which a TCI client keeps from the pushes and returns instead of asking; a click
on the waterfall tunes from it. When such a client connects, a push in the init block is kept
and not announced (`Greeted`: there may be none), the slots of `connected()` run (`Opened`),
and then the client requests the frequency (`Connect`), whose answer is a push like others.

*Symbols.* The codec's modules work on whole messages, from `Assemble` to `Parse`. What the
path does to a symbol is to replace it by another tone, or by `Erased`, whose energies are
equal and whose soft values are zero. The decoder's messages are then certain or zero,
and its rounds are those of the code, with its early end and its limit of iterations.
The parity checks of `MCLoopback` are a small code of 32 bits; the real one has 192
(`LDPC_N`), 96 of them data, built and used by the same operators.

*PSK31.* A bit is a change of phase or none, so that what is heard of a bit depends on the
symbol before it. `HearSymbol` is the end of a symbol in the demodulator, `HearSymbols` a
chunk; `Events` are the characters of a chunk, each at the symbol that completed it. A chunk
below the level of the carrier detector is not demodulated (`ReceiveWeakChunk`) and resets
what was being received. `Noises` is what a receiver may have heard before the transmission began.

*The log.* A row of the table is the map that is kept under it; its place is its index, and
`editing` is `m_editingRow + 1`. `mixed` is a history: that somebody else than the panel
itself put two stations into an entry, be it the operator at a field or the pipeline,
which takes the word before `DE` for the sender. A box is open in `box` while messages go
on arriving. `dbId` is what a row has under `db_id`: nothing, since `contactSaved()` is
connected to nothing. The `"crash"` of `ConfirmDelete` is the null item dereferenced when a
message ended the edit under the box.

*The files.* `ExportDate` returns the files as a set of names and records; the preview is the
set of names the dialog lists, worked out by its own code.

## 4. Runs

| run | checks | shows |
|---|---|---|
| `ptt` | `TypeOK`, `KeyIsWatched`, `KeyIsAccounted`, `SessionEnds`, `KeyIsReleased` | against any rig and any link, a key is guarded, accounted for and let go |
| `tx_session` | `ImplementsInterlock`, `ListensAgain` | four messages keep the half-duplex order and end in listening, also with failing starts |
| `tx_storm` | `TypeOK`, `MutedIffBusy`, `ManagerHasTheRadio`, `RefusedNeverPlays` | what survives every disturbance |
| `tx_live` | `ImplementsPttManager`, `UiReturns` | the composition uses the manager as specified; the button returns |
| `radio_links` | `TypeOK`, `LabelTellsTheTruth`, `NoRetryUnderWay`, `BadSettingsGiveUp`, `CancelledRigIsClosed`, `DroppedComesBack` | over any sequence of settings, the label is right, retries neither collide nor go on for ever, cancelled rigs are closed, lost links come back |
| `receiver` | `TypeOK`, `BuffersAgree`, `CacheMatchesFrame`, `FrameIsIncomplete`, `CollectionIsBounded`, `MessagesAreWhole`, `OnlyLongFramesAreGivenUp`, `LockIsOfItsChain`, `OnlyOldChainsAreMissed`, `ShownIsTrue` | for every sequence of scores and headers, frames are cut, cached, completed and given up at the right sample and chunk; no lock is older than its signal; mode changes leave nothing behind |
| `desk` | `TypeOK`, `EntryIsOfOneStation`, `SavedContactsStay`, `FilesCoverTheDay`, `PreviewNamesTheFiles` | messages under the operator's hands never make an entry of two stations; no edit, deletion or failed INSERT reaches another contact; the files of a day are complete and are the ones announced |
| `loopback` | `FramesSurviveFades`, `GoodMessagesAreTrue`, `PskTextArrives` | which fades cost nothing; a message marked good is the one sent; what a fade costs of a PSK31 text |
| `tuning` | `AnswersAreOfTheirCommand`, `QuietTciShowsTheRig`, `DisplayCatchesUp` | no late answer is taken for another command's; a TCI client with nothing on its way returns the rig's frequency, and display and log show it; with a polled radio they come to show it |
| `ptt_shutdown`, `tx_settings`, `log_edit` | one property each, expected to fail | section 6 |

### Bounds, and why they are enough

* `UnkeyAttempts` is the code's 3 wherever the rig disagrees with its answers. In
  `tx_storm` and `tx_live` it is 1: with the two replies of `MCRefusing` the number of
  attempts cannot change the outcome of the loop, only the number of ways to it.
* `MaxJobs` is 2 where messages overtake each other: the hazards need a message in
  the tail, the lead or the queue of another. `tx_session` uses 4 to repeat the cycle.
* A macro's auto-TX passes every guard that an early press of the button passes, so
  runs with `"macro"` need no `"eager"`.
* `Budget` bounds the disturbances other than messages: 2 in `tx_storm`, so that any
  two of them meet during a transmission, 1 in `tx_live`.
* `Faults` and `Disturbances` name what a run allows; between the passing runs every
  disjunct of every action is taken. `LongJobs` is `{1}` where the watchdog matters.
* `MCReplies` holds all four pairs, `MCFaithful` only the faithful one, `MCRefusing` also
  a refusal without effect.
* `MaxAttempts` is the code's 5. `MaxClicks` is 4: open the dialog, connect, and twice more
  save, connect or disconnect, so that a client is left at every stage of its attempt
  and another follows it. `MaxOrphans` is 3, so that a Connect, which leaves up to two
  workers behind, can meet the worker of an earlier click. Once the clicks are used up a
  connected Hamlib client has nothing left to do, and the run stops there.
* `receiver` scales the receiver down and keeps its proportions: a chunk is one and a
  half symbols (1.33 in the code), so chunks and symbols do not line up; the rolling
  buffer holds two and a half preambles (5.9 in the code), so a lock can be too old for
  it; the timeout is four chunks, which the block counts of the run fit in (1, 4) or do not
  (6; 12 and 125 in the code); the buffer's limit is the least that the assumption admits. Two
  scores above the threshold are enough to climb and to miss a climb. `MaxSamples`,
  eight chunks, is long enough for a frame to be received and a second one after it,
  for a timeout, and for a lock that is out of range.
* `loopback` takes texts of up to five bytes and of the lengths at which the number of
  blocks passes `MAX_NBLOCKS` and the range of its byte: with `NBLOCKS_RANGE` 8 in place of
  256 and `MAX_NBLOCKS` 5 in place of 125, a text of nine blocks announces one. Fades of every
  length that can take a header copy, a header and the checksum, or more than the
  interleaver spreads begin at every symbol; `MaxSpoilt` cuts off fades that begin in a
  payload of more than 40 symbols, where nothing new can happen. `ErasuresCorrected` is what
  the small code corrects wherever they fall. `MaxTransmissions` is 2: the second meets what
  the first left in the receiver. The noise is as long as the preamble of four symbols makes up for at a
  squelch of 60 per cent (`NoiseAssumption`; 32 symbols make up for 21 of noise at that squelch).
* `desk` has two other stations (interchangeable), a table of two rows, so that a third
  contact would cut one off, two dates, an old database with a mode of an earlier
  version, two contacts and one change of anything else. Three rows add no case: a row is
  under edit, before it, or behind it.
* `tuning` has three gestures, enough for a request, a turn of the knob under it and a loss of
  the link, and two requests outstanding, so that an answer can be late by more than one
  command. Frequencies are 10 to 15, with one band edge inside and one beyond the range.
* Deadlock is not checked: a program that is closed, or an operator out of messages
  and disturbances, stops.

Nothing in `PttManager` is bounded; `ptt` explores it entirely.

### Fairness

`PttManager` assumes only that the armed watchdog fires. `TxSequencer` assumes weak
fairness of the worker's event loop, of the GUI's handlers, of the lead, tail,
completion and watchdog timers, of `deleteLater()`, and that the operator closes the
boxes. The last one is an assumption about a person; it is used by `UiReturns` and
`KeyIsReleased` through the refinement, and without it a box left open would keep its
handler suspended. Nobody is assumed to transmit and no radio to come back.

`RadioLinks` assumes weak fairness of the retry timers, of the pool's workers and of
the end of attempts (a socket reports or times out; `rig_open()` returns). Strong
fairness is an assumption about the world: a rig that is tried over and over is there
some time (`RigIsBack`) and stays for the length of a handshake (`ServerIsReady`). It is
what ADR-106 waits for when it keeps retrying a rig that worked once. The operator is
not assumed to click.

`Tuning` assumes weak fairness of the server and of the reconnection. It assumes strong
fairness of two steps: the server gets to the end of its requests (`CaughtUp`), and a poll that
finds nothing outstanding is answered within its time (`PollAnswered`). A poll comes
every two seconds and waits for up to two: a rig that never answers in that time is
never shown, and no code promises it. TCI is not polled and not covered: of it
`QuietTciShowsTheRig` says the same of every state in which nothing is on its way, and needs no
fairness.

Under those of `TxSequencer`, `tx_live` shows that the watchdog's fairness in `PttManager` is
implemented by the composition and not merely assumed.

### What the properties leave out, and why

* `KeyIsAccounted` excuses states after a `setPTT()` result that contradicted the rig
  (`misreported`), and after exit. Both excuses are findings of their own.
* `UiReturns` excuses an erased callsign, exit, and runs in which a tone sweep was
  started: a sweep in preparation takes the completion of a message for its own, and
  the message's button does not come back.
* `ImplementsInterlock` holds for a station that is not disturbed. What that means is
  `Undisturbed` in `TxSequencer_proofs`, and each part of it is needed: TLC finds the order
  broken, two messages being enough, when any one of these is let in: an early message, a
  macro, saved settings, a sweep, a lost link, a `setPTT()` that is refused, a message of
  `LongJobs` (finding 4), or a sink that plays although it reported a failure
  (`"txmismatch"`).

* `LabelTellsTheTruth` does not claim that "connection failed" is the end for a TCI client,
  nor `BadSettingsGiveUp` that its tries are bounded: see the end of section 6.
* `CancelledRigIsClosed` excuses a client left in the window between the worker's look at
  the cancel flag and the posting of its result (`raced`), where a rig can stay open.
* `DroppedComesBack` says nothing of Hamlib, whose client never notices a lost rig.
* `EntryIsOfOneStation` excuses an entry somebody else mixed (`mixed`): the operator, or a
  message filed under the station it was sent to.
* `SavedContactsStay` says where a change does not reach; that it reaches its own record is
  `EditsReachTheDatabase`, which fails.
* `PreviewNamesTheFiles` excuses "current day" across midnight; the counts it shows are the
  day's, for each file. It compares the files by what they are about. A name is
  written by two pieces of code: the dialog replaces the '/' of a summit's reference
  (ExportDialog.cpp:142), the exporter a ' ' too (`sanitizeRef()`); names are references in the
  model, so a reference with a space in it, which no summit has, is outside it.
* `FramesSurviveFades` is about fades the code is designed for (`Harmless`): within one header
  copy, or over no more payload symbols than the interleaver and the code take.
* `PskTextArrives` lets a fade cost the characters it touches and the next one, and one more if
  it ends just where a character begins: the phase that character's first bit is compared with was
  not received, and the bit before it is needed to tell where the next one starts.
* `AnswersAreOfTheirCommand` is about a command with nothing outstanding before it.
* `QuietTciShowsTheRig` lets display and log hold a frequency that the rig refused: the server says
  nothing to the request, the radio is not polled, and the code has no step that takes it back.

## 5. Proofs

All proof modules are checked by `tlapm` to the last leaf.

`PttManager_proofs`, for any subset of replies and any positive number of attempts:
`Inv` is the conjunction of `TypeOK`, `KeyIsWatched`, `KeyIsAccounted` and `SessionEnds`,
and it is inductive as it stands. `TypeOK` carries the one strengthening needed, that a
manager without a radio holds no key: without it `txOff()` would skip its loop and
clear the watchdog of a held key. One lemma per operation (`RequestTXInv`, `TxOffInv`,
`DestroyInv`, `ShutdownInv`) rests on `ReleaseEffect`, which says what the retry loop can
do: it never keys the rig, and a confirmed release unkeyed it or was misreported.

`TxSequencer_proofs`, for any number of messages, budget, faults and disturbances: each
step of the program is a step of `PttManager` or leaves it alone (`StepSimulation`, one
lemma per action that reaches the manager). The invariant it takes is `BoxInv`, that
`alarmOpen` is true exactly when a box of the current manager is open. From it:
`BoxesMatch`, `SimulatesPttManager` (the safety part of `ImplementsPttManager`) and
`ManagerSafe`, the manager's invariants inside the program, by way of an instance of
`PttManager_proofs`.

Under the same constants, of the whole program: `MutedIffBusy` and `ManagerHasTheRadio`, both
inductive once the actions are sorted into those that touch the variables and those
that do not (`GuiLeavesTheModem`, `RadioUntouched`); `RefusedNeverPlays` and `TypeOK`.
`RefusedNeverPlays` is far from inductive: a refused message could play if its number were
in a second place when it was refused. `InOrder` says why it is not. Messages wait for the
pipeline in the order they were sent in (`ToDo`), their audio comes back in that order
(`Made`), and every message that has left the second queue, for the sink or because it was
refused, came before all that are still in one of them. So the number at the head of
the signals is smaller than all others in both queues and larger than any on the way
to the sink. `Behind` and `Taken` say this of one queue, once for all four that carry numbers;
each action then has one lemma, and those that hand no message on (`Quiet`) share one. The
types need what each call and signal may carry (`Posted`, `Signalled`), and take those of
the manager and the boxes from the first part.

Its last part is a refinement: `UndisturbedImplementsInterlock`, for any number of messages,
budget and unkey attempts, a station that is `Undisturbed` implements `TxInterlock`. The
abstract station has four variables and no queue, so its guards (the receiver is off when
the key goes down, the rig keyed when audio starts, silent when it is unkeyed) say nothing
about the calls in flight; what makes each of them true is where the one message is.
`SessionInv` says it: the station is `Calm` (no box, no old manager, no sweep, the rig as
the manager believes it), and in one of eight stages, from `AtRest` by `Asking`, `Prepared`,
`Leading`, `Starting`, `Sounding` and `Ended` to `Trailing`. A stage fixes the flags, the
timers and the shape of both queues. The delicate one is `Asking`: at rest there may be
restarts of the receiver in the first queue, and the message is behind them; it is safe
because `stopRx()` is queued directly before it, whatever came earlier (`Asks`). Everything
else in the queues is then harmless, an error of a receiver that did not start is the only
signal that can be before the reply, and it is not taken for a failed start because the GUI
does not wait for one yet. The lemmas of each shape (a call begins it, is put behind it,
is taken from it) are shared by the actions. The watchdog does not fire because nothing
plays long (`WatchdogSleeps`).

`RadioLinks_proofs`, for any number of permitted attempts from two and any bounds on
clicks and orphans: `TypeOK` and the four safety properties of `radio_links`. The
invariant says of the current client that its fields are consistent (`Sound`): up exactly
when the label is green, no retry pending under an attempt or a connection, and the
attempts made before the first success no more than the counter, but for one under way.
The first attempt adds one to the counter if it times out and two if it is refused, so
the counter may run ahead of the attempts but never behind; only a success, which makes
the bound vacuous, or giving up, after which nothing is tried, sets it to zero. A
second part ties a Hamlib client's link to its worker (`WorkerAgrees`), a third says that
a worker past its look at the flag has an owner or was recorded as `raced`. Each client
has one lemma per action, over the client record alone; `RadioLinks` lifts them. Two
attempts, not one, are needed: with one, the double count of a refused first attempt
would give up with its own retry pending.

`Receiver_proofs`, for every size of symbols, chunks, preambles, frames, buffers and
timeouts under `SyncAssumption` and `ModemAssumption` (a chunk holds at least a symbol; the
limit of the buffer is not below what the timeout lets in): eight of the ten
properties of `receiver`, its type invariant among them and `OnlyLongFramesAreGivenUp` as
an action property. The invariant `IInv` says of a frame under way (`Waiting`) that it
ends where the audio ends, that its cache is the demodulation of all its samples, that
something is still missing from it, and that its length lies between what the ticks
account for with a preamble and with a whole rolling buffer. The last, a bound from both
sides, is what makes the timeout come before the buffer's limit and never before a frame
that fits. The arithmetic of symbols is in three lemmas: `WholeSymbolsHold` and
`WholeSymbolsUnique` characterise the division, and `CacheGrows` says that counting the
symbols of the new samples alone adds up. The detector is not looked into for these
eight: they hold whatever position it reports.

The other two are about the detector itself, under the same constants: `LocksAreFresh` and
`FreshPreamblesAreTaken`. The detector takes the samples of a chunk one at a time, so its
invariant `Hearing` has three arguments, the detector, the sample the chunk began at and the
sample reached: the best point lies in the present chain, a run in progress has a best
point, and what was found in this chunk was found at a run that ended in it. `PushKeeps`
takes it over one sample, with a lemma for each thing a run can do (start, climb, end), and
`HeardKeeps` over a chunk, by induction. Between chunks `LInv` keeps it, together with what
was dropped: nothing, until the rolling buffer is full. That is what turns a lock that is not
in the buffer into a chain that is older than it (`PassedOver`); a lock beyond the buffer's end
cannot be, since a lock lies in its chain. `ModemAssumption` asks for one thing because of
these, that a chunk is no longer than a preamble (2048 and 24576 samples in the code): the
`lock` of a chunk is read after the whole chunk, when the next chain may have begun, and it
would then be older than it.

`Loopback_proofs` is about what the modems promise of a transmission. Its first part is the
interleaver, for every number of blocks and every length of a block: `RoundTrip`, that
the receiver puts every bit back, and `BurstsAreSpread`, that bits sent fewer positions
apart than there are blocks belong to different blocks, which is what
`FramesSurviveFades` relies on. The arithmetic is in `Coordinates` and `Position`. The second is
the header: `OneWrongCopyIsOutvoted`, that the vote finds what three right copies would give,
if every bit is wrong in one copy at most. It may be another copy for another bit, which is what
a fade across the end of a copy does.

The third part is `AlwaysPskTextArrives`, for every table of code words, length of the
preamble, text, noise, phase of the carrier, squelch, sequence of transmissions, and run of
weak chunks. What is shown of a character depends on all the bits since the one before it, so the
invariant `ReceptionInv` says where the receiver is: some carrier is being received, the
symbols on the air are the rest of the transmission, and at each position of it `Good` holds.

* `Locked`: the phase the next one is compared with is that of the last symbol, unless the
  fade has just ended; so a symbol is heard as the bit that was sent, whichever way up the
  carrier is taken (`Phases`, `HearsFacts`).
* `Zeroed`: whatever was collected before, from the third zero of the preamble on only four short
  words can be held (`Junk`), and the first character finds one of them.
* `Collected`: within a character the bits held are exactly those of the code word so far
  (`Exact`) if the one before was heard too; if only this one was, they end as the word
  does (`Delimited`), so that its two zeros leave nothing for the next; and if not even that,
  they may also be `Junk`. The two degrees below `Exact` are the characters a fade costs beyond
  those it touches.
* `Clear`: the sum of the qualities may be short of the squelch by no more than the symbols of
  the preamble still to come will add (`Slack`): what was noise before the transmission cannot
  put the first characters below the squelch.
* `Heard`: every character that should have been shown by now was.

One symbol that is heard (`HearStep`), one that is missed (`WeakStep`), and the beginning of a
transmission (`SendTextStep`) keep it, the last whatever the previous one left behind.
`ExactStep` and `ExactEnd` decode one code word; that its two zeros end it and no two within do is
the assumption on the table.

`Tuning_proofs`, for any frequencies and any number of commands, faults and answers:
`AlwaysAnswersAreOfTheirCommand`. The invariant says of the link that what waits to be
answered is a queue of commands, and of the last entry that it is good. The step that
matters is `OwnAnswer`: with nothing outstanding the queue holds the command alone, so
either nothing was served and the response is empty, which a rigctld client reports as a
failure, or what came is the command's own reply. The other clients do not read answers
from their queue.

And `AlwaysQuietTciShowsTheRig`. Once nothing is on its way the property is the last of three
cases of `Informed`: a request that the server answers with a push is waiting, or a push is,
or client, display and log hold what they should. `TciInv` adds that the last push is always of the
frequency the rig is on, and that none waits while the link is down. A gesture that the
rig accepts leads to the first case, one that it refuses leaves the case as it is, serving
leads from the first to the second, and the last push to the third. The request sent after
`connected()` is what makes it hold when the link comes up: without it a knob turned
meanwhile would stay unknown until the single shot of `onRadioConnected()`. Two facts about
numbers keep the placeholder, 0, out of what can be asked: no digit's step is above the 1 MHz
the wheel clamps to (`FrequencyAssumption`), and no offset on the waterfall reaches down to it
(`TuningAssumption`).

`LogDesk_proofs`, for any stations, messages, size of the table and number of contacts:
the five properties of `desk`. Four invariants.
`PanelInv`: the entry and every row are sound (if they mix two stations, somebody other than
the panel did it), the row under edit is in the table, and no row has a `dbId`, since
nothing gives it one. `StoreInv`: ids grow below the next one and every saved id is there; an
edit or a deletion cannot harm it, because what they hand to the database is id 0. That
argument is finding 7 read the other way: what keeps the records safe is what makes edits
not reach them. `DeskInv` bounds the rest. `FilledIsSound` is the heart of the second: what
is filled in is the author's, into an entry about the author or about nobody.

`ExportInv` is for the files. Nothing is logged while the dialog is open, and edits and deletions do
not reach the table, so the preview of a date goes stale only with the date; and every row has a mode of ADIF, or one of an older version that `makeRecord()` maps
(`NewRowsHaveTheirMode` for what is logged; what an earlier session left is the assumption
`HasItsMode` of `DeskAssumption`, the two cases that AdifExporter.cpp:60-68 names). With it
`AlwaysPreviewNamesTheFiles` and `AlwaysFilesCoverTheDay` are facts about two pieces of code that
work out the same thing: the dialog's and the exporter's parks and summits are the same
(`SameReferences`), and a query by date and park picks the rows that the exporter picks from
those of the date. The lemma under all of them is `KeptRows`: which elements a selection has
and in what order, by induction over the table.

`BoundedInduction` is what the inductions stand on. The library's theorems of induction take
a property as an operator, which the provers cannot instantiate; here the property is a set of
numbers (`UpTo`), and the principle comes from the library's fact that a nonempty subset of a
well-founded set has a least element. `RecursionExists` shows in the same way that the equations
of a recursive function have a solution, without which nothing is known of the function
that TLA+ chooses. The model writes the recursions it proves about as functions (`Heard`,
`Kept`, `HearSymbols`). From these come what the sequences of the models need: `KeptRows`, for the rows
of a query and the events of a chunk, and `Flattened`, for code words put end to end.

Assumptions: those of the modules on their constants, which TLC evaluates in the runs. Of PSK31:
code words differ, begin and end with a one, have no two zeros in a row and, with the zeros
around them, fit into the accumulator (`VaricodeAssumption`; 12 bits and 16 in the code); a preamble has three
symbols or more (`PreambleAssumption`; 32 to 128 in the code); and the noise before a
transmission is no longer than its preamble makes up for (`NoiseAssumption`). The last is one about the
world. At a squelch of zero it says nothing; with more noise the first characters can
be lost, as section 6 says.

Only model-checked: two properties of `loopback`, and all liveness, which with fairness
and `ENABLED` is beyond the prover. `GoodMessagesAreTrue` and `FramesSurviveFades` are not
facts about every value of the constants: a checksum of 16 bits lets through some other text
if enough symbols are spoilt, and which erasures a code corrects depends on its parity
checks; TLC decides both for the fades and the code of the run. No module uses
`RECURSIVE`; the retry loop is a quantifier over the sequences of its answers.

## 6. Where the code and its documents disagree

Three of these have a run that is expected to fail; the others can be read off the model.

1. **An unheard key-up.** `requestTX()` takes an unacknowledged `T 1` for
   a refusal, though the rig may have executed it, and records no key: no `txOff()`
   will unkey it. `PTTManager.h` promises that "a keyed rig always gets the unkey
   attempt".
2. **Exit while transmitting** (`ptt_shutdown`). `~MainWindow()` disconnects and destroys
   the client before the manager's destructor uses it. `PTTManager.cpp`: "a shutdown
   mid-TX deliberately blocks to unkey the rig rather than leave it transmitting".
3. **A message during the tail.** The button is enabled before the tail; the
   tail's `startRx()` lands behind the next message's `stopRx()`, and that message plays
   with the receiver on. ADR-073: "RX audio source destroyed before TX starts".
4. **The watchdog stops the key, not the audio.** The box says that the
   transmission "was stopped"; the sink plays on and completes a second time.
5. **Settings saved while transmitting** (`tx_settings`). `AudioEngine::stop()` ends the audio
   without `txComplete`; the pipeline stays busy and every later message is refused
   with "Already transmitting". The comment says that the pipeline's flag is cleared
   when audio finishes.
6. **Long messages are never received.** A header is accepted with up to
   125 blocks, but a collection ends after 468 chunks, 20 s. A block takes 48 symbols of
   32 ms: from 13 blocks on (656 symbols, 21 s; 156 bytes) a frame located at its preamble
   cannot complete, and 125 blocks take 193 s. The specification's section 4.2:
   "Effective maximum message: 125 x 12 = 1500 bytes". The transmitter sends such messages
   without complaint. `OnlyLongFramesAreGivenUp` says that no others are given up.
7. **Edits and deletions never reach the database** (`log_edit`). `LogManager` emits
   `contactSaved()` with the new `db_id` so that the panel can refer to the row; nobody is
   connected to it. An edited or deleted contact is exported as it was first logged.
   DECISIONS.md, ADR-057: "saving overwrites the existing database record".
8. **A message from B to A is filed under A.** `parseSenderCallsign()` prefers the call before
   `DE` unless it is mine: "A DE B" is taken for A's, and fills A's entry with what B said
   (ADR-040 and ADR-121 say the sender).
9. **No to the replacement box** (MainWindow.cpp:1232-1244) keeps the call, but the report
   and the other fields are set all the same, though LogPanel.h:55-59 has them follow the
   call.
10. **The box of a deletion and a message.** A message to me ends the edit under the box; Yes
   then looks up row -1 and dereferences a null item.

Seen while reading, without a run of their own: an audio error of any origin while
audio plays is handled as a failed start (`MainWindow.h` says the flag prevents that);
the tone sweep transmits without a callsign, though `README.md` says that all
transmission is blocked without one; a first failed connection to rigctld counts as
two of the five attempts of ADR-106; a TCI client that has given up and emitted
`connectFailed()` keeps its repeating timer and goes on trying, and one whose host does
not answer at all never gives up, because an attempt abandoned by the next tick is not
counted; the dialog's Connect starts the radio twice, and with "no rig control" chosen
shows "Connecting..." for good; with rigctld, the first attempt succeeds inside
`startRadio()`, before the dialog listens, and `onConnect()` then writes "Connecting..." over a
connection that works, which no later signal corrects; a preamble whose frame was
refused for its header can be located again within the same chain of runs.

Of the log: a single click during an edit shows another row's fields, which Update then writes
to the row under edit; an edit restamps the frequency; a message to me without a call
wipes the entry; a park's files carry the day's first summit (`FirstSummit`), and on a day with
parks the contacts made without one are in the general file only (ADR-029). Of the codec:
messages over 125 blocks are sent without a check; `DspPipeline` logs "CRC OK" for a
failed one. Of PSK31: an idle run of odd length loses the first character, though
Psk31Modem.cpp:19-20 says that leading zeros are dropped; the average quality counts the
idle bits before a character, so that after a long noise above the carrier level a high squelch
hides the second character too, when the first was not decoded; `resetRx()` has no caller. Of tuning: the wheel clamps to 1 to
30 MHz also what the rig shows beyond it; the Return key truncates where the prompt
rounds, and loses 1 Hz of some frequencies (FrequencyControl.h:238); the comment of
`sendCommand()` (RigctldClient.cpp:162-165) says that stale answers are not misattributed,
which is so only of those that have arrived when the next command begins; a refused
request stays on the display of a TCI radio; a click on the waterfall and the loss of the
radio do not change the log's frequency.

## 7. Not modelled

The recording buffer, the measurement cache, and opening the database again. Of the receiver:
the carrier detector and the tone monitor, which decide nothing; the frequency correction,
which moves bins and not samples; the fine timing, which is off and switched on nowhere.
Signal processing and the real-valued messages of belief propagation: floating-point
arithmetic without control state. Macros, the receive display, levels, settings
accessors and vendored code: their effect on a transmission is an input of the model. The
waits inside commands are not given a duration: what they let pass is a choice. Split and
power commands have no caller. Hazards known and left without a property: a Hamlib rig
that stops answering is never noticed (HamlibClient.cpp:327); the radio dialog listens
only after `startRadio()` has returned (MainWindow.cpp:1287); the cap of the recording saves
and clears the buffer from inside the chunk handler (MainWindow.cpp:555).
