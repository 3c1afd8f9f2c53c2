------------------------- MODULE TxSequencer_proofs --------------------------
(***************************************************************************)
(* The whole program, for every value of the constants.  First, every step *)
(* of it is, for the PTT manager and the rig, a step of PttManager or a    *)
(* stutter; the one invariant this takes relates the boxes open on the     *)
(* screen to the manager's suspended txOff() calls.  Then its invariants,  *)
(* for any number of messages, any faults and any disturbances.  Last, a   *)
(* station that is not disturbed implements TxInterlock.                   *)
(***************************************************************************)
EXTENDS TxSequencer, SequenceTheorems, TLAPS

OwnBox(boxes) == \E i \in 1..Len(boxes) : boxes[i].own

BoxInv == modal \in Seq(Box) /\ alarmOpen = OwnBox(modal)

-----------------------------------------------------------------------------
(* Opening and closing boxes                                                *)

LEMMA BoxFields ==
  /\ \A caller \in Callers : Alarm(caller) \in Box /\ Alarm(caller).own = TRUE
  /\ Tripped \in Box /\ Tripped.own = FALSE
  /\ [of |-> "none", own |-> FALSE] \in Box
BY DEF Alarm, Tripped, Box, Callers

LEMMA Opened ==
  ASSUME NEW boxes \in Seq(Box), NEW box \in Box
  PROVE  /\ <<box>> \o boxes \in Seq(Box)
         /\ OwnBox(<<box>> \o boxes) <=> box.own \/ OwnBox(boxes)
<1> DEFINE more == <<box>> \o boxes
<1>1. /\ more \in Seq(Box) /\ Len(more) = Len(boxes) + 1
      /\ more[1] = box
      /\ \A i \in 1..Len(boxes) : more[i + 1] = boxes[i]
  OBVIOUS
<1>2. \A i \in 1..Len(more) : i = 1 \/ i - 1 \in 1..Len(boxes)
  BY <1>1
<1>3. ASSUME OwnBox(more) PROVE box.own \/ OwnBox(boxes)
  <2>1. PICK i \in 1..Len(more) : more[i].own
    BY <1>3 DEF OwnBox
  <2>2. CASE i = 1
    BY <1>1, <2>1, <2>2
  <2>3. CASE i - 1 \in 1..Len(boxes)
    <3>1. more[(i - 1) + 1] = boxes[i - 1]
      BY <1>1, <2>3
    <3>2. (i - 1) + 1 = i
      OBVIOUS
    <3> QED BY <2>1, <2>3, <3>1, <3>2 DEF OwnBox
  <2> QED BY <1>2, <2>2, <2>3
<1>4. ASSUME box.own PROVE OwnBox(more)
  BY <1>1, <1>4 DEF OwnBox
<1>5. ASSUME OwnBox(boxes) PROVE OwnBox(more)
  <2>1. PICK i \in 1..Len(boxes) : boxes[i].own
    BY <1>5 DEF OwnBox
  <2>2. i + 1 \in 1..Len(more) /\ more[i + 1].own
    BY <1>1, <2>1
  <2> QED BY <2>2 DEF OwnBox
<1> QED BY <1>1, <1>3, <1>4, <1>5

LEMMA Closed ==
  ASSUME NEW boxes \in Seq(Box), boxes # <<>>
  PROVE  /\ Tail(boxes) \in Seq(Box) /\ Head(boxes) \in Box
         /\ OwnBox(Tail(boxes)) <=> \E i \in 2..Len(boxes) : boxes[i].own
         /\ OwnBox(boxes) <=> Head(boxes).own \/ OwnBox(Tail(boxes))
<1> DEFINE rest == Tail(boxes)
<1>1. /\ rest \in Seq(Box) /\ Head(boxes) \in Box /\ Head(boxes) = boxes[1]
      /\ Len(boxes) \in Nat \ {0} /\ Len(rest) = Len(boxes) - 1
      /\ \A i \in 1..Len(rest) : rest[i] = boxes[i + 1]
  OBVIOUS
<1>2. OwnBox(rest) => \E i \in 2..Len(boxes) : boxes[i].own
  <2> SUFFICES ASSUME NEW i \in 1..Len(rest), rest[i].own
               PROVE  \E j \in 2..Len(boxes) : boxes[j].own
    BY DEF OwnBox
  <2>1. i + 1 \in 2..Len(boxes) /\ boxes[i + 1].own
    BY <1>1
  <2> QED BY <2>1
<1>3. ASSUME NEW j \in 2..Len(boxes), boxes[j].own PROVE OwnBox(rest)
  <2>1. j - 1 \in 1..Len(rest) /\ rest[j - 1] = boxes[(j - 1) + 1] /\ (j - 1) + 1 = j
    BY <1>1
  <2> QED BY <1>3, <2>1 DEF OwnBox
<1>4. OwnBox(boxes) <=> boxes[1].own \/ \E i \in 2..Len(boxes) : boxes[i].own
  <2>1. 1..Len(boxes) = {1} \cup 2..Len(boxes)
    BY <1>1
  <2> QED BY <2>1 DEF OwnBox
<1> QED BY <1>1, <1>2, <1>3, <1>4

-----------------------------------------------------------------------------
(* What the handlers' parts are for the manager                             *)

Manager == [Ptt!Next]_pttVars
Kept == UNCHANGED <<alarmOpen, modal>>

LEMMA InitBox == Init => BoxInv
<1> SUFFICES ASSUME Init PROVE BoxInv
  OBVIOUS
<1>1. modal = <<>> /\ alarmOpen = FALSE
  BY DEF Init, Ptt!Init
<1>2. <<>> \in Seq(Box) /\ ~OwnBox(<<>>)
  BY DEF OwnBox
<1> QED BY <1>1, <1>2 DEF BoxInv, OwnBox

LEMMA KeptBox ==
  ASSUME BoxInv, Kept
  PROVE  BoxInv'
BY DEF BoxInv, Kept, OwnBox

LEMMA TxOffStep ==
  ASSUME BoxInv, ~closed, NEW caller \in Callers, NEW before, NEW after,
         TxOff(caller, before, after)
  PROVE  Manager /\ BoxInv'
<1>1. CASE Ptt!TxOffCompletes /\ Kept
  <2>1. Ptt!TxOffCalled
    BY <1>1 DEF TxOff, Ptt!TxOffCalled, Kept
  <2> QED BY <1>1, <2>1, KeptBox DEF Manager, Ptt!Next
<1>2. CASE /\ Ptt!TxOffAlarms /\ alarmOpen' = TRUE
           /\ modal' = <<Alarm(caller)>> \o modal
  <2>1. Ptt!TxOffCalled
    BY <1>2 DEF TxOff, Ptt!TxOffCalled
  <2>2. BoxInv'
    <3>1. Alarm(caller) \in Box /\ Alarm(caller).own = TRUE
      BY BoxFields
    <3>2. modal' \in Seq(Box) /\ OwnBox(modal')
      BY <1>2, <3>1, Opened DEF BoxInv
    <3> QED BY <1>2, <3>2 DEF BoxInv, OwnBox
  <2> QED BY <2>1, <2>2 DEF Manager, Ptt!Next
<1> QED BY <1>1, <1>2 DEF TxOff, Kept

LEMMA RequestStep ==
  ASSUME BoxInv, ~closed, NEW granted \in BOOLEAN, RequestTX(granted),
         UNCHANGED modal
  PROVE  Manager /\ BoxInv'
<1>1. Ptt!RequestTXCalled
  BY DEF RequestTX, Ptt!RequestTXCalled
<1>2. Kept
  BY DEF RequestTX, Kept
<1> QED BY <1>1, <1>2, KeptBox DEF Manager, Ptt!Next

(* A handler that leaves the manager and the boxes alone                    *)
LEMMA Elsewhere ==
  ASSUME BoxInv, UNCHANGED <<pttVars, modal>>
  PROVE  Manager /\ BoxInv'
<1>1. Kept
  BY DEF Kept, pttVars
<1> QED BY <1>1, KeptBox DEF Manager

-----------------------------------------------------------------------------
(* One lemma for each action that reaches the manager                       *)

LEMMA OnTxAudioReadyStep == BoxInv /\ OnTxAudioReady => Manager /\ BoxInv'
<1> SUFFICES ASSUME BoxInv, OnTxAudioReady PROVE Manager /\ BoxInv'
  OBVIOUS
<1>1. ~closed /\ UNCHANGED modal
  BY DEF OnTxAudioReady, Hears
<1>2. CASE RequestTX(TRUE)
  BY <1>1, <1>2, RequestStep
<1>3. CASE RequestTX(FALSE)
  BY <1>1, <1>3, RequestStep
<1>4. CASE UNCHANGED pttVars
  BY <1>1, <1>4, Elsewhere
<1> QED BY <1>2, <1>3, <1>4 DEF OnTxAudioReady

LEMMA OnToneSweepAudioReadyStep ==
  BoxInv /\ OnToneSweepAudioReady => Manager /\ BoxInv'
<1> SUFFICES ASSUME BoxInv, OnToneSweepAudioReady PROVE Manager /\ BoxInv'
  OBVIOUS
<1>1. ~closed /\ UNCHANGED modal
  BY DEF OnToneSweepAudioReady, Hears
<1>2. CASE RequestTX(TRUE)
  BY <1>1, <1>2, RequestStep
<1>3. CASE RequestTX(FALSE)
  BY <1>1, <1>3, RequestStep
<1>4. CASE UNCHANGED pttVars
  BY <1>1, <1>4, Elsewhere
<1> QED BY <1>2, <1>3, <1>4 DEF OnToneSweepAudioReady

LEMMA OnTxStartErrorStep == BoxInv /\ OnTxStartError => Manager /\ BoxInv'
<1> SUFFICES ASSUME BoxInv, OnTxStartError PROVE Manager /\ BoxInv'
  OBVIOUS
<1>1. ~closed
  BY DEF OnTxStartError, Hears
<1>2. CASE UNCHANGED <<pttVars, modal>>
  BY <1>2, Elsewhere
<1>3. CASE \/ TxOff("none", <<>>, <<>>)
           \/ TxOff("none", GiveUp, <<>>)
  BY <1>1, <1>3, TxOffStep DEF Callers
<1> QED BY <1>2, <1>3 DEF OnTxStartError

LEMMA TailElapsedStep ==
  BoxInv /\ tails \in Seq({"msg", "sweep"}) /\ TailElapsed => Manager /\ BoxInv'
<1> SUFFICES ASSUME BoxInv, tails \in Seq({"msg", "sweep"}), TailElapsed
             PROVE  Manager /\ BoxInv'
  OBVIOUS
<1>1. ~closed /\ Head(tails) \in {"msg", "sweep"}
  BY DEF TailElapsed
<1>2. TxOff(Head(tails), <<>>, IF Head(tails) = "msg" THEN Listen ELSE <<>>)
  BY DEF TailElapsed
<1>3. Head(tails) \in Callers
  BY <1>1 DEF Callers
<1> QED BY <1>1, <1>2, <1>3, TxOffStep

LEMMA WatchdogTripsStep == BoxInv /\ WatchdogTrips => Manager /\ BoxInv'
<1> SUFFICES ASSUME BoxInv, WatchdogTrips PROVE Manager /\ BoxInv'
  OBVIOUS
<1>1. Ptt!TxOffCalled
  BY DEF WatchdogTrips, Ptt!TxOffCalled
<1>2. BoxInv'
  <2>1. CASE modal' = <<Tripped>> \o modal /\ UNCHANGED alarmOpen
    <3>1. modal' \in Seq(Box) /\ OwnBox(modal') = OwnBox(modal)
      BY <2>1, BoxFields, Opened DEF BoxInv, OwnBox
    <3> QED BY <2>1, <3>1 DEF BoxInv, OwnBox
  <2>2. CASE modal' = <<Alarm("watchdog")>> \o modal /\ alarmOpen' = TRUE
    <3>1. Alarm("watchdog") \in Box /\ Alarm("watchdog").own = TRUE
      BY BoxFields DEF Callers
    <3>2. modal' \in Seq(Box) /\ OwnBox(modal')
      BY <2>2, <3>1, Opened DEF BoxInv
    <3> QED BY <2>2, <3>2 DEF BoxInv, OwnBox
  <2> QED BY <2>1, <2>2 DEF WatchdogTrips
<1> QED BY <1>1, <1>2 DEF Manager, Ptt!Next

LEMMA DismissStep == BoxInv /\ Dismiss => Manager /\ BoxInv'
<1> SUFFICES ASSUME BoxInv, Dismiss PROVE Manager /\ BoxInv'
  OBVIOUS
<1>1. /\ modal # <<>> /\ modal \in Seq(Box) /\ alarmOpen = OwnBox(modal)
      /\ alarmOpen' = \E i \in 2..Len(modal) : modal[i].own
      /\ UNCHANGED <<line, doomed, closed>>
  BY DEF Dismiss, BoxInv
<1>2. /\ Tail(modal) \in Seq(Box)
      /\ alarmOpen' = OwnBox(Tail(modal))
      /\ OwnBox(modal) <=> Head(modal).own \/ OwnBox(Tail(modal))
  BY <1>1, Closed DEF OwnBox
<1>3. Manager
  <2>1. CASE Head(modal).own
    <3>1. Ptt!TxOffResumes /\ alarmOpen /\ alarmOpen' \in BOOLEAN
      BY <1>1, <1>2, <2>1 DEF Dismiss, OwnBox
    <3>2. Ptt!AlarmDismissed
      BY <1>1, <3>1 DEF Ptt!AlarmDismissed
    <3> QED BY <3>2 DEF Manager, Ptt!Next
  <2>2. CASE ~Head(modal).own
    <3>1. UNCHANGED <<rigKeyed, transmitting, pttKeyed, watchdog, alarmed,
                      misreported>>
      BY <2>2 DEF Dismiss
    <3>2. alarmOpen' = alarmOpen
      BY <1>1, <1>2, <2>2 DEF OwnBox
    <3> QED BY <1>1, <3>1, <3>2 DEF Manager, pttVars
  <2> QED BY <2>1, <2>2
<1>4. BoxInv'
  <2>1. CASE modal' = Tail(modal)
    BY <1>2, <2>1 DEF BoxInv, OwnBox
  <2>2. CASE modal' = <<Tripped>> \o Tail(modal)
    <3>1. modal' \in Seq(Box) /\ OwnBox(modal') = OwnBox(Tail(modal))
      BY <1>2, <2>2, BoxFields, Opened DEF OwnBox
    <3> QED BY <1>2, <3>1 DEF BoxInv, OwnBox
  <2> QED BY <2>1, <2>2 DEF Dismiss
<1> QED BY <1>3, <1>4

LEMMA RadioConnectsStep == BoxInv /\ RadioConnects => Manager /\ BoxInv'
<1> SUFFICES ASSUME BoxInv, RadioConnects PROVE Manager /\ BoxInv'
  OBVIOUS
<1>1. Ptt!RadioConnected
  BY DEF RadioConnects, Ptt!RadioConnected
<1>2. modal \in Seq(Box)
      /\ modal' = [i \in 1..Len(modal) |-> [of |-> modal[i].of, own |-> FALSE]]
  BY DEF RadioConnects, BoxInv
<1>3. ASSUME NEW i \in 1..Len(modal)
      PROVE  /\ [of |-> modal[i].of, own |-> FALSE] \in Box
             /\ [of |-> modal[i].of, own |-> FALSE].own = FALSE
  <2>1. modal[i] \in Box
    BY <1>2
  <2>2. modal[i].of \in Callers \cup {"tripped"}
    BY <2>1 DEF Box
  <2> QED BY <2>2 DEF Box
<1>4. modal' \in Seq(Box) /\ ~OwnBox(modal')
  <2>1. Len(modal) \in Nat
    BY <1>2
  <2>2. modal' \in Seq(Box) /\ Len(modal') = Len(modal)
    BY <1>2, <1>3, <2>1
  <2> QED BY <1>2, <1>3, <2>2 DEF OwnBox
<1>5. alarmOpen' = FALSE
  BY DEF RadioConnects, Ptt!Replace
<1> QED BY <1>1, <1>4, <1>5 DEF Manager, Ptt!Next, BoxInv, OwnBox

LEMMA OldManagerDestroyedStep ==
  BoxInv /\ OldManagerDestroyed => Manager /\ BoxInv'
<1> SUFFICES ASSUME BoxInv, OldManagerDestroyed PROVE Manager /\ BoxInv'
  OBVIOUS
<1>1. PICK d \in doomed, released \in BOOLEAN :
        /\ Ptt!Destroy(d, released)
        /\ modal' = IF released THEN modal
                    ELSE <<[of |-> "none", own |-> FALSE]>> \o modal
  BY DEF OldManagerDestroyed
<1>2. Ptt!OldManagerDestroyed
  BY <1>1 DEF OldManagerDestroyed, Ptt!OldManagerDestroyed
<1>3. UNCHANGED alarmOpen
  BY <1>1 DEF Ptt!Destroy
<1>4. BoxInv'
  <2>1. CASE released
    BY <1>1, <1>3, <2>1, KeptBox DEF Kept
  <2>2. CASE ~released
    <3>1. modal' \in Seq(Box) /\ OwnBox(modal') = OwnBox(modal)
      BY <1>1, <2>2, BoxFields, Opened DEF BoxInv, OwnBox
    <3> QED BY <1>3, <3>1 DEF BoxInv, OwnBox
  <2> QED BY <2>1, <2>2
<1> QED BY <1>2, <1>4 DEF Manager, Ptt!Next

-----------------------------------------------------------------------------
(* The tails in progress are a message's or a sweep's: TailElapsed needs it. *)
Tails == {"msg", "sweep"}

LEMMA AppendTail ==
  ASSUME tails \in Seq(Tails), Complete
  PROVE  tails' \in Seq(Tails)
<1>1. (IF sweep THEN "sweep" ELSE "msg") \in Tails
  BY DEF Tails
<1> QED BY <1>1 DEF Complete

LEMMA TailsInv == tails \in Seq(Tails) /\ [Next]_vars => tails' \in Seq(Tails)
<1> SUFFICES ASSUME tails \in Seq(Tails), [Next]_vars
             PROVE  tails' \in Seq(Tails)
  OBVIOUS
<1>1. CASE UNCHANGED tails
  BY <1>1
<1>2. CASE Complete
  BY <1>2, AppendTail
<1>3. CASE TailElapsed
  BY <1>3 DEF TailElapsed
<1>4. CASE Quit
  BY <1>4 DEF Quit
<1>5. CASE \/ OnTransmit \/ OnTransmitFailed \/ OnToneSweepAudioReady
           \/ LeadElapsed \/ Worker \/ AudioEnds \/ WatchdogTrips
           \/ OnToneSweepTx \/ OnSettingsChanged \/ OnModeChanged
           \/ RadioReconfigured \/ RadioConnects \/ RadioDrops
           \/ OldManagerDestroyed \/ UNCHANGED vars
  <2>1. UNCHANGED tails
    BY <1>5 DEF OnTransmit, OnTransmitFailed, OnToneSweepAudioReady, LeadElapsed,
         Worker, AudioEnds, WatchdogTrips, OnToneSweepTx, OnSettingsChanged,
         OnModeChanged, RadioReconfigured, RadioConnects, RadioDrops,
         OldManagerDestroyed, vars, guiVars
  <2> QED BY <2>1
<1>6. CASE OnTxAudioReady \/ OnTxStartError \/ OnTxComplete \/ Dismiss
  <2>1. Complete \/ UNCHANGED tails
    BY <1>6 DEF OnTxAudioReady, OnTxStartError, OnTxComplete, Dismiss
  <2> QED BY <1>1, <1>2, <2>1
<1> QED BY <1>3, <1>4, <1>5, <1>6 DEF Next, Handler

-----------------------------------------------------------------------------
StepInv == BoxInv /\ tails \in Seq(Tails)

LEMMA StepSimulation == StepInv /\ [Next]_vars => Manager /\ StepInv'
<1> SUFFICES ASSUME StepInv, [Next]_vars PROVE Manager /\ BoxInv'
  BY TailsInv DEF StepInv
<1> USE DEF StepInv
<1>1. CASE \/ OnTransmit \/ OnTransmitFailed \/ OnTxComplete \/ LeadElapsed
           \/ Worker \/ AudioEnds \/ OnToneSweepTx \/ OnSettingsChanged
           \/ OnModeChanged \/ UNCHANGED vars
  <2>1. UNCHANGED <<pttVars, modal>>
    BY <1>1 DEF OnTransmit, OnTransmitFailed, OnTxComplete, LeadElapsed, Worker,
         AudioEnds, OnToneSweepTx, OnSettingsChanged, OnModeChanged, vars, guiVars
  <2> QED BY <2>1, Elsewhere
<1>2. CASE RadioReconfigured
  <2>1. UNCHANGED modal /\ ~closed /\ (UNCHANGED pttVars \/ Ptt!Discard)
    BY <1>2 DEF RadioReconfigured, Disturb
  <2>2. CASE UNCHANGED pttVars
    BY <2>1, <2>2, Elsewhere
  <2>3. CASE Ptt!Discard
    <3>1. Ptt!RadioStopped /\ Kept
      BY <2>1, <2>3 DEF Ptt!RadioStopped, Ptt!Discard, Kept
    <3> QED BY <3>1, KeptBox DEF Manager, Ptt!Next
  <2> QED BY <2>1, <2>2, <2>3
<1>11. CASE RadioDrops
  <2>1. Ptt!LinkDrops /\ Kept
    BY <1>11 DEF RadioDrops, Ptt!LinkDrops, Kept
  <2> QED BY <2>1, KeptBox DEF Manager, Ptt!Next
<1>12. CASE Quit
  <2>1. Ptt!ApplicationCloses /\ Kept
    <3>1. ~closed /\ modal = <<>> /\ UNCHANGED modal /\ Ptt!Shutdown
      BY <1>12 DEF Quit, Disturb
    <3>2. alarmOpen = FALSE
      BY <3>1 DEF BoxInv, OwnBox
    <3> QED BY <3>1, <3>2 DEF Ptt!ApplicationCloses, Ptt!Shutdown, Kept
  <2> QED BY <2>1, KeptBox DEF Manager, Ptt!Next
<1>3. CASE OnTxAudioReady
  BY <1>3, OnTxAudioReadyStep
<1>4. CASE OnToneSweepAudioReady
  BY <1>4, OnToneSweepAudioReadyStep
<1>5. CASE OnTxStartError
  BY <1>5, OnTxStartErrorStep
<1>6. CASE TailElapsed
  BY <1>6, TailElapsedStep DEF Tails
<1>7. CASE WatchdogTrips
  BY <1>7, WatchdogTripsStep
<1>8. CASE Dismiss
  BY <1>8, DismissStep
<1>9. CASE RadioConnects
  BY <1>9, RadioConnectsStep
<1>10. CASE OldManagerDestroyed
  BY <1>10, OldManagerDestroyedStep
<1> QED BY <1>1, <1>2, <1>3, <1>4, <1>5, <1>6, <1>7, <1>8, <1>9, <1>10, <1>11,
           <1>12 DEF Next, Handler

(* The boxes on the screen and the suspended txOff() calls of the manager   *)
(* agree in every state of the program.                                     *)
THEOREM BoxesMatch == Spec => []BoxInv
<1>1. Init => StepInv
  BY InitBox DEF StepInv, Init
<1>2. StepInv /\ [Next]_vars => StepInv'
  BY StepSimulation
<1>3. StepInv => BoxInv
  BY DEF StepInv
<1> QED BY <1>1, <1>2, <1>3, PTL DEF Spec

(* The program, seen from the PTT manager and the rig, does what PttManager *)
(* allows and nothing else: the safety part of ImplementsPttManager.        *)
THEOREM SimulatesPttManager == Spec => Ptt!Init /\ [][Ptt!Next]_pttVars
<1>1. Init => StepInv /\ Ptt!Init
  BY InitBox DEF StepInv, Init
<1>2. StepInv /\ [Next]_vars => StepInv' /\ [Ptt!Next]_pttVars
  BY StepSimulation DEF Manager
<1> QED BY <1>1, <1>2, PTL DEF Spec

-----------------------------------------------------------------------------
(* What is proved of PttManager holds for the manager inside the program.   *)
Proofs == INSTANCE PttManager_proofs

LEMMA SameSteps == Manager => [Proofs!Next]_(Proofs!vars)
<1>1. Ptt!Next => Proofs!Next
  BY DEF Ptt!Next, Ptt!RequestTXCalled, Ptt!RequestTX, Ptt!Answers, Ptt!Reply,
    Ptt!TxOffCalled, Ptt!TxOffCompletes, Ptt!TxOffAlarms, Ptt!Release,
    Ptt!AlarmDismissed, Ptt!TxOffResumes, Ptt!LinkDrops, Ptt!RadioConnected,
    Ptt!Replace, Ptt!RadioStopped, Ptt!Discard, Ptt!OldManagerDestroyed,
    Ptt!Destroy, Ptt!ApplicationCloses, Ptt!Shutdown,
    Proofs!Next, Proofs!RequestTXCalled, Proofs!RequestTX, Proofs!Answers,
    Proofs!Reply, Proofs!TxOffCalled, Proofs!TxOffCompletes,
    Proofs!TxOffAlarms, Proofs!Release, Proofs!AlarmDismissed,
    Proofs!TxOffResumes, Proofs!LinkDrops, Proofs!RadioConnected,
    Proofs!Replace, Proofs!RadioStopped, Proofs!Discard,
    Proofs!OldManagerDestroyed, Proofs!Destroy, Proofs!ApplicationCloses,
    Proofs!Shutdown
<1>2. UNCHANGED pttVars => UNCHANGED Proofs!vars
  BY DEF pttVars, Proofs!vars
<1> QED BY <1>1, <1>2 DEF Manager

LEMMA ManagerInvStep ==
  Proofs!Inv /\ [Proofs!Next]_(Proofs!vars) => Proofs!Inv'
BY RepliesAssumption, AttemptsAssumption, Proofs!NextInv
   DEF Ptt!Reply, Proofs!Reply

LEMMA ManagerInvInit == Ptt!Init => Proofs!Inv
<1>1. Ptt!Init => Proofs!Init
  BY DEF Ptt!Init, Proofs!Init
<1> QED BY <1>1, RepliesAssumption, AttemptsAssumption, Proofs!InitInv
       DEF Ptt!Reply, Proofs!Reply

(* In the whole program, whatever the handlers' order: a key that is held   *)
(* is watched or reported, a keyed rig is never forgotten, and requestTX()  *)
(* is not refused for good.                                                 *)
THEOREM ManagerSafe ==
  Spec => [](Ptt!KeyIsWatched /\ Ptt!KeyIsAccounted /\ Ptt!SessionEnds)
<1>1. Init => StepInv /\ Proofs!Inv
  BY InitBox, ManagerInvInit DEF StepInv, Init
<1>2. StepInv /\ Proofs!Inv /\ [Next]_vars => StepInv' /\ Proofs!Inv'
  BY StepSimulation, SameSteps, ManagerInvStep
<1>3. Proofs!Inv => Ptt!KeyIsWatched /\ Ptt!KeyIsAccounted /\ Ptt!SessionEnds
  BY DEF Proofs!Inv, Proofs!KeyIsWatched, Proofs!KeyIsAccounted,
         Proofs!SessionEnds, Ptt!KeyIsWatched, Ptt!KeyIsAccounted,
         Ptt!SessionEnds
<1> QED BY <1>1, <1>2, <1>3, PTL DEF Spec

-----------------------------------------------------------------------------
(***************************************************************************)
(* The invariants of the whole program.  Two are inductive as they stand:  *)
(* the modem is muted exactly while the pipeline transmits, and MainWindow *)
(* and its PTT manager agree on whether there is a radio to key.  The      *)
(* types take what each queue may carry; that a refused message never      *)
(* plays takes the order in which messages pass through the two queues.    *)
(***************************************************************************)

(* The actions of the GUI thread that run no code of the worker's           *)
Gui == UNCHANGED <<busy, rxSuspended>>

(* None of these touches the modem or the pipeline's flag.                  *)
LEMMA GuiLeavesTheModem ==
  ASSUME \/ OnTransmit \/ Handler \/ LeadElapsed \/ TailElapsed
         \/ WatchdogTrips \/ Dismiss \/ OnToneSweepTx \/ OnSettingsChanged
         \/ OnModeChanged \/ RadioReconfigured \/ RadioConnects \/ RadioDrops
         \/ OldManagerDestroyed \/ Quit
  PROVE  Gui
<1>1. CASE OnTransmit \/ LeadElapsed \/ TailElapsed
  BY <1>1 DEF Gui, OnTransmit, LeadElapsed, TailElapsed, dspOnly
<1>2. CASE Handler
  BY <1>2 DEF Gui, Handler, OnTransmitFailed, OnTxAudioReady, OnTxStartError,
    OnTxComplete, OnToneSweepAudioReady, dspOnly
<1>3. CASE WatchdogTrips \/ Dismiss
  BY <1>3 DEF Gui, WatchdogTrips, Dismiss, dspOnly
<1>4. CASE OnToneSweepTx \/ OnSettingsChanged \/ OnModeChanged
  BY <1>4 DEF Gui, OnToneSweepTx, OnSettingsChanged, OnModeChanged, dspOnly
<1>5. CASE RadioReconfigured \/ RadioConnects \/ RadioDrops
           \/ OldManagerDestroyed \/ Quit
  BY <1>5 DEF Gui, RadioReconfigured, RadioConnects, RadioDrops,
    OldManagerDestroyed, Quit, dspVars
<1> QED BY <1>1, <1>2, <1>3, <1>4, <1>5

(* The worker's steps mute and unmute the modem together with the flag.     *)
LEMMA WorkerKeepsMuted ==
  ASSUME MutedIffBusy, busy \in BOOLEAN, Dsp!DspStep \/ Dsp!CompletionTimer
  PROVE  MutedIffBusy' /\ busy' \in BOOLEAN
<1> USE DEF MutedIffBusy, Dsp!MutedIffBusy
<1>1. CASE Dsp!StopRx \/ Dsp!StartRx \/ Dsp!StartTx \/ Dsp!StopAll
           \/ Dsp!RequestToneSweepAudio
  BY <1>1 DEF Dsp!StopRx, Dsp!StartRx, Dsp!StartTx, Dsp!StopAll,
    Dsp!RequestToneSweepAudio
<1>2. CASE Dsp!Transmit
  BY <1>2 DEF Dsp!Transmit
<1>3. CASE Dsp!PipeDone \/ Dsp!CompletionTimer
  BY <1>3 DEF Dsp!PipeDone, Dsp!CompletionTimer
<1>4. CASE Dsp!SetMode
  BY <1>4 DEF Dsp!SetMode
<1> QED BY <1>1, <1>2, <1>3, <1>4 DEF Dsp!DspStep

(* The station is never left deaf by a transmission that is over, and never *)
(* decodes its own signal, whatever order the queued calls of MainWindow    *)
(* and the completion timer reach the pipeline in.                          *)
THEOREM AlwaysMutedIffBusy == Spec => []MutedIffBusy
<1> DEFINE I == MutedIffBusy /\ busy \in BOOLEAN
<1>1. Init => I
  BY DEF Init, Dsp!DspInit, MutedIffBusy, Dsp!MutedIffBusy
<1>2. I /\ [Next]_vars => I'
  <2> SUFFICES ASSUME I, [Next]_vars PROVE I'
    OBVIOUS
  <2>1. CASE Worker \/ AudioEnds
    BY <2>1, WorkerKeepsMuted DEF Worker, AudioEnds
  <2>2. CASE Gui
    BY <2>2 DEF Gui, MutedIffBusy, Dsp!MutedIffBusy
  <2>3. CASE UNCHANGED vars
    BY <2>3 DEF vars, dspVars, MutedIffBusy, Dsp!MutedIffBusy
  <2> QED BY <2>1, <2>2, <2>3, GuiLeavesTheModem DEF Next
<1>3. I => MutedIffBusy
  OBVIOUS
<1> QED BY <1>1, <1>2, <1>3, PTL DEF Spec

-----------------------------------------------------------------------------
(* An action that moves neither what MainWindow points to nor what its      *)
(* manager points to                                                        *)
SameRadio == UNCHANGED <<radio, line>>

(* Only the radio's own actions do.                                         *)
LEMMA RadioUntouched ==
  ASSUME \/ OnTransmit \/ Handler \/ LeadElapsed \/ TailElapsed
         \/ Worker \/ AudioEnds \/ WatchdogTrips \/ Dismiss
         \/ OnToneSweepTx \/ OnSettingsChanged \/ OnModeChanged
         \/ OldManagerDestroyed
  PROVE  SameRadio
<1>1. CASE OnTransmit \/ LeadElapsed \/ OnToneSweepTx \/ OnSettingsChanged
           \/ OnModeChanged
  BY <1>1 DEF SameRadio, OnTransmit, LeadElapsed, OnToneSweepTx,
    OnSettingsChanged, OnModeChanged, pttVars, guiVars
<1>2. CASE TailElapsed
  BY <1>2 DEF SameRadio, TailElapsed, TxOff
<1>3. CASE OnTransmitFailed \/ OnTxComplete
  BY <1>3 DEF SameRadio, OnTransmitFailed, OnTxComplete, pttVars
<1>4. CASE OnTxAudioReady \/ OnToneSweepAudioReady
  BY <1>4 DEF SameRadio, OnTxAudioReady, OnToneSweepAudioReady, RequestTX,
    pttVars
<1>5. CASE OnTxStartError
  BY <1>5 DEF SameRadio, OnTxStartError, TxOff, pttVars
<1>6. CASE Worker \/ AudioEnds
  BY <1>6 DEF SameRadio, Worker, AudioEnds, pttVars, guiVars
<1>7. CASE WatchdogTrips \/ Dismiss
  BY <1>7 DEF SameRadio, WatchdogTrips, Dismiss
<1>8. CASE OldManagerDestroyed
  BY <1>8 DEF SameRadio, OldManagerDestroyed, Ptt!Destroy
<1> QED BY <1>1, <1>2, <1>3, <1>4, <1>5, <1>6, <1>7, <1>8 DEF Handler

(* MainWindow asks its own client whether it is connected before it lets    *)
(* the manager key the rig: the manager's client is the same one and is     *)
(* connected as well, through drops, reconnections and reconfigurations.    *)
THEOREM AlwaysManagerHasTheRadio == Spec => []ManagerHasTheRadio
<1> USE DEF ManagerHasTheRadio
<1>1. Init => ManagerHasTheRadio
  BY DEF Init, Ptt!Init
<1>2. ManagerHasTheRadio /\ [Next]_vars => ManagerHasTheRadio'
  <2> SUFFICES ASSUME ManagerHasTheRadio, [Next]_vars
               PROVE  ManagerHasTheRadio'
    OBVIOUS
  <2>1. CASE SameRadio
    BY <2>1 DEF SameRadio
  <2>2. CASE RadioReconfigured
    BY <2>2 DEF RadioReconfigured, Ptt!Discard, pttVars
  <2>3. CASE RadioConnects
    BY <2>3 DEF RadioConnects, Ptt!Replace
  <2>4. CASE RadioDrops
    BY <2>4 DEF RadioDrops, Ptt!LinkDrops
  <2>5. CASE Quit
    BY <2>5 DEF Quit, Ptt!Shutdown
  <2>6. CASE UNCHANGED vars
    BY <2>6 DEF vars, pttVars, guiVars
  <2> QED BY <2>1, <2>2, <2>3, <2>4, <2>5, <2>6, RadioUntouched DEF Next
<1> QED BY <1>1, <1>2, PTL DEF Spec

-----------------------------------------------------------------------------
(***************************************************************************)
(* Messages in a queue, by their numbers; 0 is no message.                 *)
(***************************************************************************)
Numbers(num, q) == {num[q[i]] : i \in 1..Len(q)} \ {0}

Rising(num, q) ==
  \A i, j \in 1..Len(q) :
    i < j /\ num[q[i]] # 0 /\ num[q[j]] # 0 => num[q[i]] < num[q[j]]

(***************************************************************************)
(* A queue of some kind is one of any wider kind.                          *)
(***************************************************************************)
LEMMA Wider ==
  ASSUME NEW S, NEW T, S \subseteq T, NEW q \in Seq(S)
  PROVE  q \in Seq(T)
OBVIOUS

(***************************************************************************)
(* What is queued behind.                                                  *)
(***************************************************************************)
LEMMA Behind ==
  ASSUME NEW S, NEW num \in [S -> Nat], NEW q \in Seq(S), NEW t \in Seq(S)
  PROVE  /\ q \o t \in Seq(S)
         /\ Numbers(num, q \o t) = Numbers(num, q) \cup Numbers(num, t)
         /\ Rising(num, q) /\ Rising(num, t)
            /\ (\A a \in Numbers(num, q), b \in Numbers(num, t) : a < b)
              => Rising(num, q \o t)
<1> DEFINE r == q \o t
<1>1. /\ r \in Seq(S) /\ Len(q) \in Nat /\ Len(t) \in Nat
      /\ Len(r) = Len(q) + Len(t)
      /\ \A i \in 1..Len(q) : r[i] = q[i]
      /\ \A i \in 1..Len(t) : r[Len(q) + i] = t[i]
  BY ConcatProperties, LenProperties
<1>2. \A i \in 1..Len(r) : i \in 1..Len(q) \/ i - Len(q) \in 1..Len(t)
  BY <1>1
<1>3. \A i \in 1..Len(r) : i \in 1..Len(q) \/ r[i] = t[i - Len(q)]
  <2> SUFFICES ASSUME NEW i \in 1..Len(r), i - Len(q) \in 1..Len(t)
               PROVE  r[i] = t[i - Len(q)]
    BY <1>2
  <2>1. Len(q) + (i - Len(q)) = i
    BY <1>1
  <2> QED BY <1>1, <2>1
<1> HIDE DEF r
<1>4. Numbers(num, r) \subseteq Numbers(num, q) \cup Numbers(num, t)
  <2> SUFFICES ASSUME NEW x \in Numbers(num, r)
               PROVE  x \in Numbers(num, q) \cup Numbers(num, t)
    OBVIOUS
  <2>1. PICK i \in 1..Len(r) : x = num[r[i]] /\ x # 0
    BY DEF Numbers
  <2>2. CASE i \in 1..Len(q)
    <3>1. r[i] = q[i]
      BY <1>1, <2>2
    <3> QED BY <2>1, <2>2, <3>1 DEF Numbers
  <2>3. CASE i \notin 1..Len(q)
    <3>1. i - Len(q) \in 1..Len(t) /\ r[i] = t[i - Len(q)]
      BY <1>2, <1>3, <2>3
    <3> QED BY <2>1, <3>1 DEF Numbers
  <2> QED BY <2>2, <2>3
<1>5. Numbers(num, q) \subseteq Numbers(num, r)
  <2>1. \A i \in 1..Len(q) : i \in 1..Len(r)
    BY <1>1
  <2> QED BY <1>1, <2>1 DEF Numbers
<1>6. Numbers(num, t) \subseteq Numbers(num, r)
  <2> SUFFICES ASSUME NEW x \in Numbers(num, t) PROVE x \in Numbers(num, r)
    OBVIOUS
  <2>1. PICK i \in 1..Len(t) : x = num[t[i]] /\ x # 0
    BY DEF Numbers
  <2>2. Len(q) + i \in 1..Len(r) /\ r[Len(q) + i] = t[i]
    BY <1>1
  <2> QED BY <2>1, <2>2 DEF Numbers
<1>7. ASSUME Rising(num, q), Rising(num, t),
             \A a \in Numbers(num, q), b \in Numbers(num, t) : a < b
      PROVE  Rising(num, r)
  <2> SUFFICES ASSUME NEW i \in 1..Len(r), NEW j \in 1..Len(r), i < j,
                      num[r[i]] # 0, num[r[j]] # 0
               PROVE  num[r[i]] < num[r[j]]
    BY DEF Rising
  <2>1. CASE j \in 1..Len(q)
    <3>1. i \in 1..Len(q)
      BY <2>1
    <3> QED BY <1>1, <1>7, <2>1, <3>1 DEF Rising
  <2>2. CASE i \in 1..Len(q) /\ j \notin 1..Len(q)
    <3>1. /\ r[i] = q[i] /\ r[j] = t[j - Len(q)] /\ j - Len(q) \in 1..Len(t)
      BY <1>1, <1>2, <1>3, <2>2
    <3>2. num[r[i]] \in Numbers(num, q) /\ num[r[j]] \in Numbers(num, t)
      BY <2>2, <3>1 DEF Numbers
    <3> QED BY <1>7, <3>2
  <2>3. CASE i \notin 1..Len(q)
    <3>1. j \notin 1..Len(q) /\ i - Len(q) < j - Len(q)
      BY <1>1, <2>3
    <3>2. /\ r[i] = t[i - Len(q)] /\ i - Len(q) \in 1..Len(t)
          /\ r[j] = t[j - Len(q)] /\ j - Len(q) \in 1..Len(t)
      BY <1>2, <1>3, <2>3, <3>1
    <3> QED BY <1>7, <3>1, <3>2 DEF Rising
  <2> QED BY <2>1, <2>2, <2>3
<1> QED BY <1>1, <1>4, <1>5, <1>6, <1>7 DEF r

(***************************************************************************)
(* What is left when the head of a queue is taken.                         *)
(***************************************************************************)
LEMMA Taken ==
  ASSUME NEW S, NEW num \in [S -> Nat], NEW q \in Seq(S), q # <<>>
  PROVE  /\ Tail(q) \in Seq(S) /\ Head(q) \in S
         /\ Numbers(num, q) = Numbers(num, Tail(q)) \cup ({num[Head(q)]} \ {0})
         /\ Rising(num, q) => Rising(num, Tail(q))
         /\ Rising(num, q) /\ num[Head(q)] # 0
              => \A b \in Numbers(num, Tail(q)) : num[Head(q)] < b
<1> DEFINE t == Tail(q)
<1>1. /\ t \in Seq(S) /\ Head(q) \in S /\ Head(q) = q[1]
      /\ Len(q) \in Nat \ {0} /\ Len(t) = Len(q) - 1
      /\ \A i \in 1..Len(t) : t[i] = q[i + 1]
  BY HeadTailProperties, LenProperties, EmptySeq
<1> HIDE DEF t
<1>2. /\ 1 \in 1..Len(q)
      /\ \A i \in 1..Len(t) : i + 1 \in 1..Len(q) /\ 1 < i + 1
      /\ \A i \in 1..Len(q) : i = 1 \/ (i - 1 \in 1..Len(t) /\ (i - 1) + 1 = i)
  BY <1>1
<1>3. Numbers(num, q) = Numbers(num, t) \cup ({num[Head(q)]} \ {0})
  <2>1. ASSUME NEW x \in Numbers(num, q)
        PROVE  x \in Numbers(num, t) \cup ({num[Head(q)]} \ {0})
    <3>1. PICK i \in 1..Len(q) : x = num[q[i]] /\ x # 0
      BY <2>1 DEF Numbers
    <3>2. CASE i = 1
      BY <1>1, <3>1, <3>2
    <3>3. CASE i - 1 \in 1..Len(t) /\ (i - 1) + 1 = i
      <4>1. t[i - 1] = q[i]
        BY <1>1, <3>3
      <4> QED BY <3>1, <3>3, <4>1 DEF Numbers
    <3> QED BY <1>2, <3>2, <3>3
  <2>2. ASSUME NEW x \in Numbers(num, t) PROVE x \in Numbers(num, q)
    <3>1. PICK i \in 1..Len(t) : x = num[t[i]] /\ x # 0
      BY <2>2 DEF Numbers
    <3>2. i + 1 \in 1..Len(q) /\ t[i] = q[i + 1]
      BY <1>1, <1>2
    <3> QED BY <3>1, <3>2 DEF Numbers
  <2>3. {num[Head(q)]} \ {0} \subseteq Numbers(num, q)
    BY <1>1, <1>2 DEF Numbers
  <2> QED BY <2>1, <2>2, <2>3
<1>4. ASSUME Rising(num, q) PROVE Rising(num, t)
  <2> SUFFICES ASSUME NEW i \in 1..Len(t), NEW j \in 1..Len(t), i < j,
                      num[t[i]] # 0, num[t[j]] # 0
               PROVE  num[t[i]] < num[t[j]]
    BY DEF Rising
  <2>1. i + 1 < j + 1 /\ i + 1 \in 1..Len(q) /\ j + 1 \in 1..Len(q)
    BY <1>2
  <2> QED BY <1>1, <1>4, <2>1 DEF Rising
<1>5. ASSUME Rising(num, q), num[Head(q)] # 0, NEW b \in Numbers(num, t)
      PROVE  num[Head(q)] < b
  <2>1. PICK i \in 1..Len(t) : b = num[t[i]] /\ b # 0
    BY <1>5 DEF Numbers
  <2>2. /\ 1 \in 1..Len(q) /\ i + 1 \in 1..Len(q) /\ 1 < i + 1
        /\ q[i + 1] = t[i] /\ q[1] = Head(q)
    BY <1>1, <1>2
  <2>3. num[q[1]] # 0 /\ num[q[i + 1]] # 0
    BY <1>5, <2>1, <2>2
  <2>4. num[q[1]] < num[q[i + 1]]
    BY <1>5, <2>2, <2>3 DEF Rising
  <2> QED BY <2>1, <2>2, <2>4
<1> QED BY <1>1, <1>3, <1>4, <1>5 DEF t

-----------------------------------------------------------------------------
(***************************************************************************)
(* What each queue may carry: only "transmit" and "startTx" name what they *)
(* are about, and only a message is ever asked for or made ready by number. *)
(***************************************************************************)
Plain == [do : Dsp!Calls \ {"transmit", "startTx"}, job : {Dsp!None}]
Posted == Plain \cup [do : {"transmit"}, job : Dsp!Jobs]
                \cup [do : {"startTx"}, job : Dsp!Audio]
Notice == [sig : Dsp!Signals \ {"txAudioReady", "sweepReady"}, job : {Dsp!None}]
            \cup [sig : {"sweepReady"}, job : {Dsp!Sweep}]
Signalled == Notice \cup [sig : {"txAudioReady"}, job : Dsp!Jobs]

QueueTypes ==
  /\ dspQ \in Seq(Posted) /\ guiQ \in Seq(Signalled)
  /\ leads \in Seq(Dsp!Audio) /\ playing \in {Dsp!None} \cup Dsp!Audio
  /\ refused \subseteq Dsp!Jobs /\ jobs \in 0..MaxJobs

FieldTypes ==
  /\ rx \in BOOLEAN /\ busy \in BOOLEAN /\ rxSuspended \in BOOLEAN
  /\ radio \in {"none", "down", "up"}
  /\ hasCall \in BOOLEAN /\ uiOn \in BOOLEAN /\ awaiting \in BOOLEAN
  /\ sweep \in BOOLEAN /\ swept \in BOOLEAN
  /\ budget \in 0..Budget

(***************************************************************************)
(* The messages that wait for the pipeline, whose audio is ready, that are *)
(* about to start, and that were keyed for but do not play yet.            *)
(***************************************************************************)
ToDo == [c \in Posted |-> IF c.do = "transmit" THEN c.job ELSE 0]
ToStart == [c \in Posted |-> IF c.do = "startTx" THEN c.job ELSE 0]
Made == [g \in Signalled |-> IF g.sig = "txAudioReady" THEN g.job ELSE 0]
Keyed == [a \in Dsp!Audio |-> a]

\* Messages on their way from the key to the sink.
OnTheWay ==
  (Numbers(Keyed, leads) \cup Numbers(ToStart, dspQ) \cup {playing})
    \ {Dsp!None, Dsp!Sweep}

\* Messages pass in the order they were sent in: those past the key and those
\* refused came before those whose audio is ready, those before the waiting.
InOrder(waiting, ready, way, no, last) ==
  /\ waiting \cup ready \cup way \cup no \subseteq 1..last
  /\ \A a \in ready, b \in waiting : a < b
  /\ \A a \in way \cup no, b \in ready \cup waiting : a < b
  /\ way \cap no = {}

OrderInv ==
  /\ Rising(ToDo, dspQ) /\ Rising(Made, guiQ)
  /\ InOrder(Numbers(ToDo, dspQ), Numbers(Made, guiQ), OnTheWay, refused, jobs)

-----------------------------------------------------------------------------
(***************************************************************************)
(* The numbers are numbers, and what is posted or signalled has its type.  *)
(***************************************************************************)
LEMMA Kinds ==
  /\ ToDo \in [Posted -> Nat] /\ ToStart \in [Posted -> Nat]
  /\ Made \in [Signalled -> Nat] /\ Keyed \in [Dsp!Audio -> Nat]
  /\ Plain \subseteq Posted /\ Notice \subseteq Signalled
  /\ Dsp!Sweep \notin Dsp!Jobs /\ Dsp!None \notin Dsp!Audio
  /\ Dsp!Jobs \subseteq Dsp!Audio
<1> USE JobsAssumption DEF Dsp!Jobs, Dsp!Audio, Dsp!Sweep, Dsp!None
<1>1. ToDo \in [Posted -> Nat]
  BY DEF ToDo, Posted, Plain
<1>2. ToStart \in [Posted -> Nat]
  BY DEF ToStart, Posted, Plain
<1>3. Made \in [Signalled -> Nat]
  BY DEF Made, Signalled, Notice
<1>4. Keyed \in [Dsp!Audio -> Nat]
  BY DEF Keyed
<1>5. Plain \subseteq Posted /\ Notice \subseteq Signalled
  BY DEF Posted, Signalled
<1> QED BY <1>1, <1>2, <1>3, <1>4, <1>5

(***************************************************************************)
(* A call other than the two carries no message.                           *)
(***************************************************************************)
LEMMA PlainCalls ==
  ASSUME NEW do \in Dsp!Calls \ {"transmit", "startTx"}
  PROVE  Dsp!Call(do) \in Plain
BY DEF Dsp!Call, Plain

(* A queue of such calls holds no message.                                  *)
LEMMA PlainNumbers ==
  ASSUME NEW t \in Seq(Plain)
  PROVE  /\ t \in Seq(Posted) /\ Rising(ToDo, t)
         /\ Numbers(ToDo, t) = {} /\ Numbers(ToStart, t) = {}
<1>1. \A c \in Plain : c \in Posted /\ c.do \notin {"transmit", "startTx"}
  BY DEF Plain, Posted
<1>2. \A c \in Plain : ToDo[c] = 0 /\ ToStart[c] = 0
  BY <1>1 DEF ToDo, ToStart
<1>3. \A i \in 1..Len(t) : t[i] \in Plain
  BY ElementOfSeq
<1>4. t \in Seq(Posted)
  BY <1>1
<1> QED BY <1>2, <1>3, <1>4 DEF Numbers, Rising

(***************************************************************************)
(* A signal other than txAudioReady carries no message.                    *)
(***************************************************************************)
LEMMA NoticeNumbers ==
  ASSUME NEW g \in Notice, NEW q \in Seq(Signalled)
  PROVE  /\ Append(q, g) \in Seq(Signalled)
         /\ Numbers(Made, Append(q, g)) = Numbers(Made, q)
         /\ Rising(Made, q) => Rising(Made, Append(q, g))
<1>1. g \in Signalled /\ Made[g] = 0
  <2>1. g \in Signalled /\ g.sig # "txAudioReady"
    BY Kinds DEF Notice
  <2> QED BY <2>1 DEF Made
<1>2. Made \in [Signalled -> Nat]
  BY Kinds
<1>3. /\ <<g>> \in Seq(Signalled) /\ Rising(Made, <<g>>)
      /\ Numbers(Made, <<g>>) = {Made[g]} \ {0}
  BY <1>1 DEF Numbers, Rising
<1>4. Numbers(Made, <<g>>) = {}
  BY <1>1, <1>3
<1>5. Append(q, g) = q \o <<g>>
  BY <1>1, AppendIsConcat
<1>6. /\ q \o <<g>> \in Seq(Signalled)
      /\ Numbers(Made, q \o <<g>>) = Numbers(Made, q) \cup Numbers(Made, <<g>>)
      /\ Rising(Made, q) /\ Rising(Made, <<g>>)
          /\ (\A a \in Numbers(Made, q), b \in Numbers(Made, <<g>>) : a < b)
            => Rising(Made, q \o <<g>>)
  BY <1>2, <1>3, Behind
<1> QED BY <1>3, <1>4, <1>5, <1>6

(***************************************************************************)
(* Posting calls.                                                          *)
(***************************************************************************)
LEMMA CallsBehind ==
  ASSUME NEW q \in Seq(Posted), NEW t \in Seq(Posted)
  PROVE  /\ q \o t \in Seq(Posted)
         /\ Numbers(ToDo, q \o t) = Numbers(ToDo, q) \cup Numbers(ToDo, t)
         /\ Numbers(ToStart, q \o t) = Numbers(ToStart, q) \cup Numbers(ToStart, t)
         /\ Rising(ToDo, q) /\ Rising(ToDo, t)
            /\ (\A a \in Numbers(ToDo, q), b \in Numbers(ToDo, t) : a < b)
              => Rising(ToDo, q \o t)
<1>1. ToDo \in [Posted -> Nat] /\ ToStart \in [Posted -> Nat]
  BY Kinds
<1>2. /\ q \o t \in Seq(Posted)
      /\ Numbers(ToDo, q \o t) = Numbers(ToDo, q) \cup Numbers(ToDo, t)
      /\ Rising(ToDo, q) /\ Rising(ToDo, t)
         /\ (\A a \in Numbers(ToDo, q), b \in Numbers(ToDo, t) : a < b)
           => Rising(ToDo, q \o t)
  BY <1>1, Behind
<1>3. Numbers(ToStart, q \o t) = Numbers(ToStart, q) \cup Numbers(ToStart, t)
  BY <1>1, Behind
<1> QED BY <1>2, <1>3

(* Posting calls without messages.                                          *)
LEMMA PlainBehind ==
  ASSUME NEW q \in Seq(Posted), NEW t \in Seq(Plain)
  PROVE  /\ q \o t \in Seq(Posted)
         /\ Numbers(ToDo, q \o t) = Numbers(ToDo, q)
         /\ Numbers(ToStart, q \o t) = Numbers(ToStart, q)
         /\ Rising(ToDo, q) => Rising(ToDo, q \o t)
<1>1. /\ t \in Seq(Posted) /\ Rising(ToDo, t)
      /\ Numbers(ToDo, t) = {} /\ Numbers(ToStart, t) = {}
  BY PlainNumbers
<1>2. /\ q \o t \in Seq(Posted)
      /\ Numbers(ToDo, q \o t) = Numbers(ToDo, q) \cup Numbers(ToDo, t)
      /\ Numbers(ToStart, q \o t) = Numbers(ToStart, q) \cup Numbers(ToStart, t)
      /\ Rising(ToDo, q) /\ Rising(ToDo, t)
         /\ (\A a \in Numbers(ToDo, q), b \in Numbers(ToDo, t) : a < b)
           => Rising(ToDo, q \o t)
  BY <1>1, CallsBehind
<1> QED BY <1>1, <1>2

(***************************************************************************)
(* Taking the oldest call.                                                 *)
(***************************************************************************)
LEMMA CallTaken ==
  ASSUME NEW q \in Seq(Posted), q # <<>>
  PROVE  /\ Tail(q) \in Seq(Posted) /\ Head(q) \in Posted
         /\ Numbers(ToDo, q) = Numbers(ToDo, Tail(q)) \cup ({ToDo[Head(q)]} \ {0})
         /\ Numbers(ToStart, q)
              = Numbers(ToStart, Tail(q)) \cup ({ToStart[Head(q)]} \ {0})
         /\ Rising(ToDo, q) => Rising(ToDo, Tail(q))
         /\ Rising(ToDo, q) /\ ToDo[Head(q)] # 0
              => \A b \in Numbers(ToDo, Tail(q)) : ToDo[Head(q)] < b
<1>1. ToDo \in [Posted -> Nat] /\ ToStart \in [Posted -> Nat]
  BY Kinds
<1>2. /\ Tail(q) \in Seq(Posted) /\ Head(q) \in Posted
      /\ Numbers(ToDo, q) = Numbers(ToDo, Tail(q)) \cup ({ToDo[Head(q)]} \ {0})
      /\ Rising(ToDo, q) => Rising(ToDo, Tail(q))
      /\ Rising(ToDo, q) /\ ToDo[Head(q)] # 0
           => \A b \in Numbers(ToDo, Tail(q)) : ToDo[Head(q)] < b
  BY <1>1, Taken
<1>3. Numbers(ToStart, q)
        = Numbers(ToStart, Tail(q)) \cup ({ToStart[Head(q)]} \ {0})
  BY <1>1, Taken
<1> QED BY <1>2, <1>3

(* The same of the signals.                                                 *)
LEMMA SignalTaken ==
  ASSUME NEW q \in Seq(Signalled), q # <<>>
  PROVE  /\ Tail(q) \in Seq(Signalled) /\ Head(q) \in Signalled
         /\ Numbers(Made, q) = Numbers(Made, Tail(q)) \cup ({Made[Head(q)]} \ {0})
         /\ Rising(Made, q) => Rising(Made, Tail(q))
         /\ Rising(Made, q) /\ Made[Head(q)] # 0
              => \A b \in Numbers(Made, Tail(q)) : Made[Head(q)] < b
<1>1. Made \in [Signalled -> Nat]
  BY Kinds
<1> QED BY <1>1, Taken

(***************************************************************************)
(* Nothing that only loses or forgets messages disturbs the order.         *)
(***************************************************************************)
LEMMA LessInOrder ==
  ASSUME NEW W, NEW R, NEW O, NEW N, NEW last \in Nat, InOrder(W, R, O, N, last),
         NEW w \in SUBSET W, NEW r \in SUBSET R, NEW o \in SUBSET O
  PROVE  InOrder(w, r, o, N, last)
BY DEF InOrder

-----------------------------------------------------------------------------
(***************************************************************************)
(* A handler that posts calls without messages, and what it does to the    *)
(* queues.                                                                 *)
(***************************************************************************)
Quiet ==
  /\ UNCHANGED dspQ \/ \E t \in Seq(Plain) : Post(t)
  /\ guiQ' = guiQ \/ (guiQ # <<>> /\ guiQ' = Tail(guiQ))
  /\ UNCHANGED <<leads, playing, refused, jobs>>

QueueInv == QueueTypes /\ OrderInv

LEMMA QuietKeepsTheQueues ==
  ASSUME QueueInv, Quiet
  PROVE  QueueInv'
<1>1. /\ dspQ \in Seq(Posted) /\ Rising(ToDo, dspQ)
      /\ guiQ \in Seq(Signalled) /\ Rising(Made, guiQ) /\ jobs \in Nat
      /\ InOrder(Numbers(ToDo, dspQ), Numbers(Made, guiQ), OnTheWay, refused, jobs)
  BY JobsAssumption DEF QueueInv, QueueTypes, OrderInv
<1>3. /\ dspQ' \in Seq(Posted) /\ Rising(ToDo, dspQ')
      /\ Numbers(ToDo, dspQ') = Numbers(ToDo, dspQ)
      /\ Numbers(ToStart, dspQ') = Numbers(ToStart, dspQ)
  <2>1. CASE dspQ' = dspQ
    BY <1>1, <2>1
  <2>2. CASE \E t \in Seq(Plain) : Post(t)
    <3>1. PICK t \in Seq(Plain) : dspQ' = dspQ \o t
      BY <2>2 DEF Post
    <3> QED BY <1>1, <3>1, PlainBehind
  <2> QED BY <2>1, <2>2 DEF Quiet
<1>4. /\ guiQ' \in Seq(Signalled) /\ Rising(Made, guiQ')
      /\ Numbers(Made, guiQ') \subseteq Numbers(Made, guiQ)
  <2>1. CASE guiQ' = guiQ
    BY <1>1, <2>1
  <2>2. CASE guiQ # <<>> /\ guiQ' = Tail(guiQ)
    BY <1>1, <2>2, SignalTaken
  <2> QED BY <2>1, <2>2 DEF Quiet
<1>5. OnTheWay' = OnTheWay /\ refused' = refused /\ jobs' = jobs
  BY <1>3 DEF OnTheWay, Quiet
<1>6. InOrder(Numbers(ToDo, dspQ'), Numbers(Made, guiQ'), OnTheWay', refused', jobs')
  BY <1>1, <1>3, <1>4, <1>5, LessInOrder
<1> QED BY <1>1, <1>3, <1>4, <1>6 DEF Quiet, QueueInv, QueueTypes, OrderInv

(***************************************************************************)
(* The calls that the handlers post.                                       *)
(***************************************************************************)
LEMMA PlainPosts ==
  /\ <<>> \in Seq(Plain) /\ Listen \in Seq(Plain) /\ GiveUp \in Seq(Plain)
  /\ <<>> \o <<>> \in Seq(Plain) /\ <<>> \o Listen \in Seq(Plain)
  /\ GiveUp \o <<>> \in Seq(Plain) /\ <<Dsp!Call("stop")>> \o Listen \in Seq(Plain)
  /\ <<Dsp!Call("sweepAudio")>> \in Seq(Plain) /\ <<Dsp!Call("setMode")>> \in Seq(Plain)
<1>1. /\ Dsp!Call("startRx") \in Plain /\ Dsp!Call("pipeDone") \in Plain
      /\ Dsp!Call("stop") \in Plain /\ Dsp!Call("sweepAudio") \in Plain
      /\ Dsp!Call("setMode") \in Plain
  BY PlainCalls DEF Dsp!Calls
<1> QED BY <1>1 DEF Listen, GiveUp

(***************************************************************************)
(* The steps of the GUI thread that hand no message on.                    *)
(***************************************************************************)
LEMMA QuietSteps ==
  ASSUME \/ OnTransmitFailed \/ OnTxStartError \/ OnTxComplete \/ TailElapsed
         \/ WatchdogTrips \/ Dismiss \/ OnToneSweepTx \/ OnSettingsChanged
         \/ OnModeChanged \/ RadioReconfigured \/ RadioConnects \/ RadioDrops
         \/ OldManagerDestroyed \/ UNCHANGED vars
  PROVE  Quiet
<1>a. /\ <<>> \in Seq(Plain) /\ Listen \in Seq(Plain) /\ GiveUp \in Seq(Plain)
      /\ <<>> \o <<>> \in Seq(Plain) /\ <<>> \o Listen \in Seq(Plain)
      /\ GiveUp \o <<>> \in Seq(Plain)
      /\ <<Dsp!Call("stop")>> \o Listen \in Seq(Plain)
      /\ <<Dsp!Call("sweepAudio")>> \in Seq(Plain)
      /\ <<Dsp!Call("setMode")>> \in Seq(Plain)
  BY PlainPosts
<1> USE DEF dspOnly, ghosts, guiVars, dspVars
<1>1. CASE OnTransmitFailed
  <2>1. Post(Listen) /\ guiQ # <<>> /\ guiQ' = Tail(guiQ)
        /\ UNCHANGED <<leads, playing, refused, jobs>>
    BY <1>1 DEF OnTransmitFailed, Hears
  <2> QED BY <1>a, <2>1 DEF Quiet, Post
<1>2. CASE OnTxStartError
  <2>1. guiQ # <<>> /\ guiQ' = Tail(guiQ) /\ UNCHANGED <<leads, playing, refused, jobs>>
    BY <1>2 DEF OnTxStartError, Hears
  <2>2. \/ UNCHANGED dspQ \/ TxOff("none", <<>>, <<>>) \/ TxOff("none", GiveUp, <<>>)
    BY <1>2 DEF OnTxStartError
  <2>3. UNCHANGED dspQ \/ Post(<<>> \o <<>>) \/ Post(<<>>) \/ Post(GiveUp \o <<>>)
        \/ Post(GiveUp)
    BY <2>2 DEF TxOff
  <2> QED BY <1>a, <2>1, <2>3 DEF Quiet, Post
<1>3. CASE OnTxComplete
  <2>1. guiQ # <<>> /\ guiQ' = Tail(guiQ) /\ UNCHANGED <<dspQ, leads, playing, refused, jobs>>
    BY <1>3 DEF OnTxComplete, Hears
  <2> QED BY <2>1 DEF Quiet
<1>4. CASE TailElapsed
  <2>1. UNCHANGED <<guiQ, leads, playing, refused, jobs>>
    BY <1>4 DEF TailElapsed
  <2>2. TxOff(Head(tails), <<>>, Listen) \/ TxOff(Head(tails), <<>>, <<>>)
    BY <1>4 DEF TailElapsed
  <2>3. Post(<<>> \o Listen) \/ Post(<<>> \o <<>>) \/ Post(<<>>)
    BY <2>2 DEF TxOff
  <2> QED BY <1>a, <2>1, <2>3 DEF Quiet, Post
<1>5. CASE WatchdogTrips
  <2>1. UNCHANGED <<dspQ, guiQ, leads, playing, refused, jobs>>
    BY <1>5 DEF WatchdogTrips
  <2> QED BY <2>1 DEF Quiet
<1>6. CASE Dismiss
  <2>1. UNCHANGED <<guiQ, leads, playing, refused, jobs>>
    BY <1>6 DEF Dismiss
  <2>2. UNCHANGED dspQ \/ Post(Listen) \/ Post(<<>>)
    BY <1>6 DEF Dismiss
  <2> QED BY <1>a, <2>1, <2>2 DEF Quiet, Post
<1>7. CASE OnToneSweepTx \/ OnSettingsChanged \/ OnModeChanged
  <2>1. UNCHANGED <<guiQ, leads, playing, refused, jobs>>
    BY <1>7 DEF OnToneSweepTx, OnSettingsChanged, OnModeChanged
  <2>2. Post(<<Dsp!Call("sweepAudio")>>) \/ Post(<<Dsp!Call("stop")>> \o Listen)
        \/ Post(<<Dsp!Call("setMode")>>)
    BY <1>7 DEF OnToneSweepTx, OnSettingsChanged, OnModeChanged
  <2> QED BY <1>a, <2>1, <2>2 DEF Quiet, Post
<1>8. CASE \/ RadioReconfigured \/ RadioConnects \/ RadioDrops
           \/ OldManagerDestroyed \/ UNCHANGED vars
  <2>1. UNCHANGED <<dspQ, guiQ, leads, playing, refused, jobs>>
    BY <1>8 DEF RadioReconfigured, RadioConnects, RadioDrops, OldManagerDestroyed, vars
  <2> QED BY <2>1 DEF Quiet
<1> QED BY <1>1, <1>2, <1>3, <1>4, <1>5, <1>6, <1>7, <1>8

-----------------------------------------------------------------------------
(***************************************************************************)
(* startTx() of some audio, posted or awaited.                             *)
(***************************************************************************)
LEMMA PlayBehind ==
  ASSUME NEW q \in Seq(Posted), NEW a \in Dsp!Audio
  PROVE  /\ q \o Play(a) \in Seq(Posted)
         /\ Numbers(ToDo, q \o Play(a)) = Numbers(ToDo, q)
         /\ Numbers(ToStart, q \o Play(a)) = Numbers(ToStart, q) \cup {a}
         /\ Rising(ToDo, q) => Rising(ToDo, q \o Play(a))
<1> DEFINE c == Dsp!CallFor("startTx", a)
<1>1. c \in Posted /\ ToDo[c] = 0 /\ ToStart[c] = a /\ a # 0
  <2>1. c \in Posted /\ c.do = "startTx" /\ c.job = a
    BY DEF Dsp!CallFor, Posted
  <2> QED BY <2>1, Kinds DEF ToDo, ToStart, Dsp!None
<1> HIDE DEF c
<1>2. /\ <<c>> \in Seq(Posted) /\ Rising(ToDo, <<c>>)
      /\ Numbers(ToDo, <<c>>) = {} /\ Numbers(ToStart, <<c>>) = {a}
  BY <1>1 DEF Numbers, Rising
<1>3. /\ q \o <<c>> \in Seq(Posted)
      /\ Numbers(ToDo, q \o <<c>>) = Numbers(ToDo, q) \cup Numbers(ToDo, <<c>>)
      /\ Numbers(ToStart, q \o <<c>>) = Numbers(ToStart, q) \cup Numbers(ToStart, <<c>>)
      /\ Rising(ToDo, q) /\ Rising(ToDo, <<c>>)
         /\ (\A x \in Numbers(ToDo, q), y \in Numbers(ToDo, <<c>>) : x < y)
           => Rising(ToDo, q \o <<c>>)
  BY <1>2, CallsBehind
<1>4. Play(a) = <<c>>
  BY DEF Play, c
<1> QED BY <1>2, <1>3, <1>4

(* A message joins those that wait for their lead.                          *)
LEMMA LeadAdded ==
  ASSUME NEW q \in Seq(Dsp!Audio), NEW a \in Dsp!Audio
  PROVE  /\ Append(q, a) \in Seq(Dsp!Audio)
         /\ Numbers(Keyed, Append(q, a)) = Numbers(Keyed, q) \cup {a}
<1>1. Keyed[a] = a /\ a # 0 /\ Keyed \in [Dsp!Audio -> Nat]
  BY Kinds DEF Keyed, Dsp!None
<1>2. <<a>> \in Seq(Dsp!Audio) /\ Numbers(Keyed, <<a>>) = {a}
  BY <1>1 DEF Numbers
<1>3. /\ q \o <<a>> \in Seq(Dsp!Audio)
      /\ Numbers(Keyed, q \o <<a>>) = Numbers(Keyed, q) \cup Numbers(Keyed, <<a>>)
      /\ Rising(Keyed, q) /\ Rising(Keyed, <<a>>)
         /\ (\A x \in Numbers(Keyed, q), y \in Numbers(Keyed, <<a>>) : x < y)
           => Rising(Keyed, q \o <<a>>)
  BY <1>1, <1>2, Behind
<1>4. Append(q, a) = q \o <<a>>
  BY AppendIsConcat
<1> QED BY <1>2, <1>3, <1>4

(* The oldest of them leaves.                                               *)
LEMMA LeadTaken ==
  ASSUME NEW q \in Seq(Dsp!Audio), q # <<>>
  PROVE  /\ Tail(q) \in Seq(Dsp!Audio) /\ Head(q) \in Dsp!Audio
         /\ Numbers(Keyed, q) = Numbers(Keyed, Tail(q)) \cup {Head(q)}
<1>1. Keyed \in [Dsp!Audio -> Nat]
  BY Kinds
<1>2. /\ Tail(q) \in Seq(Dsp!Audio) /\ Head(q) \in Dsp!Audio
      /\ Numbers(Keyed, q) = Numbers(Keyed, Tail(q)) \cup ({Keyed[Head(q)]} \ {0})
  BY <1>1, Taken
<1>3. Keyed[Head(q)] = Head(q) /\ Head(q) # 0
  BY <1>2, Kinds DEF Keyed, Dsp!None
<1> QED BY <1>2, <1>3

(***************************************************************************)
(* transmit() of the next message, behind a stopRx().                      *)
(***************************************************************************)
LEMMA TransmitBehind ==
  ASSUME NEW q \in Seq(Posted), NEW j \in Dsp!Jobs, Rising(ToDo, q),
         \A a \in Numbers(ToDo, q) : a < j
  PROVE  LET t == StopListening \o <<Dsp!CallFor("transmit", j)>>
         IN  /\ q \o t \in Seq(Posted) /\ Rising(ToDo, q \o t)
             /\ Numbers(ToDo, q \o t) = Numbers(ToDo, q) \cup {j}
             /\ Numbers(ToStart, q \o t) = Numbers(ToStart, q)
<1> DEFINE b == Dsp!Call("stopRx")
           c == Dsp!CallFor("transmit", j)
           t == StopListening \o <<c>>
<1> SUFFICES /\ q \o t \in Seq(Posted) /\ Rising(ToDo, q \o t)
             /\ Numbers(ToDo, q \o t) = Numbers(ToDo, q) \cup {j}
             /\ Numbers(ToStart, q \o t) = Numbers(ToStart, q)
  OBVIOUS
<1>1. c \in Posted /\ ToDo[c] = j /\ ToStart[c] = 0 /\ j # 0
  <2>1. c \in Posted /\ c.do = "transmit" /\ c.job = j
    BY DEF Dsp!CallFor, Posted
  <2> QED BY <2>1 DEF ToDo, ToStart, Dsp!Jobs
<1>2. b \in Posted /\ ToDo[b] = 0 /\ ToStart[b] = 0
  <2>1. b \in Plain
    BY PlainCalls DEF Dsp!Calls
  <2>2. b \in Posted /\ b.do = "stopRx"
    BY <2>1, Kinds DEF Dsp!Call
  <2> QED BY <2>2 DEF ToDo, ToStart
<1>3. t = <<b>> \o <<c>>
  BY DEF StopListening
<1> HIDE DEF b, c, t
<1>4. t \in Seq(Posted) /\ Len(t) = 2 /\ t[1] = b /\ t[2] = c
  BY <1>1, <1>2, <1>3
<1>5. 1..Len(t) = {1, 2}
  BY <1>4
<1>6. Numbers(ToDo, t) = {j} /\ Numbers(ToStart, t) = {}
  BY <1>1, <1>2, <1>4, <1>5 DEF Numbers
<1>7. Rising(ToDo, t)
  BY <1>1, <1>2, <1>4, <1>5 DEF Rising
<1>8. /\ q \o t \in Seq(Posted)
      /\ Numbers(ToDo, q \o t) = Numbers(ToDo, q) \cup Numbers(ToDo, t)
      /\ Numbers(ToStart, q \o t) = Numbers(ToStart, q) \cup Numbers(ToStart, t)
      /\ Rising(ToDo, q) /\ Rising(ToDo, t)
         /\ (\A x \in Numbers(ToDo, q), y \in Numbers(ToDo, t) : x < y)
           => Rising(ToDo, q \o t)
  BY <1>4, CallsBehind
<1> QED BY <1>6, <1>7, <1>8

-----------------------------------------------------------------------------
(***************************************************************************)
(* onTransmit(): the newest number goes behind all others.                 *)
(***************************************************************************)
LEMMA OnTransmitKeepsTheQueues ==
  ASSUME QueueInv, OnTransmit
  PROVE  QueueInv'
<1>1. /\ dspQ \in Seq(Posted) /\ Rising(ToDo, dspQ) /\ jobs \in Nat
      /\ InOrder(Numbers(ToDo, dspQ), Numbers(Made, guiQ), OnTheWay, refused, jobs)
  BY JobsAssumption DEF QueueInv, QueueTypes, OrderInv
<1>2. /\ jobs' = jobs + 1 /\ jobs + 1 \in Dsp!Jobs /\ jobs' \in 0..MaxJobs
      /\ UNCHANGED <<guiQ, leads, playing, refused>>
      /\ dspQ' = dspQ \o (StopListening \o <<Dsp!CallFor("transmit", jobs + 1)>>)
  BY <1>1, JobsAssumption DEF OnTransmit, dspOnly, Post, Dsp!Jobs
<1>3. \A a \in Numbers(ToDo, dspQ) : a < jobs + 1
  BY <1>1 DEF InOrder
<1>4. /\ dspQ' \in Seq(Posted) /\ Rising(ToDo, dspQ')
      /\ Numbers(ToDo, dspQ') = Numbers(ToDo, dspQ) \cup {jobs + 1}
      /\ Numbers(ToStart, dspQ') = Numbers(ToStart, dspQ)
  BY <1>1, <1>2, <1>3, TransmitBehind
<1>5. OnTheWay' = OnTheWay
  BY <1>2, <1>4 DEF OnTheWay
<1>6. InOrder(Numbers(ToDo, dspQ) \cup {jobs + 1}, Numbers(Made, guiQ), OnTheWay,
              refused, jobs + 1)
  BY <1>1 DEF InOrder
<1>7. InOrder(Numbers(ToDo, dspQ'), Numbers(Made, guiQ'), OnTheWay', refused', jobs')
  BY <1>2, <1>4, <1>5, <1>6
<1> QED BY <1>2, <1>4, <1>7 DEF QueueInv, QueueTypes, OrderInv

(***************************************************************************)
(* The lead timer: the message is on its way all the same.                 *)
(***************************************************************************)
LEMMA LeadElapsedKeepsTheQueues ==
  ASSUME QueueInv, LeadElapsed
  PROVE  QueueInv'
<1>1. /\ dspQ \in Seq(Posted) /\ Rising(ToDo, dspQ) /\ leads \in Seq(Dsp!Audio)
  BY DEF QueueInv, QueueTypes, OrderInv
<1>2. /\ leads # <<>> /\ leads' = Tail(leads) /\ dspQ' = dspQ \o Play(Head(leads))
      /\ UNCHANGED <<guiQ, playing, refused, jobs>>
  BY DEF LeadElapsed, dspOnly, ghosts, Post
<1>3. /\ leads' \in Seq(Dsp!Audio) /\ Head(leads) \in Dsp!Audio
      /\ Numbers(Keyed, leads) = Numbers(Keyed, leads') \cup {Head(leads)}
  BY <1>1, <1>2, LeadTaken
<1>4. /\ dspQ' \in Seq(Posted) /\ Rising(ToDo, dspQ')
      /\ Numbers(ToDo, dspQ') = Numbers(ToDo, dspQ)
      /\ Numbers(ToStart, dspQ') = Numbers(ToStart, dspQ) \cup {Head(leads)}
  BY <1>1, <1>2, <1>3, PlayBehind
<1>5. OnTheWay' = OnTheWay
  BY <1>2, <1>3, <1>4 DEF OnTheWay
<1> QED BY <1>2, <1>3, <1>4, <1>5 DEF QueueInv, QueueTypes, OrderInv

(***************************************************************************)
(* The oldest message whose audio is ready is keyed for, or refused: all   *)
(* others with audio and all that wait come after it.                      *)
(***************************************************************************)
LEMMA ReadyTaken ==
  ASSUME NEW W, NEW R, NEW O, NEW N, NEW last \in Nat, InOrder(W, R, O, N, last),
         NEW r, NEW h, R = r \cup {h}, \A b \in r : h < b
  PROVE  InOrder(W, r, O \cup {h}, N, last) /\ InOrder(W, r, O, N \cup {h}, last)
BY DEF InOrder

(* The txAudioReady handler: keyed, refused or played without a rig.        *)
LEMMA OnTxAudioReadyKeepsTheQueues ==
  ASSUME QueueInv, OnTxAudioReady
  PROVE  QueueInv'
<1> DEFINE h == Heard
<1>1. /\ dspQ \in Seq(Posted) /\ Rising(ToDo, dspQ) /\ jobs \in Nat
      /\ leads \in Seq(Dsp!Audio) /\ refused \subseteq Dsp!Jobs
      /\ guiQ \in Seq(Signalled) /\ Rising(Made, guiQ)
      /\ InOrder(Numbers(ToDo, dspQ), Numbers(Made, guiQ), OnTheWay, refused, jobs)
  BY JobsAssumption DEF QueueInv, QueueTypes, OrderInv
<1>2. /\ guiQ # <<>> /\ Head(guiQ).sig = "txAudioReady" /\ guiQ' = Tail(guiQ)
      /\ UNCHANGED <<playing, jobs>>
  BY DEF OnTxAudioReady, Hears, dspOnly
<1>3. /\ guiQ' \in Seq(Signalled) /\ Head(guiQ) \in Signalled
      /\ Numbers(Made, guiQ) = Numbers(Made, guiQ') \cup ({Made[Head(guiQ)]} \ {0})
      /\ Rising(Made, guiQ')
      /\ Made[Head(guiQ)] # 0 => \A b \in Numbers(Made, guiQ') : Made[Head(guiQ)] < b
  BY <1>1, <1>2, SignalTaken
<1>4. Made[Head(guiQ)] = h /\ h \in Dsp!Jobs /\ h # 0
  <2>1. Head(guiQ).job \in Dsp!Jobs
    BY <1>2, <1>3 DEF Signalled, Notice
  <2> QED BY <1>2, <1>3, <2>1 DEF Made, Heard, Dsp!Jobs
<1>5. /\ Numbers(Made, guiQ) = Numbers(Made, guiQ') \cup {h}
      /\ \A b \in Numbers(Made, guiQ') : h < b
      /\ h \in Dsp!Audio /\ h \notin {Dsp!None, Dsp!Sweep}
  BY <1>3, <1>4, Kinds DEF Dsp!None
<1> HIDE DEF h
<1>6. /\ InOrder(Numbers(ToDo, dspQ), Numbers(Made, guiQ'), OnTheWay \cup {h}, refused, jobs)
      /\ InOrder(Numbers(ToDo, dspQ), Numbers(Made, guiQ'), OnTheWay, refused \cup {h}, jobs)
  BY <1>1, <1>5, ReadyTaken
<1>7. CASE leads' = Append(leads, h) /\ UNCHANGED <<dspQ, refused>>
  <2>1. /\ leads' \in Seq(Dsp!Audio)
        /\ Numbers(Keyed, leads') = Numbers(Keyed, leads) \cup {h}
    BY <1>1, <1>5, <1>7, LeadAdded
  <2>2. OnTheWay' = OnTheWay \cup {h}
    BY <1>2, <1>5, <1>7, <2>1 DEF OnTheWay
  <2> QED BY <1>1, <1>2, <1>3, <1>6, <1>7, <2>1, <2>2 DEF QueueInv, QueueTypes, OrderInv
<1>8. CASE refused' = refused \cup {h} /\ Post(GiveUp) /\ UNCHANGED leads
  <2>1. /\ dspQ' \in Seq(Posted) /\ Rising(ToDo, dspQ')
        /\ Numbers(ToDo, dspQ') = Numbers(ToDo, dspQ)
        /\ Numbers(ToStart, dspQ') = Numbers(ToStart, dspQ)
    BY <1>1, <1>8, PlainPosts, PlainBehind DEF Post
  <2>2. OnTheWay' = OnTheWay
    BY <1>2, <1>8, <2>1 DEF OnTheWay
  <2>3. refused' \subseteq Dsp!Jobs
    BY <1>1, <1>4, <1>8 DEF h
  <2>4. InOrder(Numbers(ToDo, dspQ'), Numbers(Made, guiQ'), OnTheWay', refused', jobs')
    BY <1>2, <1>6, <1>8, <2>1, <2>2
  <2> QED BY <1>2, <1>3, <1>8, <2>1, <2>3, <2>4 DEF QueueInv, QueueTypes, OrderInv
<1>9. CASE Post(Play(h)) /\ UNCHANGED <<leads, refused>>
  <2>1. /\ dspQ' \in Seq(Posted) /\ Rising(ToDo, dspQ')
        /\ Numbers(ToDo, dspQ') = Numbers(ToDo, dspQ)
        /\ Numbers(ToStart, dspQ') = Numbers(ToStart, dspQ) \cup {h}
    BY <1>1, <1>5, <1>9, PlayBehind DEF Post
  <2>2. OnTheWay' = OnTheWay \cup {h}
    BY <1>2, <1>5, <1>9, <2>1 DEF OnTheWay
  <2>3. InOrder(Numbers(ToDo, dspQ'), Numbers(Made, guiQ'), OnTheWay', refused', jobs')
    BY <1>2, <1>6, <1>9, <2>1, <2>2
  <2> QED BY <1>2, <1>3, <1>9, <2>1, <2>3 DEF QueueInv, QueueTypes, OrderInv
<1>10. \/ leads' = Append(leads, h) /\ UNCHANGED <<dspQ, refused>>
       \/ refused' = refused \cup {h} /\ Post(GiveUp) /\ UNCHANGED leads
       \/ Post(Play(h)) /\ UNCHANGED <<leads, refused>>
  BY DEF OnTxAudioReady, h
<1> QED BY <1>7, <1>8, <1>9, <1>10

(***************************************************************************)
(* The tone sweep is no message.                                           *)
(***************************************************************************)
LEMMA OnToneSweepAudioReadyKeepsTheQueues ==
  ASSUME QueueInv, OnToneSweepAudioReady
  PROVE  QueueInv'
<1>1. /\ dspQ \in Seq(Posted) /\ Rising(ToDo, dspQ) /\ jobs \in Nat
      /\ leads \in Seq(Dsp!Audio)
      /\ guiQ \in Seq(Signalled) /\ Rising(Made, guiQ)
      /\ InOrder(Numbers(ToDo, dspQ), Numbers(Made, guiQ), OnTheWay, refused, jobs)
  BY JobsAssumption DEF QueueInv, QueueTypes, OrderInv
<1>2. /\ guiQ # <<>> /\ Head(guiQ).sig = "sweepReady" /\ guiQ' = Tail(guiQ)
      /\ UNCHANGED <<playing, jobs, refused>>
  BY DEF OnToneSweepAudioReady, Hears, dspOnly, ghosts
<1>3. /\ guiQ' \in Seq(Signalled) /\ Head(guiQ) \in Signalled /\ Rising(Made, guiQ')
      /\ Numbers(Made, guiQ') \subseteq Numbers(Made, guiQ)
  BY <1>1, <1>2, SignalTaken
<1>4. Heard = Dsp!Sweep /\ Dsp!Sweep \in Dsp!Audio
  BY <1>2, <1>3 DEF Signalled, Notice, Heard, Dsp!Audio
<1>5. /\ leads' \in Seq(Dsp!Audio)
      /\ Numbers(Keyed, leads') \subseteq Numbers(Keyed, leads) \cup {Dsp!Sweep}
  <2>1. leads' = leads \/ leads' = Append(leads, Dsp!Sweep)
    BY <1>4 DEF OnToneSweepAudioReady
  <2>2. CASE leads' = leads
    BY <1>1, <2>2
  <2>3. CASE leads' = Append(leads, Dsp!Sweep)
    BY <1>1, <1>4, <2>3, LeadAdded
  <2> QED BY <2>1, <2>2, <2>3
<1>6. /\ dspQ' \in Seq(Posted) /\ Rising(ToDo, dspQ')
      /\ Numbers(ToDo, dspQ') = Numbers(ToDo, dspQ)
      /\ Numbers(ToStart, dspQ') \subseteq Numbers(ToStart, dspQ) \cup {Dsp!Sweep}
  <2>1. dspQ' = dspQ \/ dspQ' = dspQ \o Play(Dsp!Sweep)
    BY <1>4 DEF OnToneSweepAudioReady, Post
  <2>2. CASE dspQ' = dspQ
    BY <1>1, <2>2
  <2>3. CASE dspQ' = dspQ \o Play(Dsp!Sweep)
    BY <1>1, <1>4, <2>3, PlayBehind
  <2> QED BY <2>1, <2>2, <2>3
<1>7. OnTheWay' \subseteq OnTheWay
  BY <1>2, <1>5, <1>6 DEF OnTheWay
<1>8. InOrder(Numbers(ToDo, dspQ'), Numbers(Made, guiQ'), OnTheWay', refused', jobs')
  BY <1>1, <1>2, <1>3, <1>6, <1>7, LessInOrder
<1> QED BY <1>2, <1>3, <1>5, <1>6, <1>8 DEF QueueInv, QueueTypes, OrderInv

(***************************************************************************)
(* ~MainWindow(): nothing is left in the queues.                           *)
(***************************************************************************)
LEMMA QuitKeepsTheQueues ==
  ASSUME QueueInv, Quit
  PROVE  QueueInv'
<1>1. /\ playing' = Dsp!None /\ dspQ' = <<>> /\ guiQ' = <<>> /\ leads' = <<>>
      /\ UNCHANGED <<jobs, refused>>
  BY DEF Quit
<1>2. \A num : Rising(num, <<>>) /\ Numbers(num, <<>>) = {}
  BY DEF Rising, Numbers
<1>3. OnTheWay' = {}
  BY <1>1, <1>2 DEF OnTheWay
<1>4. refused \subseteq 1..jobs
  BY DEF QueueInv, OrderInv, InOrder
<1>5. InOrder({}, {}, {}, refused, jobs)
  BY <1>4 DEF InOrder
<1>6. <<>> \in Seq(Posted) /\ <<>> \in Seq(Signalled) /\ <<>> \in Seq(Dsp!Audio)
  BY EmptySeq
<1> QED BY <1>1, <1>2, <1>3, <1>5, <1>6 DEF QueueInv, QueueTypes, OrderInv

-----------------------------------------------------------------------------
(***************************************************************************)
(* The worker thread takes a call, does not create a message, and answers  *)
(* at most with a signal that carries none.                                *)
(***************************************************************************)
Answered == UNCHANGED guiQ \/ \E g \in Notice : guiQ' = Append(guiQ, g)

LEMMA WorkerTakes ==
  ASSUME QueueInv, dspQ # <<>>, dspQ' = Tail(dspQ), Answered,
         playing' \in {playing, Dsp!None}
                        \cup (IF Head(dspQ).do = "startTx" THEN {Dsp!Arg} ELSE {}),
         UNCHANGED <<leads, refused, jobs>>
  PROVE  QueueInv'
<1>1. /\ dspQ \in Seq(Posted) /\ Rising(ToDo, dspQ) /\ jobs \in Nat
      /\ guiQ \in Seq(Signalled) /\ Rising(Made, guiQ)
      /\ playing \in {Dsp!None} \cup Dsp!Audio
      /\ InOrder(Numbers(ToDo, dspQ), Numbers(Made, guiQ), OnTheWay, refused, jobs)
  BY JobsAssumption DEF QueueInv, QueueTypes, OrderInv
<1>2. /\ dspQ' \in Seq(Posted) /\ Head(dspQ) \in Posted /\ Rising(ToDo, dspQ')
      /\ Numbers(ToDo, dspQ') \subseteq Numbers(ToDo, dspQ)
      /\ Numbers(ToStart, dspQ)
           = Numbers(ToStart, dspQ') \cup ({ToStart[Head(dspQ)]} \ {0})
  BY <1>1, CallTaken
<1>3. /\ guiQ' \in Seq(Signalled) /\ Rising(Made, guiQ')
      /\ Numbers(Made, guiQ') = Numbers(Made, guiQ)
  <2>1. CASE guiQ' = guiQ
    BY <1>1, <2>1
  <2>2. ASSUME NEW g \in Notice, guiQ' = Append(guiQ, g)
        PROVE  /\ guiQ' \in Seq(Signalled) /\ Rising(Made, guiQ')
               /\ Numbers(Made, guiQ') = Numbers(Made, guiQ)
    BY <1>1, <2>2, NoticeNumbers
  <2> QED BY <2>1, <2>2 DEF Answered
<1>4. playing' \in {Dsp!None} \cup Dsp!Audio
      /\ playing' \in {playing, Dsp!None} \cup Numbers(ToStart, dspQ)
  <2>1. CASE Head(dspQ).do = "startTx" /\ playing' = Dsp!Arg
    <3>1. Dsp!Arg = Head(dspQ).job
      BY DEF Dsp!Arg
    <3>2. Head(dspQ).job \in Dsp!Audio /\ Head(dspQ).job # 0
      BY <1>2, <2>1, Kinds DEF Posted, Plain, Dsp!None
    <3>3. ToStart[Head(dspQ)] = Head(dspQ).job
      BY <1>2, <2>1 DEF ToStart
    <3> QED BY <1>2, <2>1, <3>1, <3>2, <3>3
  <2>2. CASE playing' \in {playing, Dsp!None}
    BY <1>1, <2>2
  <2> QED BY <2>1, <2>2
<1>5. OnTheWay' \subseteq OnTheWay
  BY <1>2, <1>4 DEF OnTheWay
<1>6. InOrder(Numbers(ToDo, dspQ'), Numbers(Made, guiQ'), OnTheWay', refused', jobs')
  BY <1>1, <1>2, <1>3, <1>5, LessInOrder
<1> QED BY <1>2, <1>3, <1>4, <1>6 DEF QueueInv, QueueTypes, OrderInv

(***************************************************************************)
(* DspPipeline::transmit(): the oldest waiting message gets its audio, and *)
(* all that have theirs came before it.                                    *)
(***************************************************************************)
LEMMA WaitingTaken ==
  ASSUME NEW W, NEW R, NEW O, NEW N, NEW last \in Nat, InOrder(W, R, O, N, last),
         NEW w, NEW h, W = w \cup {h}, \A b \in w : h < b
  PROVE  InOrder(w, R \cup {h}, O, N, last) /\ InOrder(w, R, O, N, last)
         /\ \A a \in R : a < h
BY DEF InOrder

(* txAudioReady goes behind the others.                                     *)
LEMMA ReadyBehind ==
  ASSUME NEW q \in Seq(Signalled), NEW h \in Dsp!Jobs, Rising(Made, q),
         \A a \in Numbers(Made, q) : a < h
  PROVE  LET r == Append(q, [sig |-> "txAudioReady", job |-> h])
         IN  /\ r \in Seq(Signalled) /\ Rising(Made, r)
             /\ Numbers(Made, r) = Numbers(Made, q) \cup {h}
<1> DEFINE g == [sig |-> "txAudioReady", job |-> h]
<1> SUFFICES /\ Append(q, g) \in Seq(Signalled) /\ Rising(Made, Append(q, g))
             /\ Numbers(Made, Append(q, g)) = Numbers(Made, q) \cup {h}
  OBVIOUS
<1>1. g \in Signalled /\ Made[g] = h /\ h # 0
  <2>1. g \in Signalled /\ g.sig = "txAudioReady" /\ g.job = h
    BY DEF Signalled
  <2> QED BY <2>1 DEF Made, Dsp!Jobs
<1> HIDE DEF g
<1>2. /\ <<g>> \in Seq(Signalled) /\ Rising(Made, <<g>>)
      /\ Numbers(Made, <<g>>) = {h}
  BY <1>1 DEF Numbers, Rising
<1>3. Made \in [Signalled -> Nat]
  BY Kinds
<1>4. /\ q \o <<g>> \in Seq(Signalled)
      /\ Numbers(Made, q \o <<g>>) = Numbers(Made, q) \cup Numbers(Made, <<g>>)
      /\ Rising(Made, q) /\ Rising(Made, <<g>>)
         /\ (\A a \in Numbers(Made, q), b \in Numbers(Made, <<g>>) : a < b)
           => Rising(Made, q \o <<g>>)
  BY <1>2, <1>3, Behind
<1>5. Append(q, g) = q \o <<g>>
  BY <1>1, AppendIsConcat
<1> QED BY <1>2, <1>4, <1>5

(* DspPipeline::transmit(), granted or refused.                             *)
LEMMA TransmitKeepsTheQueues ==
  ASSUME QueueInv, Dsp!Transmit, UNCHANGED <<leads, refused, jobs>>
  PROVE  QueueInv'
<1> DEFINE h == Head(dspQ).job
<1>1. /\ dspQ \in Seq(Posted) /\ Rising(ToDo, dspQ) /\ jobs \in Nat
      /\ guiQ \in Seq(Signalled) /\ Rising(Made, guiQ)
      /\ InOrder(Numbers(ToDo, dspQ), Numbers(Made, guiQ), OnTheWay, refused, jobs)
  BY JobsAssumption DEF QueueInv, QueueTypes, OrderInv
<1>2. /\ dspQ # <<>> /\ Head(dspQ).do = "transmit" /\ dspQ' = Tail(dspQ)
      /\ UNCHANGED playing
  BY DEF Dsp!Transmit, Dsp!Takes
<1>3. CASE Dsp!Emit("transmitFailed", Dsp!None)
  <2>1. [sig |-> "transmitFailed", job |-> Dsp!None] \in Notice
    BY DEF Notice, Dsp!Signals
  <2>2. Answered
    BY <1>3, <2>1 DEF Answered, Dsp!Emit
  <2> QED BY <1>2, <2>2, WorkerTakes
<1>4. CASE Dsp!Emit("txAudioReady", Dsp!Arg)
  <2>1. /\ dspQ' \in Seq(Posted) /\ Head(dspQ) \in Posted /\ Rising(ToDo, dspQ')
        /\ Numbers(ToDo, dspQ)
             = Numbers(ToDo, dspQ') \cup ({ToDo[Head(dspQ)]} \ {0})
        /\ Numbers(ToStart, dspQ)
             = Numbers(ToStart, dspQ') \cup ({ToStart[Head(dspQ)]} \ {0})
        /\ ToDo[Head(dspQ)] # 0
             => \A b \in Numbers(ToDo, dspQ') : ToDo[Head(dspQ)] < b
    BY <1>1, <1>2, CallTaken
  <2>2. /\ ToDo[Head(dspQ)] = h /\ ToStart[Head(dspQ)] = 0
        /\ h \in Dsp!Jobs /\ h # 0
    <3>1. h \in Dsp!Jobs
      BY <1>2, <2>1 DEF Posted, Plain
    <3> QED BY <1>2, <2>1, <3>1 DEF ToDo, ToStart, Dsp!Jobs
  <2>3. guiQ' = Append(guiQ, [sig |-> "txAudioReady", job |-> h])
    BY <1>4 DEF Dsp!Emit, Dsp!Arg
  <2> HIDE DEF h
  <2>4. /\ Numbers(ToDo, dspQ) = Numbers(ToDo, dspQ') \cup {h}
        /\ \A b \in Numbers(ToDo, dspQ') : h < b
        /\ Numbers(ToStart, dspQ') = Numbers(ToStart, dspQ)
    BY <2>1, <2>2
  <2>5. /\ InOrder(Numbers(ToDo, dspQ'), Numbers(Made, guiQ) \cup {h}, OnTheWay,
                   refused, jobs)
        /\ \A a \in Numbers(Made, guiQ) : a < h
    BY <1>1, <2>4, WaitingTaken
  <2>6. /\ guiQ' \in Seq(Signalled) /\ Rising(Made, guiQ')
        /\ Numbers(Made, guiQ') = Numbers(Made, guiQ) \cup {h}
    BY <1>1, <2>2, <2>3, <2>5, ReadyBehind
  <2>7. OnTheWay' = OnTheWay
    BY <1>2, <2>4 DEF OnTheWay
  <2>8. InOrder(Numbers(ToDo, dspQ'), Numbers(Made, guiQ'), OnTheWay', refused', jobs')
    BY <2>5, <2>6, <2>7
  <2> QED BY <1>2, <2>1, <2>6, <2>8 DEF QueueInv, QueueTypes, OrderInv
<1> QED BY <1>3, <1>4 DEF Dsp!Transmit

(* onTxCompletionTimer().                                                   *)
LEMMA AudioEndsKeepsTheQueues ==
  ASSUME QueueInv, Dsp!CompletionTimer, UNCHANGED <<leads, refused, jobs>>
  PROVE  QueueInv'
<1>1. /\ jobs \in Nat /\ guiQ \in Seq(Signalled) /\ Rising(Made, guiQ)
      /\ InOrder(Numbers(ToDo, dspQ), Numbers(Made, guiQ), OnTheWay, refused, jobs)
  BY JobsAssumption DEF QueueInv, QueueTypes, OrderInv
<1>2. /\ playing' = Dsp!None /\ UNCHANGED dspQ
      /\ guiQ' = Append(guiQ, [sig |-> "txComplete", job |-> Dsp!None])
  BY DEF Dsp!CompletionTimer, Dsp!Emit
<1>3. [sig |-> "txComplete", job |-> Dsp!None] \in Notice
  BY DEF Notice, Dsp!Signals
<1>4. /\ guiQ' \in Seq(Signalled) /\ Rising(Made, guiQ')
      /\ Numbers(Made, guiQ') = Numbers(Made, guiQ)
  BY <1>1, <1>2, <1>3, NoticeNumbers
<1>5. OnTheWay' \subseteq OnTheWay
  BY <1>2 DEF OnTheWay
<1>6. InOrder(Numbers(ToDo, dspQ'), Numbers(Made, guiQ'), OnTheWay', refused', jobs')
  BY <1>1, <1>2, <1>4, <1>5, LessInOrder
<1> QED BY <1>2, <1>4, <1>6 DEF QueueInv, QueueTypes, OrderInv

(* Every call that the worker thread runs.                                  *)
LEMMA WorkerKeepsTheQueues ==
  ASSUME QueueInv, Dsp!DspStep, UNCHANGED <<leads, refused, jobs>>
  PROVE  QueueInv'
<1>1. /\ [sig |-> "audioError", job |-> Dsp!None] \in Notice
      /\ [sig |-> "sweepReady", job |-> Dsp!Sweep] \in Notice
  BY DEF Notice, Dsp!Signals
<1>2. Dsp!Emit("audioError", Dsp!None) \/ Dsp!Emit("sweepReady", Dsp!Sweep) => Answered
  BY <1>1 DEF Answered, Dsp!Emit
<1>3. UNCHANGED guiQ => Answered
  BY DEF Answered
<1>4. CASE Dsp!StopRx \/ Dsp!StartRx \/ Dsp!StopAll
           \/ Dsp!PipeDone \/ Dsp!SetMode \/ Dsp!RequestToneSweepAudio
  <2>1. dspQ # <<>> /\ dspQ' = Tail(dspQ) /\ playing' \in {playing, Dsp!None}
    BY <1>4 DEF Dsp!StopRx, Dsp!StartRx, Dsp!StopAll, Dsp!PipeDone, Dsp!SetMode,
      Dsp!RequestToneSweepAudio, Dsp!Takes
  <2>2. Answered
    BY <1>2, <1>3, <1>4 DEF Dsp!StopRx, Dsp!StartRx, Dsp!StopAll, Dsp!PipeDone,
      Dsp!SetMode, Dsp!RequestToneSweepAudio
  <2> QED BY <2>1, <2>2, WorkerTakes
<1>5. CASE Dsp!StartTx
  <2>1. /\ dspQ # <<>> /\ dspQ' = Tail(dspQ) /\ Head(dspQ).do = "startTx"
        /\ playing' \in {Dsp!Arg, Dsp!None}
    BY <1>5 DEF Dsp!StartTx, Dsp!Takes
  <2>2. Answered
    BY <1>2, <1>3, <1>5 DEF Dsp!StartTx
  <2> QED BY <2>1, <2>2, WorkerTakes
<1>6. CASE Dsp!Transmit
  BY <1>6, TransmitKeepsTheQueues
<1> QED BY <1>4, <1>5, <1>6 DEF Dsp!DspStep

-----------------------------------------------------------------------------
(***************************************************************************)
(* The queues at the start and after every step.                           *)
(***************************************************************************)
LEMMA InitQueues == Init => QueueInv
<1> SUFFICES ASSUME Init PROVE QueueInv
  OBVIOUS
<1>1. /\ playing = Dsp!None /\ dspQ = <<>> /\ guiQ = <<>> /\ leads = <<>>
      /\ jobs = 0 /\ refused = {}
  BY DEF Init, Dsp!DspInit
<1>2. \A num : Rising(num, <<>>) /\ Numbers(num, <<>>) = {}
  BY DEF Rising, Numbers
<1>3. OnTheWay = {}
  BY <1>1, <1>2 DEF OnTheWay
<1>4. InOrder({}, {}, {}, {}, 0)
  BY DEF InOrder
<1>5. <<>> \in Seq(Posted) /\ <<>> \in Seq(Signalled) /\ <<>> \in Seq(Dsp!Audio)
  BY EmptySeq
<1>6. QueueTypes
  <2>1. jobs \in 0..MaxJobs
    BY <1>1, JobsAssumption
  <2> QED BY <1>1, <1>5, <2>1 DEF QueueTypes
<1>7. OrderInv
  <2>1. /\ Numbers(ToDo, dspQ) = {} /\ Numbers(Made, guiQ) = {}
        /\ Rising(ToDo, dspQ) /\ Rising(Made, guiQ)
    BY <1>1, <1>2
  <2> QED BY <1>1, <1>3, <1>4, <2>1 DEF OrderInv
<1> QED BY <1>6, <1>7 DEF QueueInv

(* Every step preserves what is said of the queues.                         *)
LEMMA NextQueues == QueueInv /\ [Next]_vars => QueueInv'
<1> SUFFICES ASSUME QueueInv, [Next]_vars PROVE QueueInv'
  OBVIOUS
<1>1. CASE Worker \/ AudioEnds
  <2>1. UNCHANGED <<leads, refused, jobs>>
    BY <1>1 DEF Worker, AudioEnds, guiVars, ghosts
  <2> QED BY <1>1, <2>1, WorkerKeepsTheQueues, AudioEndsKeepsTheQueues DEF Worker, AudioEnds
<1>2. CASE OnTransmit \/ LeadElapsed \/ OnTxAudioReady \/ OnToneSweepAudioReady \/ Quit
  BY <1>2, OnTransmitKeepsTheQueues, LeadElapsedKeepsTheQueues,
     OnTxAudioReadyKeepsTheQueues, OnToneSweepAudioReadyKeepsTheQueues,
     QuitKeepsTheQueues
<1>3. CASE Quiet
  BY <1>3, QuietKeepsTheQueues
<1> QED BY <1>1, <1>2, <1>3, QuietSteps DEF Next, Handler

(***************************************************************************)
(* A message whose key was refused is never put on the air, whatever       *)
(* macros, sweeps, settings, radios and faults come between: no number is  *)
(* ever in two places, and a refused one was in none but the handler's     *)
(* hands.                                                                  *)
(***************************************************************************)
THEOREM AlwaysRefusedNeverPlays == Spec => []RefusedNeverPlays
<1>1. QueueInv => RefusedNeverPlays
  <2> SUFFICES ASSUME QueueInv, playing \in refused PROVE FALSE
    BY DEF RefusedNeverPlays
  <2>1. playing \in Dsp!Jobs
    BY DEF QueueInv, QueueTypes
  <2>2. playing \in OnTheWay
    BY <2>1, Kinds DEF OnTheWay, Dsp!None, Dsp!Jobs
  <2> QED BY <2>2 DEF QueueInv, OrderInv, InOrder
<1> QED BY <1>1, InitQueues, NextQueues, PTL DEF Spec

-----------------------------------------------------------------------------
(***************************************************************************)
(* The fields that are no queues.                                          *)
(***************************************************************************)
LEMMA NextFields == FieldTypes /\ [Next]_vars => FieldTypes'
<1> SUFFICES ASSUME FieldTypes, [Next]_vars PROVE FieldTypes'
  OBVIOUS
<1> USE DEF FieldTypes, dspOnly, dspVars, guiVars, ghosts
<1>1. CASE Worker \/ AudioEnds
  BY <1>1 DEF Worker, AudioEnds, Dsp!DspStep, Dsp!StopRx, Dsp!StartRx, Dsp!StartTx,
    Dsp!StopAll, Dsp!Transmit, Dsp!PipeDone, Dsp!SetMode, Dsp!RequestToneSweepAudio,
    Dsp!CompletionTimer
<1>2. CASE OnTransmit \/ OnTransmitFailed \/ LeadElapsed \/ TailElapsed \/ WatchdogTrips
  BY <1>2 DEF OnTransmit, OnTransmitFailed, LeadElapsed, TailElapsed, WatchdogTrips
<1>3. CASE OnTxAudioReady \/ OnTxStartError \/ OnTxComplete \/ Dismiss
  BY <1>3 DEF OnTxAudioReady, OnTxStartError, OnTxComplete, Dismiss, Complete
<1>4. CASE OnToneSweepAudioReady
  BY <1>4 DEF OnToneSweepAudioReady
<1>5. CASE OnToneSweepTx \/ OnSettingsChanged \/ OnModeChanged \/ RadioReconfigured
           \/ RadioDrops \/ Quit
  <2>1. budget > 0 /\ budget' = budget - 1
    BY <1>5 DEF OnToneSweepTx, OnSettingsChanged, OnModeChanged, RadioReconfigured,
      RadioDrops, Quit, Disturb
  <2>2. budget' \in 0..Budget
    BY <2>1, BudgetAssumption
  <2>3. CASE OnToneSweepTx
    BY <2>2, <2>3 DEF OnToneSweepTx
  <2>4. CASE OnSettingsChanged
    BY <2>2, <2>4 DEF OnSettingsChanged
  <2>5. CASE OnModeChanged
    BY <2>2, <2>5 DEF OnModeChanged
  <2>6. CASE RadioReconfigured
    BY <2>2, <2>6 DEF RadioReconfigured
  <2>7. CASE RadioDrops
    BY <2>2, <2>7 DEF RadioDrops
  <2>8. CASE Quit
    BY <2>2, <2>8 DEF Quit
  <2> QED BY <1>5, <2>3, <2>4, <2>5, <2>6, <2>7, <2>8
<1>6. CASE RadioConnects \/ OldManagerDestroyed \/ UNCHANGED vars
  BY <1>6 DEF RadioConnects, OldManagerDestroyed, vars
<1> QED BY <1>1, <1>2, <1>3, <1>4, <1>5, <1>6 DEF Next, Handler

(***************************************************************************)
(* Every field of the program, the queues and the boxes keep their types,  *)
(* for any number of messages, any faults and any disturbances.            *)
(***************************************************************************)
THEOREM AlwaysTypeOK == Spec => []TypeOK
<1> DEFINE I == QueueInv /\ FieldTypes /\ StepInv /\ Proofs!Inv
<1>1. Init => I
  <2>1. Init => FieldTypes
    <3> SUFFICES ASSUME Init PROVE FieldTypes
      OBVIOUS
    <3>1. /\ rx = TRUE /\ busy = FALSE /\ rxSuspended = FALSE
          /\ radio \in {"none", "up"}
          /\ hasCall = TRUE /\ uiOn = TRUE /\ awaiting = FALSE /\ sweep = FALSE
          /\ swept = FALSE /\ budget = Budget
      BY DEF Init, Dsp!DspInit
    <3>2. budget \in 0..Budget
      BY <3>1, BudgetAssumption
    <3> QED BY <3>1, <3>2 DEF FieldTypes
  <2>2. Init => StepInv /\ Proofs!Inv
    BY InitBox, ManagerInvInit DEF StepInv, Init
  <2> QED BY <2>1, <2>2, InitQueues
<1>2. I /\ [Next]_vars => I'
  BY NextQueues, NextFields, StepSimulation, SameSteps, ManagerInvStep
<1>3. I => TypeOK
  <2> SUFFICES ASSUME I PROVE TypeOK
    OBVIOUS
  <2>1. Ptt!TypeOK
    BY DEF Proofs!Inv, Proofs!TypeOK, Proofs!Lines, Ptt!TypeOK, Ptt!Lines
  <2>2. dspQ \in Seq([do : Dsp!Calls, job : {Dsp!None} \cup Dsp!Audio])
    <3>1. \A c \in Posted : c \in [do : Dsp!Calls, job : {Dsp!None} \cup Dsp!Audio]
      BY Kinds DEF Posted, Plain, Dsp!Calls
    <3> QED BY <3>1, Wider DEF QueueInv, QueueTypes
  <2>3. guiQ \in Seq([sig : Dsp!Signals, job : {Dsp!None} \cup Dsp!Audio])
    <3>1. \A g \in Signalled : g \in [sig : Dsp!Signals, job : {Dsp!None} \cup Dsp!Audio]
      BY Kinds DEF Signalled, Notice, Dsp!Signals, Dsp!Audio
    <3> QED BY <3>1, Wider DEF QueueInv, QueueTypes
  <2>4. Dsp!DspTypeOK
    BY <2>2, <2>3 DEF Dsp!DspTypeOK, QueueInv, QueueTypes, FieldTypes
  <2>5. alarmOpen = \E i \in 1..Len(modal) : modal[i].own
    BY DEF StepInv, BoxInv, OwnBox
  <2> QED BY <2>1, <2>4, <2>5
       DEF TypeOK, QueueInv, QueueTypes, FieldTypes, StepInv, BoxInv, Tails
<1> QED BY <1>1, <1>2, <1>3, PTL DEF Spec

-----------------------------------------------------------------------------
(***************************************************************************)
(* The station against the order a half-duplex rig needs (TxInterlock).    *)
(*                                                                         *)
(* A station is undisturbed when its rig obeys and answers, its audio      *)
(* devices fail only where startTx() and startRx() say so, no message      *)
(* plays for more than 120 s, and nothing but a change of mode comes       *)
(* between.  None of this can be left out: with one refused setPTT(), one  *)
(* lost link, one long message, one sink that fails and plays, one early   *)
(* message, sweep, macro or saved setting, TLC finds the order broken.     *)
(***************************************************************************)
Undisturbed ==
  /\ Replies = {[ok |-> TRUE, acts |-> TRUE]}
  /\ Faults \subseteq {"txfail", "rxfail", "rxmismatch"}
  /\ LongJobs = {} /\ Disturbances \subseteq {"mode"}

\* The calls a station at rest may have queued, and those a deaf one may.
Restful == {"startRx", "setMode", "pipeDone"}
Harmless == {"setMode", "pipeDone"}
Only(q, dos) == \A i \in 1..Len(q) : q[i].do \in dos

\* A message waits for the pipeline, right behind the call that stops the
\* receiver, or with the receiver stopped.
Asks(q, on) ==
  \E k \in 1..Len(q) :
    /\ q[k].do = "transmit" /\ \A i \in k + 1..Len(q) : q[i].do \in Harmless
    /\ k = 1 => ~on
    /\ k > 1 => q[k - 1].do = "stopRx" /\ \A i \in 1..k - 2 : q[i].do \in Restful

\* A message waits for the sink.
Starts(q) ==
  \E k \in 1..Len(q) :
    q[k].do = "startTx" /\ \A i \in 1..Len(q) : i = k \/ q[i].do \in Harmless

\* Receivers that failed to start; the pipeline's answer, behind them.
Errors(g) == \A i \in 1..Len(g) : g[i].sig = "audioError"
Replied(g) ==
  /\ Len(g) > 0 /\ g[Len(g)].sig \in {"txAudioReady", "transmitFailed"}
  /\ \A i \in 1..Len(g) - 1 : g[i].sig = "audioError"

\* Where a station and its one message are.  Until the key is asked for it is
\* free; then a controlled rig is keyed and the receiver off until the tail ends.
KeyFree == ~rigKeyed /\ ~watchdog /\ playing = 0 /\ ~awaiting /\ leads = <<>> /\ tails = <<>>
OnAir == ~uiOn /\ ~rx /\ tails = <<>> /\ (radio = "up" => rigKeyed)

AtRest == KeyFree /\ uiOn /\ Only(dspQ, Restful) /\ Errors(guiQ)
Asking == KeyFree /\ ~uiOn /\ Asks(dspQ, rx) /\ Errors(guiQ)
Prepared == KeyFree /\ ~uiOn /\ ~rx /\ Only(dspQ, Harmless) /\ Replied(guiQ)
Leading ==
  /\ OnAir /\ playing = 0 /\ ~awaiting /\ Len(leads) = 1 /\ guiQ = <<>>
  /\ Only(dspQ, Harmless)
Starting ==
  OnAir /\ playing = 0 /\ awaiting /\ leads = <<>> /\ guiQ = <<>> /\ Starts(dspQ)
Sounding ==
  /\ OnAir /\ playing # 0 /\ awaiting /\ leads = <<>> /\ guiQ = <<>>
  /\ Only(dspQ, Harmless)
Ended ==
  /\ OnAir /\ playing = 0 /\ awaiting /\ leads = <<>> /\ Len(guiQ) = 1
  /\ guiQ[1].sig \in {"txComplete", "audioError"} /\ Only(dspQ, Harmless)
Trailing ==
  /\ uiOn /\ ~rx /\ playing = 0 /\ ~awaiting /\ leads = <<>> /\ guiQ = <<>>
  /\ tails = <<"msg">> /\ Only(dspQ, Harmless)

Calm ==
  /\ modal = <<>> /\ doomed = {} /\ ~sweep /\ ~closed
  /\ \/ radio = "none" /\ line = "null"
     \/ radio = "up" /\ line = "up"
  /\ rigKeyed => pttKeyed /\ line = "up"

Stages ==
  \/ AtRest \/ Asking \/ Prepared \/ Leading \/ Starting \/ Sounding \/ Ended \/ Trailing
SessionInv == Calm /\ Stages

-----------------------------------------------------------------------------
(***************************************************************************)
(* Taking the first of a queue, and putting one behind it.                 *)
(***************************************************************************)
LEMMA FirstTaken ==
  ASSUME NEW T, NEW q \in Seq(T), q # <<>>
  PROVE  /\ Len(q) \in Nat /\ Len(q) >= 1 /\ Head(q) = q[1]
         /\ Tail(q) \in Seq(T) /\ Len(Tail(q)) = Len(q) - 1
         /\ \A i \in 1..Len(q) - 1 : Tail(q)[i] = q[i + 1]
OBVIOUS

LEMMA LastPut ==
  ASSUME NEW T, NEW q \in Seq(T), NEW c \in T
  PROVE  /\ Len(q) \in Nat /\ q \o <<c>> = Append(q, c)
         /\ Len(Append(q, c)) = Len(q) + 1 /\ Append(q, c)[Len(q) + 1] = c
         /\ \A i \in 1..Len(q) : Append(q, c)[i] = q[i]
<1>1. q \o <<c>> = Append(q, c)
  OBVIOUS
<1> QED BY <1>1, AppendProperties, LenProperties

(***************************************************************************)
(* A queue of certain calls.                                               *)
(***************************************************************************)
LEMMA OnlyTaken ==
  ASSUME NEW T, NEW q \in Seq(T), q # <<>>, NEW dos, Only(q, dos)
  PROVE  Head(q).do \in dos /\ Only(Tail(q), dos)
BY FirstTaken DEF Only

LEMMA OnlyPut ==
  ASSUME NEW T, NEW q \in Seq(T), NEW c \in T, NEW dos, Only(q, dos), c.do \in dos
  PROVE  Only(q \o <<c>>, dos)
<1>1. \A i \in 1..Len(q) + 1 : i = Len(q) + 1 \/ i \in 1..Len(q)
  BY LastPut
<1> QED BY <1>1, LastPut DEF Only

(***************************************************************************)
(* A message is sent: stopRx and transmit go behind what is queued.        *)
(***************************************************************************)
LEMMA AskingBegins ==
  ASSUME NEW T, NEW q \in Seq(T), NEW s \in T, NEW c \in T, NEW on,
         Only(q, Restful), s.do = "stopRx", c.do = "transmit"
  PROVE  Asks(q \o (<<s>> \o <<c>>), on)
<1> DEFINE r == Append(Append(q, s), c)
<1>1. q \o (<<s>> \o <<c>>) = r
  OBVIOUS
<1>2. /\ Len(q) \in Nat /\ Len(r) = Len(q) + 2 /\ r[Len(q) + 2] = c
      /\ r[Len(q) + 1] = s /\ \A i \in 1..Len(q) : r[i] = q[i]
  <2>1. Append(q, s) \in Seq(T) /\ Len(q) \in Nat /\ Len(Append(q, s)) = Len(q) + 1
    BY AppendProperties, LenProperties
  <2> QED BY <2>1, LastPut
<1> HIDE DEF r
<1>3. Asks(r, on)
  <2>1. Len(q) + 2 \in 1..Len(r) /\ Len(q) + 2 > 1 /\ Len(q) + 2 # 1
    BY <1>2
  <2>2. \A i \in (Len(q) + 2) + 1..Len(r) : FALSE
    BY <1>2
  <2>3. (Len(q) + 2) - 1 = Len(q) + 1 /\ (Len(q) + 2) - 2 = Len(q)
    BY <1>2
  <2>4. \A i \in 1..Len(q) : r[i].do \in Restful
    BY <1>2 DEF Only
  <2> QED BY <1>2, <2>1, <2>2, <2>3, <2>4 DEF Asks
<1> QED BY <1>1, <1>3

LEMMA AskingPut ==
  ASSUME NEW T, NEW q \in Seq(T), NEW c \in T, NEW on, Asks(q, on), c.do \in Harmless
  PROVE  Asks(q \o <<c>>, on)
<1> DEFINE r == Append(q, c)
<1>1. /\ Len(q) \in Nat /\ q \o <<c>> = r /\ Len(r) = Len(q) + 1
      /\ r[Len(q) + 1] = c /\ \A i \in 1..Len(q) : r[i] = q[i]
  BY LastPut
<1> HIDE DEF r
<1>2. PICK k \in 1..Len(q) :
        /\ q[k].do = "transmit" /\ \A i \in k + 1..Len(q) : q[i].do \in Harmless
        /\ k = 1 => ~on
        /\ k > 1 => q[k - 1].do = "stopRx" /\ \A i \in 1..k - 2 : q[i].do \in Restful
  BY DEF Asks
<1>3. k \in 1..Len(r) /\ r[k].do = "transmit"
  BY <1>1, <1>2
<1>4. \A i \in k + 1..Len(r) : r[i].do \in Harmless
  <2>1. \A i \in k + 1..Len(r) : i = Len(q) + 1 \/ i \in k + 1..Len(q)
    BY <1>1
  <2>2. \A i \in k + 1..Len(q) : r[i] = q[i]
    BY <1>1
  <2> QED BY <1>1, <1>2, <2>1, <2>2
<1>5. k > 1 => r[k - 1].do = "stopRx" /\ \A i \in 1..k - 2 : r[i].do \in Restful
  BY <1>1, <1>2
<1> QED BY <1>1, <1>2, <1>3, <1>4, <1>5 DEF Asks

(***************************************************************************)
(* The worker gets nearer to the message: what it takes leaves the         *)
(* receiver stopped when it is the message's turn.                         *)
(***************************************************************************)
LEMMA AskingTaken ==
  ASSUME NEW T, NEW q \in Seq(T), q # <<>>, NEW on, Asks(q, on),
         Head(q).do # "transmit", NEW then, Head(q).do = "stopRx" => ~then
  PROVE  Head(q).do \in Restful \cup {"stopRx"} /\ Asks(Tail(q), then)
<1> DEFINE r == Tail(q)
<1>1. /\ Len(q) \in Nat /\ Len(q) >= 1 /\ Head(q) = q[1] /\ Len(r) = Len(q) - 1
      /\ \A i \in 1..Len(q) - 1 : r[i] = q[i + 1]
  BY FirstTaken
<1> HIDE DEF r
<1>2. PICK k \in 1..Len(q) :
        /\ q[k].do = "transmit" /\ \A i \in k + 1..Len(q) : q[i].do \in Harmless
        /\ k = 1 => ~on
        /\ k > 1 => q[k - 1].do = "stopRx" /\ \A i \in 1..k - 2 : q[i].do \in Restful
  BY DEF Asks
<1>3. k > 1
  BY <1>1, <1>2
<1>4. k - 1 \in 1..Len(r) /\ r[k - 1].do = "transmit"
  <2>1. k - 1 \in 1..Len(q) - 1 /\ (k - 1) + 1 = k
    BY <1>1, <1>2, <1>3
  <2> QED BY <1>1, <1>2, <2>1
<1>5. \A i \in (k - 1) + 1..Len(r) : r[i].do \in Harmless
  <2>1. \A i \in (k - 1) + 1..Len(r) : i \in 1..Len(q) - 1 /\ i + 1 \in k + 1..Len(q)
    BY <1>1, <1>2, <1>3
  <2> QED BY <1>1, <1>2, <2>1
<1>6. CASE k = 2
  <2>1. Head(q).do = "stopRx" /\ ~then
    BY <1>1, <1>2, <1>6
  <2> QED BY <1>4, <1>5, <1>6, <2>1 DEF Asks, r
<1>7. CASE k > 2
  <2>1. Head(q).do \in Restful
    <3>1. 1 \in 1..k - 2
      BY <1>7
    <3> QED BY <1>1, <1>2, <1>3, <3>1
  <2>2. r[(k - 1) - 1].do = "stopRx"
    <3>1. (k - 1) - 1 \in 1..Len(q) - 1 /\ ((k - 1) - 1) + 1 = k - 1
      BY <1>2, <1>7
    <3> QED BY <1>1, <1>2, <1>3, <3>1
  <2>3. \A i \in 1..(k - 1) - 2 : r[i].do \in Restful
    <3>1. \A i \in 1..(k - 1) - 2 : i \in 1..Len(q) - 1 /\ i + 1 \in 1..k - 2
      BY <1>1, <1>2
    <3> QED BY <1>1, <1>2, <1>3, <3>1
  <2> QED BY <1>4, <1>5, <1>7, <2>1, <2>2, <2>3 DEF Asks, r
<1>8. k = 2 \/ k > 2
  BY <1>2, <1>3
<1> QED BY <1>6, <1>7, <1>8

LEMMA AskingEnds ==
  ASSUME NEW T, NEW q \in Seq(T), q # <<>>, NEW on, Asks(q, on), Head(q).do = "transmit"
  PROVE  ~on /\ Only(Tail(q), Harmless)
<1> DEFINE r == Tail(q)
<1>1. /\ Len(q) \in Nat /\ Len(q) >= 1 /\ Head(q) = q[1] /\ Len(r) = Len(q) - 1
      /\ \A i \in 1..Len(q) - 1 : r[i] = q[i + 1]
  BY FirstTaken
<1> HIDE DEF r
<1>2. PICK k \in 1..Len(q) :
        /\ q[k].do = "transmit" /\ \A i \in k + 1..Len(q) : q[i].do \in Harmless
        /\ k = 1 => ~on
        /\ k > 1 => q[k - 1].do = "stopRx" /\ \A i \in 1..k - 2 : q[i].do \in Restful
  BY DEF Asks
<1>3. k = 1
  <2>1. ASSUME k = 2 PROVE FALSE
    BY <1>1, <1>2, <2>1
  <2>2. ASSUME k > 2 PROVE FALSE
    <3>1. 1 \in 1..k - 2
      BY <2>2
    <3>2. q[1].do \in Restful
      BY <1>2, <2>2, <3>1
    <3> QED BY <1>1, <3>2 DEF Restful
  <2>3. k = 1 \/ k = 2 \/ k > 2
    BY <1>2
  <2> QED BY <2>1, <2>2, <2>3
<1>4. \A i \in 1..Len(r) : i \in 1..Len(q) - 1 /\ i + 1 \in k + 1..Len(q)
  BY <1>1, <1>3
<1>5. Only(r, Harmless)
  BY <1>1, <1>2, <1>4 DEF Only
<1> QED BY <1>2, <1>3, <1>5 DEF r

(***************************************************************************)
(* A message's start is posted, others come behind it or before it.        *)
(***************************************************************************)
LEMMA StartBegins ==
  ASSUME NEW T, NEW q \in Seq(T), NEW c \in T, Only(q, Harmless), c.do = "startTx"
  PROVE  Starts(q \o <<c>>)
<1> DEFINE r == Append(q, c)
<1>1. /\ Len(q) \in Nat /\ q \o <<c>> = r /\ Len(r) = Len(q) + 1
      /\ r[Len(q) + 1] = c /\ \A i \in 1..Len(q) : r[i] = q[i]
  BY LastPut
<1> HIDE DEF r
<1>2. Len(q) + 1 \in 1..Len(r) /\ r[Len(q) + 1].do = "startTx"
  BY <1>1
<1>3. \A i \in 1..Len(r) : i = Len(q) + 1 \/ r[i].do \in Harmless
  <2>1. \A i \in 1..Len(r) : i = Len(q) + 1 \/ i \in 1..Len(q)
    BY <1>1
  <2> QED BY <1>1, <2>1 DEF Only
<1> QED BY <1>1, <1>2, <1>3 DEF Starts

LEMMA StartPut ==
  ASSUME NEW T, NEW q \in Seq(T), NEW c \in T, Starts(q), c.do \in Harmless
  PROVE  Starts(q \o <<c>>)
<1> DEFINE r == Append(q, c)
<1>1. /\ Len(q) \in Nat /\ q \o <<c>> = r /\ Len(r) = Len(q) + 1
      /\ r[Len(q) + 1] = c /\ \A i \in 1..Len(q) : r[i] = q[i]
  BY LastPut
<1> HIDE DEF r
<1>2. PICK k \in 1..Len(q) :
        q[k].do = "startTx" /\ \A i \in 1..Len(q) : i = k \/ q[i].do \in Harmless
  BY DEF Starts
<1>3. \A i \in 1..Len(r) : i = Len(q) + 1 \/ i \in 1..Len(q)
  BY <1>1
<1>4. k \in 1..Len(r)
  BY <1>1
<1> QED BY <1>1, <1>2, <1>3, <1>4 DEF Starts

LEMMA StartTaken ==
  ASSUME NEW T, NEW q \in Seq(T), q # <<>>, Starts(q)
  PROVE  IF Head(q).do = "startTx" THEN Only(Tail(q), Harmless)
         ELSE Head(q).do \in Harmless /\ Starts(Tail(q))
<1> DEFINE r == Tail(q)
<1>1. /\ Len(q) \in Nat /\ Len(q) >= 1 /\ Head(q) = q[1] /\ Len(r) = Len(q) - 1
      /\ \A i \in 1..Len(q) - 1 : r[i] = q[i + 1]
  BY FirstTaken
<1> HIDE DEF r
<1>2. PICK k \in 1..Len(q) :
        q[k].do = "startTx" /\ \A i \in 1..Len(q) : i = k \/ q[i].do \in Harmless
  BY DEF Starts
<1>3. \A i \in 1..Len(r) : i \in 1..Len(q) - 1 /\ i + 1 \in 1..Len(q) /\ i + 1 # 1
  BY <1>1
<1>4. CASE k = 1
  <2>1. Only(r, Harmless)
    BY <1>1, <1>2, <1>3, <1>4 DEF Only
  <2> QED BY <1>1, <1>2, <1>4, <2>1 DEF r
<1>5. CASE k # 1
  <2>1. 1 \in 1..Len(q) /\ Head(q).do \in Harmless
    BY <1>1, <1>2, <1>5
  <2>2. k - 1 \in 1..Len(r) /\ k - 1 \in 1..Len(q) - 1 /\ (k - 1) + 1 = k
    BY <1>1, <1>2, <1>5
  <2>3. \A i \in 1..Len(r) : i = k - 1 \/ i + 1 # k
    BY <1>1, <1>2
  <2>4. r[k - 1].do = "startTx"
    BY <1>1, <1>2, <2>2
  <2>5. \A i \in 1..Len(r) : i = k - 1 \/ r[i].do \in Harmless
    BY <1>1, <1>2, <1>3, <2>3
  <2>6. Starts(r)
    BY <2>2, <2>4, <2>5 DEF Starts
  <2> QED BY <2>1, <2>6 DEF Harmless, r
<1> QED BY <1>4, <1>5

(***************************************************************************)
(* The signals: receivers that failed, then the pipeline's answer.         *)
(***************************************************************************)
LEMMA ErrorsTaken ==
  ASSUME NEW T, NEW g \in Seq(T), g # <<>>, Errors(g)
  PROVE  Head(g).sig = "audioError" /\ Errors(Tail(g))
BY FirstTaken DEF Errors

LEMMA ErrorsPut ==
  ASSUME NEW T, NEW g \in Seq(T), NEW s \in T, Errors(g)
  PROVE  /\ s.sig = "audioError" => Errors(Append(g, s))
         /\ s.sig \in {"txAudioReady", "transmitFailed"} => Replied(Append(g, s))
<1>1. \A i \in 1..Len(g) + 1 : i = Len(g) + 1 \/ i \in 1..Len(g)
  BY LastPut
<1>2. (Len(g) + 1) - 1 = Len(g) /\ Len(g) + 1 > 0
  BY LastPut
<1> QED BY <1>1, <1>2, LastPut DEF Errors, Replied

LEMMA ReplyTaken ==
  ASSUME NEW T, NEW g \in Seq(T), g # <<>>, Replied(g)
  PROVE  \/ Head(g).sig = "audioError" /\ Replied(Tail(g))
         \/ Head(g).sig \in {"txAudioReady", "transmitFailed"} /\ Tail(g) = <<>>
<1> DEFINE r == Tail(g)
<1>1. /\ Len(g) \in Nat /\ Len(g) >= 1 /\ Head(g) = g[1] /\ Len(r) = Len(g) - 1
      /\ r \in Seq(T) /\ \A i \in 1..Len(g) - 1 : r[i] = g[i + 1]
  BY FirstTaken
<1> HIDE DEF r
<1>2. CASE Len(g) = 1
  <2>1. Len(r) = 0
    BY <1>1, <1>2
  <2>2. r = <<>>
    BY <1>1, <2>1, EmptySeq
  <2> QED BY <1>1, <1>2, <2>2 DEF Replied, r
<1>3. CASE Len(g) > 1
  <2>1. 1 \in 1..Len(g) - 1 /\ Len(r) > 0 /\ Len(r) \in 1..Len(g) - 1 /\ Len(r) + 1 = Len(g)
    BY <1>1, <1>3
  <2>2. \A i \in 1..Len(r) - 1 : i \in 1..Len(g) - 1 /\ i + 1 \in 1..Len(g) - 1
    BY <1>1
  <2> QED BY <1>1, <2>1, <2>2 DEF Replied, r
<1> QED BY <1>1, <1>2, <1>3

-----------------------------------------------------------------------------
\* A step of the station is a step of the interlock, or none.
Ordered == Interlock!Next \/ UNCHANGED <<radio, rx, rigKeyed, playing>>

(***************************************************************************)
(* What the worker does with each call when the devices fail only in the   *)
(* ways of an undisturbed station.                                         *)
(***************************************************************************)
LEMMA WorkerDoes ==
  ASSUME Undisturbed, QueueTypes, Dsp!DspStep
  PROVE  /\ dspQ # <<>> /\ dspQ' = Tail(dspQ)
         /\ Head(dspQ).do \in Harmless => UNCHANGED <<rx, playing, guiQ>>
         /\ Head(dspQ).do = "stopRx" => rx' = FALSE /\ UNCHANGED <<playing, guiQ>>
         /\ Head(dspQ).do = "startRx" =>
              /\ UNCHANGED playing /\ rx' \in BOOLEAN
              /\ \/ UNCHANGED guiQ
                 \/ \E s \in Signalled : s.sig = "audioError" /\ guiQ' = Append(guiQ, s)
         /\ Head(dspQ).do = "transmit" =>
              /\ UNCHANGED <<rx, playing>>
              /\ \E s \in Signalled : /\ s.sig \in {"txAudioReady", "transmitFailed"}
                                      /\ guiQ' = Append(guiQ, s)
         /\ Head(dspQ).do = "startTx" =>
              /\ UNCHANGED rx
              /\ \/ playing' # 0 /\ UNCHANGED guiQ
                 \/ /\ playing' = 0
                    /\ \E s \in Signalled : s.sig = "audioError" /\ guiQ' = Append(guiQ, s)
<1> DEFINE error == [sig |-> "audioError", job |-> Dsp!None]
<1>1. error \in Signalled /\ error.sig = "audioError"
  BY DEF Signalled, Notice, Dsp!Signals
<1>2. dspQ # <<>> /\ dspQ' = Tail(dspQ)
  BY DEF Dsp!DspStep, Dsp!StopRx, Dsp!StartRx, Dsp!StartTx, Dsp!StopAll, Dsp!Transmit,
     Dsp!PipeDone, Dsp!SetMode, Dsp!RequestToneSweepAudio, Dsp!Takes
<1>3. Head(dspQ) \in Posted
  BY <1>2 DEF QueueTypes
<1>4. CASE Dsp!StopRx
  BY <1>2, <1>4 DEF Dsp!StopRx, Dsp!Takes, Harmless
<1>5. CASE Dsp!StartRx
  BY <1>1, <1>2, <1>5 DEF Dsp!StartRx, Dsp!Takes, Dsp!Emit, Harmless
<1>6. CASE Dsp!StartTx
  <2>1. Head(dspQ).do = "startTx" /\ rx' = rx
    BY <1>6 DEF Dsp!StartTx, Dsp!Takes
  <2>2. Head(dspQ).job # 0
    BY <1>3, <2>1, Kinds DEF Posted, Plain, Dsp!None
  <2>3. \/ playing' = Head(dspQ).job /\ UNCHANGED guiQ
        \/ playing' = 0 /\ guiQ' = Append(guiQ, error)
    BY <1>6 DEF Dsp!StartTx, Dsp!Emit, Dsp!Arg, Dsp!None, Undisturbed
  <2> QED BY <1>1, <1>2, <2>1, <2>2, <2>3 DEF Harmless
<1>7. CASE Dsp!Transmit
  <2>1. Head(dspQ).do = "transmit" /\ UNCHANGED <<rx, playing>>
    BY <1>7 DEF Dsp!Transmit, Dsp!Takes
  <2>2. Head(dspQ).job \in Dsp!Jobs
    BY <1>3, <2>1 DEF Posted, Plain
  <2> DEFINE failed == [sig |-> "transmitFailed", job |-> Dsp!None]
             ready == [sig |-> "txAudioReady", job |-> Head(dspQ).job]
  <2>3. failed \in Signalled /\ ready \in Signalled
    BY <2>2 DEF Signalled, Notice, Dsp!Signals
  <2>4. guiQ' = Append(guiQ, failed) \/ guiQ' = Append(guiQ, ready)
    BY <1>7 DEF Dsp!Transmit, Dsp!Emit, Dsp!Arg
  <2>5. failed.sig = "transmitFailed" /\ ready.sig = "txAudioReady"
    OBVIOUS
  <2> HIDE DEF failed, ready
  <2> QED BY <1>2, <2>1, <2>3, <2>4, <2>5 DEF Harmless
<1>8. CASE Dsp!PipeDone \/ Dsp!SetMode
  BY <1>2, <1>8 DEF Dsp!PipeDone, Dsp!SetMode, Dsp!Takes, Harmless
<1>9. CASE Dsp!StopAll \/ Dsp!RequestToneSweepAudio
  BY <1>2, <1>9 DEF Dsp!StopAll, Dsp!RequestToneSweepAudio, Dsp!Takes, Harmless
<1> QED BY <1>4, <1>5, <1>6, <1>7, <1>8, <1>9 DEF Dsp!DspStep

(***************************************************************************)
(* The worker's steps, stage by stage.                                     *)
(***************************************************************************)
LEMMA WorkerInOrder ==
  ASSUME Undisturbed, QueueTypes, SessionInv, Worker
  PROVE  SessionInv' /\ Ordered
<1> DEFINE do == Head(dspQ).do
<1>1. /\ UNCHANGED <<rigKeyed, watchdog, pttKeyed, line, doomed, closed, modal, sweep,
                     radio, uiOn, awaiting, leads, tails>>
      /\ Dsp!DspStep
  BY DEF Worker, pttVars, guiVars
<1>2. Calm /\ Calm'
  BY <1>1 DEF SessionInv, Calm
<1>3. dspQ \in Seq(Posted) /\ guiQ \in Seq(Signalled)
  BY DEF QueueTypes
<1>4. dspQ # <<>> /\ dspQ' = Tail(dspQ)
  BY <1>1, WorkerDoes
<1>5. do \in Harmless => UNCHANGED <<rx, playing, guiQ>>
  BY <1>1, WorkerDoes
<1>6. do = "stopRx" => rx' = FALSE /\ UNCHANGED <<playing, guiQ>>
  BY <1>1, WorkerDoes
<1>7. do = "startRx" =>
        /\ UNCHANGED playing /\ rx' \in BOOLEAN
        /\ \/ UNCHANGED guiQ
           \/ \E s \in Signalled : s.sig = "audioError" /\ guiQ' = Append(guiQ, s)
  BY <1>1, WorkerDoes
<1>8. Restful = Harmless \cup {"startRx"}
  BY DEF Restful, Harmless
<1>9. ASSUME Errors(guiQ), do \in Restful \cup {"stopRx"} PROVE Errors(guiQ') /\ playing' = playing
  BY <1>3, <1>5, <1>6, <1>7, <1>8, <1>9, ErrorsPut
<1>10. ASSUME KeyFree, do \in Restful \cup {"stopRx"} PROVE KeyFree' /\ Ordered
  <2>1. playing' = playing /\ (rx' = rx \/ rx' = TRUE \/ rx' = FALSE)
    BY <1>5, <1>6, <1>7, <1>8, <1>10
  <2>2. KeyFree'
    BY <1>1, <1>10, <2>1 DEF KeyFree
  <2>3. Ordered
    BY <1>1, <1>10, <2>1 DEF KeyFree, Ordered, Interlock!Next, Interlock!StartReceiving,
       Interlock!StopReceiving
  <2> QED BY <2>2, <2>3
<1>11. ASSUME Only(dspQ, Harmless)
       PROVE  Only(dspQ', Harmless) /\ UNCHANGED <<rx, playing, guiQ>> /\ Ordered
  <2>1. do \in Harmless /\ Only(Tail(dspQ), Harmless)
    BY <1>3, <1>4, <1>11, OnlyTaken
  <2> QED BY <1>1, <1>4, <1>5, <2>1 DEF Ordered
<1>12. CASE AtRest
  <2>1. do \in Restful /\ Only(dspQ', Restful)
    BY <1>3, <1>4, <1>12, OnlyTaken DEF AtRest
  <2>2. KeyFree' /\ Ordered /\ Errors(guiQ')
    BY <1>9, <1>10, <1>12, <2>1 DEF AtRest
  <2> QED BY <1>1, <1>2, <1>12, <2>1, <2>2 DEF AtRest, SessionInv, Stages
<1>13. CASE Asking
  <2>1. CASE do = "transmit"
    <3>1. ~rx /\ Only(dspQ', Harmless)
      BY <1>3, <1>4, <1>13, <2>1, AskingEnds DEF Asking
    <3>2. PICK s \in Signalled : /\ s.sig \in {"txAudioReady", "transmitFailed"}
                                 /\ guiQ' = Append(guiQ, s) /\ UNCHANGED <<rx, playing>>
      BY <1>1, <2>1, WorkerDoes
    <3>3. Replied(guiQ')
      BY <1>3, <1>13, <3>2, ErrorsPut DEF Asking
    <3>4. Prepared'
      BY <1>1, <1>13, <3>1, <3>2, <3>3 DEF Asking, Prepared, KeyFree
    <3> QED BY <1>1, <1>2, <3>2, <3>4 DEF SessionInv, Stages, Ordered
  <2>2. CASE do # "transmit"
    <3>1. do = "stopRx" => ~rx'
      BY <1>6
    <3>2. do \in Restful \cup {"stopRx"} /\ Asks(dspQ', rx')
      BY <1>3, <1>4, <1>13, <2>2, <3>1, AskingTaken DEF Asking
    <3>3. KeyFree' /\ Ordered /\ Errors(guiQ')
      BY <1>9, <1>10, <1>13, <3>2 DEF Asking
    <3>4. Asking'
      BY <1>1, <1>13, <3>2, <3>3 DEF Asking
    <3> QED BY <1>2, <3>3, <3>4 DEF SessionInv, Stages
  <2> QED BY <2>1, <2>2
<1>14. CASE Starting
  <2>1. CASE do = "startTx"
    <3>1. Only(dspQ', Harmless)
      BY <1>3, <1>4, <1>14, <2>1, StartTaken DEF Starting
    <3>2. /\ UNCHANGED rx
          /\ \/ playing' # 0 /\ UNCHANGED guiQ
             \/ /\ playing' = 0
                /\ \E s \in Signalled : s.sig = "audioError" /\ guiQ' = Append(guiQ, s)
      BY <1>1, <2>1, WorkerDoes
    <3>3. OnAir /\ OnAir' /\ guiQ = <<>> /\ playing = 0
      BY <1>1, <1>14, <3>2 DEF OnAir, Starting
    <3>4. CASE playing' # 0 /\ UNCHANGED guiQ
      <4>1. Sounding'
        BY <1>1, <1>14, <3>1, <3>3, <3>4 DEF Starting, Sounding
      <4>2. Interlock!StartAudio
        BY <1>1, <1>2, <3>2, <3>3, <3>4 DEF Interlock!StartAudio, OnAir, Calm
      <4> QED BY <1>2, <4>1, <4>2 DEF SessionInv, Stages, Ordered, Interlock!Next
    <3>5. ASSUME playing' = 0, NEW s \in Signalled, s.sig = "audioError",
                 guiQ' = Append(guiQ, s)
          PROVE  SessionInv' /\ Ordered
      <4>1. Len(guiQ') = 1 /\ guiQ'[1].sig = "audioError"
        BY <3>3, <3>5
      <4>2. Ended'
        BY <1>1, <1>14, <3>1, <3>3, <3>5, <4>1 DEF Starting, Ended
      <4> QED BY <1>1, <1>2, <3>2, <3>3, <3>5, <4>2 DEF SessionInv, Stages, Ordered
    <3> QED BY <3>2, <3>4, <3>5
  <2>2. CASE do # "startTx"
    <3>1. do \in Harmless /\ Starts(dspQ')
      BY <1>3, <1>4, <1>14, <2>2, StartTaken DEF Starting
    <3>2. UNCHANGED <<rx, playing, guiQ>>
      BY <1>5, <3>1
    <3>3. Starting'
      BY <1>1, <1>14, <3>1, <3>2 DEF Starting, OnAir
    <3> QED BY <1>1, <1>2, <3>2, <3>3 DEF SessionInv, Stages, Ordered
  <2> QED BY <2>1, <2>2
<1>15. CASE Prepared
  BY <1>1, <1>2, <1>11, <1>15 DEF Prepared, KeyFree, SessionInv, Stages
<1>16. CASE Leading
  BY <1>1, <1>2, <1>11, <1>16 DEF Leading, OnAir, SessionInv, Stages
<1>17. CASE Sounding
  BY <1>1, <1>2, <1>11, <1>17 DEF Sounding, OnAir, SessionInv, Stages
<1>18. CASE Ended
  BY <1>1, <1>2, <1>11, <1>18 DEF Ended, OnAir, SessionInv, Stages
<1>19. CASE Trailing
  BY <1>1, <1>2, <1>11, <1>19 DEF Trailing, SessionInv, Stages
<1> QED
  BY <1>12, <1>13, <1>14, <1>15, <1>16, <1>17, <1>18, <1>19 DEF SessionInv, Stages

(***************************************************************************)
(* A txOff() of an undisturbed station runs to its end, and unkeys.        *)
(***************************************************************************)
LEMMA TxOffUnkeys ==
  ASSUME Undisturbed, Calm, NEW caller, NEW before, NEW after, TxOff(caller, before, after)
  PROVE  /\ ~rigKeyed' /\ ~watchdog'
         /\ dspQ' = dspQ \o (before \o after)
         /\ UNCHANGED <<line, doomed, closed, modal>>
<1>1. ASSUME NEW released \in BOOLEAN, line = "up", Ptt!Release(line, released)
      PROVE  released /\ ~rigKeyed'
  <2>1. PICK n \in 1..UnkeyAttempts : \E run \in [1..n -> Replies] :
          /\ released = run[n].ok
          /\ rigKeyed' = (rigKeyed /\ ~\E i \in 1..n : run[i].acts)
    BY <1>1 DEF Ptt!Release, Ptt!Answers
  <2>2. PICK run \in [1..n -> Replies] :
          /\ released = run[n].ok
          /\ rigKeyed' = (rigKeyed /\ ~\E i \in 1..n : run[i].acts)
    BY <2>1
  <2>3. n \in 1..n
    BY AttemptsAssumption
  <2>4. run[n] = [ok |-> TRUE, acts |-> TRUE]
    BY <2>2, <2>3 DEF Undisturbed
  <2>5. run[n].ok = TRUE /\ run[n].acts = TRUE
    BY <2>4
  <2> QED BY <2>2, <2>3, <2>5
<1>2. pttKeyed /\ line # "null" => line = "up"
  BY DEF Calm
<1>3. ~Ptt!TxOffAlarms
  BY <1>1, <1>2 DEF Ptt!TxOffAlarms
<1>4. Ptt!TxOffCompletes /\ Post(before \o after) /\ UNCHANGED <<line, doomed, closed, modal>>
  BY <1>3 DEF TxOff
<1>5. ~rigKeyed'
  <2>1. CASE pttKeyed /\ line # "null"
    BY <1>1, <1>2, <1>4, <2>1 DEF Ptt!TxOffCompletes
  <2>2. CASE ~(pttKeyed /\ line # "null")
    BY <1>4, <2>2 DEF Ptt!TxOffCompletes, Calm
  <2> QED BY <2>1, <2>2
<1> QED BY <1>4, <1>5 DEF Post, Ptt!TxOffCompletes

(***************************************************************************)
(* requestTX() over a live link: granted, the rig is keyed; refused,       *)
(* because a session was not closed, nothing has changed.                  *)
(***************************************************************************)
LEMMA RequestKeys ==
  ASSUME Undisturbed, line = "up", NEW granted \in BOOLEAN, RequestTX(granted)
  PROVE  /\ UNCHANGED <<line, doomed, closed>>
         /\ granted => rigKeyed' /\ pttKeyed'
         /\ ~granted => UNCHANGED <<rigKeyed, pttKeyed, watchdog>>
<1>1. UNCHANGED <<line, doomed, closed>> /\ Ptt!RequestTX(granted)
  BY DEF RequestTX
<1>2. \A r \in Replies : r.ok = TRUE /\ r.acts = TRUE
  BY DEF Undisturbed
<1> QED BY <1>1, <1>2 DEF Ptt!RequestTX, Ptt!Answers

(***************************************************************************)
(* The calls the handlers post.                                            *)
(***************************************************************************)
LEMMA Posts ==
  /\ StopListening = <<Dsp!Call("stopRx")>> /\ Dsp!Call("stopRx") \in Posted
  /\ Listen = <<Dsp!Call("startRx")>> /\ Dsp!Call("startRx") \in Posted
  /\ GiveUp = <<Dsp!Call("pipeDone")>> /\ Dsp!Call("pipeDone") \in Posted
  /\ Dsp!Call("setMode") \in Posted
  /\ \A do : Dsp!Call(do).do = do
  /\ \A do, job : Dsp!CallFor(do, job).do = do
  /\ \A a \in Dsp!Audio :
       Play(a) = <<Dsp!CallFor("startTx", a)>> /\ Dsp!CallFor("startTx", a) \in Posted
  /\ \A j \in Dsp!Jobs : Dsp!CallFor("transmit", j) \in Posted
BY Kinds DEF StopListening, Listen, GiveUp, Play, Dsp!Call, Dsp!CallFor, Posted, Plain,
   Dsp!Calls

LEMMA HarmlessIsRestful ==
  ASSUME NEW q, Only(q, Harmless)
  PROVE  Only(q, Restful)
BY DEF Only, Harmless, Restful

(***************************************************************************)
(* onTxComplete() starts a message's tail.                                 *)
(***************************************************************************)
LEMMA CompleteTrails ==
  ASSUME Calm, tails = <<>>, Complete
  PROVE  ~awaiting' /\ ~sweep' /\ uiOn' /\ tails' = <<"msg">>
<1>1. awaiting' = FALSE /\ sweep' = FALSE
  BY DEF Complete
<1>2. uiOn' = (uiOn \/ ~sweep) /\ ~sweep
  BY DEF Complete, Calm
<1>3. uiOn'
  BY <1>2, Zenon
<1>4. tails' = Append(<<>>, "msg")
  BY DEF Complete, Calm
<1> QED BY <1>1, <1>3, <1>4

(***************************************************************************)
(* onTransmit(): only a station at rest has its button enabled.            *)
(***************************************************************************)
LEMMA OnTransmitInOrder ==
  ASSUME Undisturbed, QueueTypes, SessionInv, OnTransmit
  PROVE  SessionInv' /\ Ordered
<1>1. /\ uiOn /\ tails = <<>> /\ jobs < MaxJobs /\ uiOn' = FALSE
      /\ dspQ' = dspQ \o (StopListening \o <<Dsp!CallFor("transmit", jobs + 1)>>)
      /\ UNCHANGED <<pttVars, dspOnly, guiQ, radio, awaiting, sweep, leads, tails, modal>>
  BY DEF OnTransmit, Undisturbed, Post
<1>2. AtRest
  BY <1>1 DEF SessionInv, Stages, Asking, Prepared, Leading, Starting, Sounding, Ended,
     OnAir, Trailing
<1>3. Dsp!CallFor("transmit", jobs + 1) \in Posted
  <2>1. jobs + 1 \in Dsp!Jobs
    BY <1>1, JobsAssumption DEF QueueTypes, Dsp!Jobs
  <2> QED BY <2>1, Posts
<1>4. Asks(dspQ', rx)
  BY <1>1, <1>2, <1>3, Posts, AskingBegins DEF QueueTypes, AtRest
<1>5. rx' = rx /\ Asking'
  BY <1>1, <1>2, <1>4 DEF AtRest, Asking, KeyFree, dspOnly, pttVars
<1>6. Calm'
  BY <1>1 DEF SessionInv, Calm, pttVars
<1> QED BY <1>1, <1>5, <1>6 DEF SessionInv, Stages, Ordered, dspOnly, pttVars

(***************************************************************************)
(* onTransmitFailed().                                                     *)
(***************************************************************************)
LEMMA OnTransmitFailedInOrder ==
  ASSUME Undisturbed, QueueTypes, SessionInv, OnTransmitFailed
  PROVE  SessionInv' /\ Ordered
<1>1. /\ guiQ # <<>> /\ Head(guiQ).sig = "transmitFailed" /\ guiQ' = Tail(guiQ)
      /\ uiOn' = TRUE /\ dspQ' = dspQ \o Listen
      /\ UNCHANGED <<pttVars, dspOnly, radio, awaiting, sweep, leads, tails, modal>>
  BY DEF OnTransmitFailed, Hears, Post
<1>2. Prepared
  BY <1>1, ErrorsTaken DEF SessionInv, Stages, AtRest, Asking, Leading, Starting, Sounding,
     Ended, Trailing, QueueTypes
<1>3. guiQ' = <<>>
  BY <1>1, <1>2, ReplyTaken DEF Prepared, QueueTypes
<1>4. Only(dspQ', Restful)
  <2>1. Dsp!Call("startRx").do \in Restful
    BY Posts DEF Restful
  <2> QED BY <1>1, <1>2, <2>1, HarmlessIsRestful, Posts, OnlyPut DEF Prepared, QueueTypes
<1>5. Errors(guiQ')
  BY <1>3 DEF Errors
<1>6. AtRest'
  BY <1>1, <1>2, <1>4, <1>5 DEF Prepared, AtRest, KeyFree, dspOnly, pttVars
<1>7. Calm'
  BY <1>1 DEF SessionInv, Calm, pttVars
<1> QED BY <1>1, <1>6, <1>7 DEF SessionInv, Stages, Ordered, dspOnly, pttVars

(***************************************************************************)
(* The txAudioReady handler: the receiver is off by now.                   *)
(***************************************************************************)
LEMMA OnTxAudioReadyInOrder ==
  ASSUME Undisturbed, QueueTypes, SessionInv, OnTxAudioReady
  PROVE  SessionInv' /\ Ordered
<1>1. /\ guiQ # <<>> /\ Head(guiQ).sig = "txAudioReady" /\ guiQ' = Tail(guiQ)
      /\ UNCHANGED <<dspOnly, radio, modal>>
  BY DEF OnTxAudioReady, Hears
<1>2. Prepared
  BY <1>1, ErrorsTaken DEF SessionInv, Stages, AtRest, Asking, Leading, Starting, Sounding,
     Ended, Trailing, QueueTypes
<1>3. guiQ' = <<>>
  BY <1>1, <1>2, ReplyTaken DEF Prepared, QueueTypes
<1>4. UNCHANGED <<rx, playing>> /\ ~rx /\ playing = 0 /\ leads = <<>> /\ tails = <<>>
      /\ ~rigKeyed /\ ~uiOn /\ ~awaiting /\ Only(dspQ, Harmless)
  BY <1>1, <1>2 DEF dspOnly, Prepared, KeyFree
<1>5. Calm
  BY DEF SessionInv
<1>6. Heard \in Dsp!Audio
  <2>1. Head(guiQ) \in Signalled
    BY <1>1 DEF QueueTypes
  <2> QED BY <1>1, <2>1, Kinds DEF Signalled, Notice, Heard
<1>7. CASE /\ radio = "up" /\ RequestTX(TRUE) /\ leads' = Append(leads, Heard)
           /\ UNCHANGED <<dspQ, uiOn, awaiting, sweep, tails, refused>>
  <2>1. line = "up" /\ UNCHANGED <<line, doomed, closed>> /\ rigKeyed' /\ pttKeyed'
    BY <1>5, <1>7, RequestKeys DEF Calm
  <2>2. Len(leads') = 1
    BY <1>4, <1>7
  <2>3. Leading'
    BY <1>1, <1>3, <1>4, <1>7, <2>1, <2>2 DEF Leading, OnAir
  <2>4. Calm'
    BY <1>1, <1>5, <1>7, <2>1 DEF Calm
  <2>5. Interlock!Key
    BY <1>1, <1>4, <1>7, <2>1 DEF Interlock!Key
  <2> QED BY <2>3, <2>4, <2>5 DEF SessionInv, Stages, Ordered, Interlock!Next
<1>8. CASE radio = "up" /\ RequestTX(FALSE) /\ Post(GiveUp) /\ Complete /\ UNCHANGED leads
  <2>1. UNCHANGED <<line, doomed, closed, rigKeyed, pttKeyed>>
    BY <1>5, <1>8, RequestKeys DEF Calm
  <2>2. ~awaiting' /\ ~sweep' /\ uiOn' /\ tails' = <<"msg">>
    BY <1>4, <1>5, <1>8, CompleteTrails
  <2>3. Only(dspQ', Harmless)
    <3>1. Dsp!Call("pipeDone").do \in Harmless
      BY Posts DEF Harmless
    <3> QED BY <1>4, <1>8, <3>1, Posts, OnlyPut DEF Post, QueueTypes
  <2>4. Trailing'
    BY <1>3, <1>4, <1>8, <2>2, <2>3 DEF Trailing
  <2>5. Calm'
    BY <1>1, <1>5, <2>1, <2>2 DEF Calm
  <2> QED BY <1>1, <1>4, <2>1, <2>4, <2>5 DEF SessionInv, Stages, Ordered
<1>9. CASE /\ radio # "up" /\ awaiting' = TRUE /\ Post(Play(Heard))
           /\ UNCHANGED <<pttVars, uiOn, sweep, leads, tails, refused>>
  <2>1. Starts(dspQ')
    BY <1>4, <1>6, <1>9, Posts, StartBegins DEF Post, QueueTypes
  <2>2. Starting'
    BY <1>1, <1>3, <1>4, <1>9, <2>1 DEF Starting, OnAir
  <2>3. Calm'
    BY <1>1, <1>5, <1>9 DEF Calm, pttVars
  <2> QED BY <1>1, <1>4, <1>9, <2>2, <2>3 DEF SessionInv, Stages, Ordered, pttVars
<1> QED BY <1>7, <1>8, <1>9 DEF OnTxAudioReady

(***************************************************************************)
(* The lead timer.                                                         *)
(***************************************************************************)
LEMMA LeadElapsedInOrder ==
  ASSUME Undisturbed, QueueTypes, SessionInv, LeadElapsed
  PROVE  SessionInv' /\ Ordered
<1>1. /\ leads # <<>> /\ leads' = Tail(leads) /\ awaiting' = TRUE
      /\ dspQ' = dspQ \o Play(Head(leads))
      /\ UNCHANGED <<pttVars, dspOnly, guiQ, radio, uiOn, sweep, tails, modal>>
  BY DEF LeadElapsed, Post
<1>2. Leading
  BY <1>1 DEF SessionInv, Stages, AtRest, Asking, Prepared, KeyFree, Starting, Sounding,
     Ended, Trailing
<1>3. leads' = <<>> /\ Head(leads) \in Dsp!Audio
  BY <1>1, <1>2 DEF Leading, QueueTypes
<1>4. Starts(dspQ')
  BY <1>1, <1>2, <1>3, Posts, StartBegins DEF Leading, QueueTypes
<1>5. Starting'
  BY <1>1, <1>2, <1>3, <1>4 DEF Leading, Starting, OnAir, dspOnly, pttVars
<1>6. Calm'
  BY <1>1 DEF SessionInv, Calm, pttVars
<1> QED BY <1>1, <1>5, <1>6 DEF SessionInv, Stages, Ordered, dspOnly, pttVars

(***************************************************************************)
(* onTxStartError(): a receiver that failed is ignored; a start that       *)
(* failed ends the message, and unkeys before the tail.                    *)
(***************************************************************************)
LEMMA OnTxStartErrorInOrder ==
  ASSUME Undisturbed, QueueTypes, SessionInv, OnTxStartError
  PROVE  SessionInv' /\ Ordered
<1>1. /\ guiQ # <<>> /\ Head(guiQ).sig = "audioError" /\ guiQ' = Tail(guiQ)
      /\ UNCHANGED <<rx, playing, radio, leads>>
  BY DEF OnTxStartError, Hears, dspOnly
<1>2. Calm /\ guiQ \in Seq(Signalled) /\ dspQ \in Seq(Posted)
  BY DEF SessionInv, QueueTypes
<1>3. CASE AtRest \/ Asking \/ Prepared
  <2>1. KeyFree /\ UNCHANGED <<pttVars, dspQ, uiOn, awaiting, sweep, tails, modal>>
    BY <1>3 DEF OnTxStartError, AtRest, Asking, Prepared, KeyFree
  <2>2. KeyFree' /\ Calm' /\ Ordered
    BY <1>1, <1>2, <2>1 DEF KeyFree, Calm, Ordered, pttVars
  <2>3. Errors(guiQ) => Errors(guiQ')
    BY <1>1, <1>2, ErrorsTaken
  <2>4. Replied(guiQ) => Replied(guiQ')
    BY <1>1, <1>2, ReplyTaken
  <2> QED BY <1>1, <1>3, <2>1, <2>2, <2>3, <2>4
       DEF AtRest, Asking, Prepared, SessionInv, Stages
<1>4. CASE Ended
  <2>1. guiQ' = <<>> /\ awaiting /\ tails = <<>> /\ playing = 0 /\ ~rx /\ Only(dspQ, Harmless)
        /\ leads = <<>>
    BY <1>1, <1>2, <1>4 DEF Ended, OnAir
  <2>2. Complete /\ TxOff("none", GiveUp, <<>>)
    BY <1>2, <2>1 DEF OnTxStartError, Calm
  <2>3. ~awaiting' /\ ~sweep' /\ uiOn' /\ tails' = <<"msg">>
    BY <1>2, <2>1, <2>2, CompleteTrails
  <2>4. /\ ~rigKeyed' /\ dspQ' = dspQ \o (GiveUp \o <<>>)
        /\ UNCHANGED <<line, doomed, closed, modal>>
    BY <1>2, <2>2, TxOffUnkeys
  <2>5. Only(dspQ', Harmless)
    <3>1. Dsp!Call("pipeDone").do \in Harmless
      BY Posts DEF Harmless
    <3>2. GiveUp \o <<>> = <<Dsp!Call("pipeDone")>>
      BY Posts
    <3> QED BY <1>2, <2>1, <2>4, <3>1, <3>2, Posts, OnlyPut
  <2>6. Trailing'
    BY <1>1, <2>1, <2>3, <2>5 DEF Trailing
  <2>7. Calm'
    BY <1>1, <1>2, <2>3, <2>4 DEF Calm
  <2>8. Interlock!Unkey \/ UNCHANGED <<radio, rx, rigKeyed, playing>>
    <3>1. rigKeyed' = FALSE
      BY <2>2, <2>4 DEF TxOff, Ptt!TxOffCompletes, Ptt!TxOffAlarms, Ptt!Release
    <3> QED BY <1>1, <2>1, <3>1 DEF Interlock!Unkey
  <2> QED BY <2>6, <2>7, <2>8 DEF SessionInv, Stages, Ordered, Interlock!Next
<1>5. ~(Leading \/ Starting \/ Sounding \/ Trailing)
  BY <1>1 DEF Leading, Starting, Sounding, Trailing
<1> QED BY <1>3, <1>4, <1>5 DEF SessionInv, Stages

(***************************************************************************)
(* onTxComplete(): the audio has ended; the rig stays keyed for the tail.  *)
(***************************************************************************)
LEMMA OnTxCompleteInOrder ==
  ASSUME Undisturbed, QueueTypes, SessionInv, OnTxComplete
  PROVE  SessionInv' /\ Ordered
<1>1. /\ guiQ # <<>> /\ Head(guiQ).sig = "txComplete" /\ guiQ' = Tail(guiQ) /\ Complete
      /\ UNCHANGED <<pttVars, dspOnly, dspQ, radio, leads, modal>>
  BY DEF OnTxComplete, Hears
<1>2. Ended
  BY <1>1, ErrorsTaken, ReplyTaken DEF SessionInv, Stages, AtRest, Asking, Prepared, Leading,
     Starting, Sounding, Trailing, QueueTypes
<1>3. guiQ' = <<>> /\ tails = <<>> /\ Calm
  BY <1>1, <1>2 DEF Ended, OnAir, SessionInv, QueueTypes
<1>4. ~awaiting' /\ ~sweep' /\ uiOn' /\ tails' = <<"msg">>
  BY <1>1, <1>3, CompleteTrails
<1>5. Trailing'
  BY <1>1, <1>2, <1>3, <1>4 DEF Ended, OnAir, Trailing, dspOnly
<1>6. Calm'
  BY <1>1, <1>3, <1>4 DEF Calm, pttVars
<1> QED BY <1>1, <1>5, <1>6 DEF SessionInv, Stages, Ordered, dspOnly, pttVars

(***************************************************************************)
(* The tail timer: the rig is unkeyed, then the receiver asked for.        *)
(***************************************************************************)
LEMMA TailElapsedInOrder ==
  ASSUME Undisturbed, QueueTypes, SessionInv, TailElapsed
  PROVE  SessionInv' /\ Ordered
<1>1. tails # <<>> /\ UNCHANGED <<dspOnly, guiQ, radio, uiOn, awaiting, sweep, leads>>
      /\ tails' = Tail(tails)
      /\ TxOff(Head(tails), <<>>, IF Head(tails) = "msg" THEN Listen ELSE <<>>)
  BY DEF TailElapsed
<1>2. Trailing
  BY <1>1 DEF SessionInv, Stages, AtRest, Asking, Prepared, KeyFree, Leading, Starting,
     Sounding, Ended, OnAir
<1>3. Calm /\ dspQ \in Seq(Posted)
  BY DEF SessionInv, QueueTypes
<1>4. tails' = <<>> /\ TxOff("msg", <<>>, Listen)
  BY <1>1, <1>2 DEF Trailing
<1>5. /\ ~rigKeyed' /\ ~watchdog' /\ dspQ' = dspQ \o (<<>> \o Listen)
      /\ UNCHANGED <<line, doomed, closed, modal>>
  BY <1>3, <1>4, TxOffUnkeys
<1>6. Only(dspQ', Restful)
  <2>1. Dsp!Call("startRx").do \in Restful
    BY Posts DEF Restful
  <2>2. <<>> \o Listen = <<Dsp!Call("startRx")>>
    BY Posts
  <2> QED BY <1>2, <1>3, <1>5, <2>1, <2>2, HarmlessIsRestful, Posts, OnlyPut DEF Trailing
<1>7. AtRest'
  BY <1>1, <1>2, <1>4, <1>5, <1>6 DEF Trailing, AtRest, KeyFree, Errors, dspOnly
<1>8. Calm'
  BY <1>1, <1>3, <1>5 DEF Calm
<1>9. Interlock!Unkey \/ UNCHANGED <<radio, rx, rigKeyed, playing>>
  <2>1. rigKeyed' = FALSE
    BY <1>4, <1>5 DEF TxOff, Ptt!TxOffCompletes, Ptt!TxOffAlarms, Ptt!Release
  <2> QED BY <1>1, <1>2, <2>1 DEF Interlock!Unkey, Trailing, dspOnly
<1> QED BY <1>7, <1>8, <1>9 DEF SessionInv, Stages, Ordered, Interlock!Next

(***************************************************************************)
(* The audio comes to its end.                                             *)
(***************************************************************************)
LEMMA AudioEndsInOrder ==
  ASSUME Undisturbed, QueueTypes, SessionInv, AudioEnds
  PROVE  SessionInv' /\ Ordered
<1>1. /\ playing # 0 /\ playing' = 0
      /\ guiQ' = Append(guiQ, [sig |-> "txComplete", job |-> Dsp!None])
      /\ UNCHANGED <<rx, dspQ, pttVars, guiVars>>
  BY DEF AudioEnds, Dsp!CompletionTimer, Dsp!Emit, Dsp!None
<1>2. Sounding
  BY <1>1 DEF SessionInv, Stages, AtRest, Asking, Prepared, KeyFree, Leading, Starting,
     Ended, Trailing
<1>3. Len(guiQ') = 1 /\ guiQ'[1].sig = "txComplete"
  BY <1>1, <1>2 DEF Sounding
<1>4. Ended'
  BY <1>1, <1>2, <1>3 DEF Sounding, Ended, OnAir, guiVars, pttVars
<1>5. Calm'
  BY <1>1 DEF SessionInv, Calm, pttVars, guiVars
<1>6. Interlock!EndAudio
  BY <1>1 DEF Interlock!EndAudio, guiVars, pttVars
<1> QED BY <1>4, <1>5, <1>6 DEF SessionInv, Stages, Ordered, Interlock!Next

(***************************************************************************)
(* The mode is changed, at any time.                                       *)
(***************************************************************************)
LEMMA OnModeChangedInOrder ==
  ASSUME Undisturbed, QueueTypes, SessionInv, OnModeChanged
  PROVE  SessionInv' /\ Ordered
<1>1. /\ dspQ' = dspQ \o <<Dsp!Call("setMode")>>
      /\ UNCHANGED <<pttVars, rx, playing, guiQ, guiVars>>
  BY DEF OnModeChanged, Post, dspOnly
<1>2. /\ dspQ \in Seq(Posted) /\ Dsp!Call("setMode") \in Posted
      /\ Dsp!Call("setMode").do \in Harmless /\ Dsp!Call("setMode").do \in Restful
  BY Posts DEF QueueTypes, Harmless, Restful
<1>3. Only(dspQ, Harmless) => Only(dspQ', Harmless)
  BY <1>1, <1>2, OnlyPut
<1>4. Only(dspQ, Restful) => Only(dspQ', Restful)
  BY <1>1, <1>2, OnlyPut
<1>5. Asks(dspQ, rx) => Asks(dspQ', rx')
  BY <1>1, <1>2, AskingPut
<1>6. Starts(dspQ) => Starts(dspQ')
  BY <1>1, <1>2, StartPut
<1>7. Calm' /\ Ordered /\ (KeyFree => KeyFree') /\ (OnAir => OnAir')
  BY <1>1 DEF SessionInv, Calm, Ordered, KeyFree, OnAir, pttVars, guiVars
<1> QED BY <1>1, <1>3, <1>4, <1>5, <1>6, <1>7
     DEF SessionInv, Stages, AtRest, Asking, Prepared, Leading, Starting, Sounding, Ended,
         Trailing, guiVars

(***************************************************************************)
(* The watchdog of an undisturbed station never trips: while it runs,      *)
(* something is always about to happen.                                    *)
(***************************************************************************)
LEMMA WatchdogSleeps ==
  ASSUME Undisturbed, SessionInv
  PROVE  ~WatchdogTrips
<1> SUFFICES ASSUME WatchdogTrips PROVE FALSE
  OBVIOUS
<1>1. /\ watchdog /\ dspQ = <<>> /\ guiQ = <<>> /\ leads = <<>> /\ tails = <<>>
      /\ playing = 0
  BY DEF WatchdogTrips, Undisturbed, Dsp!None
<1>2. ~Starts(dspQ)
  BY <1>1 DEF Starts
<1> QED BY <1>1, <1>2 DEF SessionInv, Stages, AtRest, Asking, Prepared, KeyFree, Leading,
     Starting, Sounding, Ended, Trailing

(***************************************************************************)
(* Every step of an undisturbed station keeps to the stages of a message   *)
(* and to the order of the interlock.                                      *)
(***************************************************************************)
LEMMA StepInOrder ==
  ASSUME Undisturbed, QueueTypes, SessionInv, [Next]_vars
  PROVE  SessionInv' /\ Ordered
<1>1. CASE OnTransmit \/ OnTransmitFailed \/ OnTxAudioReady \/ OnTxStartError \/ OnTxComplete
  BY <1>1, OnTransmitInOrder, OnTransmitFailedInOrder, OnTxAudioReadyInOrder,
     OnTxStartErrorInOrder, OnTxCompleteInOrder
<1>2. CASE LeadElapsed \/ TailElapsed \/ Worker \/ AudioEnds \/ OnModeChanged
  BY <1>2, LeadElapsedInOrder, TailElapsedInOrder, WorkerInOrder, AudioEndsInOrder,
     OnModeChangedInOrder
<1>3. ~OnToneSweepAudioReady
  <2> SUFFICES ASSUME guiQ # <<>>, Head(guiQ).sig = "sweepReady" PROVE FALSE
    BY DEF OnToneSweepAudioReady, Hears
  <2> QED BY ErrorsTaken, ReplyTaken DEF QueueTypes, SessionInv, Stages, AtRest, Asking,
       Prepared, Leading, Starting, Sounding, Ended, Trailing
<1>4. ~WatchdogTrips
  BY WatchdogSleeps
<1>5. ~Dismiss /\ ~RadioConnects /\ ~OldManagerDestroyed
  BY DEF Dismiss, RadioConnects, OldManagerDestroyed, SessionInv, Calm, Ptt!Destroy
<1>6. /\ ~OnToneSweepTx /\ ~OnSettingsChanged /\ ~RadioReconfigured /\ ~RadioDrops /\ ~Quit
  BY DEF OnToneSweepTx, OnSettingsChanged, RadioReconfigured, RadioDrops, Quit, Disturb,
     Undisturbed
<1>7. CASE UNCHANGED vars
  <2>1. UNCHANGED <<modal, doomed, sweep, closed, radio, line, rigKeyed, pttKeyed, watchdog,
                    playing, awaiting, leads, tails, uiOn, rx, dspQ, guiQ>>
    BY <1>7 DEF vars, pttVars, dspVars, guiVars
  <2> QED BY <2>1 DEF SessionInv, Calm, Stages, AtRest, Asking, Prepared, KeyFree, Leading,
       Starting, Sounding, Ended, Trailing, OnAir, Ordered
<1> QED BY <1>1, <1>2, <1>3, <1>4, <1>5, <1>6, <1>7 DEF Next, Handler

(***************************************************************************)
(* An undisturbed station keeps the order a half-duplex rig needs, for any *)
(* number of messages and changes of mode: receiver off, key, lead, audio, *)
(* tail, unkey, receiver on - also when a device fails to start            *)
(* (MainWindow.cpp's onTransmit() to onTxComplete(), ADR-071, ADR-073).    *)
(***************************************************************************)
THEOREM UndisturbedImplementsInterlock == ASSUME Undisturbed PROVE Spec => ImplementsInterlock
<1>1. Init => SessionInv /\ Interlock!Init
  <2> SUFFICES ASSUME Init PROVE SessionInv /\ Interlock!Init
    OBVIOUS
  <2>1. /\ rx = TRUE /\ playing = 0 /\ dspQ = <<>> /\ guiQ = <<>> /\ uiOn = TRUE
        /\ awaiting = FALSE /\ sweep = FALSE /\ leads = <<>> /\ tails = <<>> /\ modal = <<>>
        /\ rigKeyed = FALSE /\ watchdog = FALSE /\ doomed = {} /\ closed = FALSE
        /\ line \in {"null", "up"} /\ radio = IF line = "up" THEN "up" ELSE "none"
    BY DEF Init, Ptt!Init, Dsp!DspInit, Dsp!None
  <2>2. Only(dspQ, Restful) /\ Errors(guiQ)
    BY <2>1 DEF Only, Errors
  <2>3. SessionInv
    BY <2>1, <2>2 DEF SessionInv, Calm, Stages, AtRest, KeyFree
  <2>4. Interlock!Init
    BY <2>1 DEF Interlock!Init
  <2> QED BY <2>3, <2>4
<1>2. QueueInv /\ SessionInv /\ [Next]_vars => SessionInv' /\ [Interlock!Next]_(Interlock!vars)
  <2> SUFFICES ASSUME QueueInv, SessionInv, [Next]_vars
               PROVE  SessionInv' /\ [Interlock!Next]_(Interlock!vars)
    OBVIOUS
  <2>1. SessionInv' /\ Ordered
    BY StepInOrder DEF QueueInv
  <2>2. UNCHANGED <<radio, rx, rigKeyed, playing>> => UNCHANGED Interlock!vars
    BY DEF Interlock!vars
  <2> QED BY <2>1, <2>2 DEF Ordered
<1> QED BY <1>1, <1>2, InitQueues, NextQueues, PTL DEF Spec, ImplementsInterlock, Interlock!Spec
=============================================================================
