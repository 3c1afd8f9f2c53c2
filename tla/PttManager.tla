----------------------------- MODULE PttManager -----------------------------
(***************************************************************************)
(* src/radio/PTTManager: the object that keys and unkeys the transceiver,  *)
(* with the 120 s watchdog, seen together with the rig it talks to and     *)
(* with MainWindow's habit of replacing it each time a radio connects.     *)
(*                                                                         *)
(* txOff() is not atomic.  When the rig does not confirm the release it    *)
(* emits pttReleaseFailed(), whose slot opens a modal alarm and so runs a  *)
(* nested event loop; the rest of txOff() runs when the alarm is closed.   *)
(* Meanwhile other calls, a failing txOff() among them, reach the manager. *)
(***************************************************************************)
EXTENDS Naturals

CONSTANTS
  Replies,        \* what one setPTT() call over a live link can amount to
  UnkeyAttempts   \* UNKEY_ATTEMPTS

(***************************************************************************)
(* A reply says whether setPTT() returned true (ok) and whether the rig    *)
(* obeyed (acts).  A rigctld answer lost after the command was executed is *)
(* [ok |-> FALSE, acts |-> TRUE]; a TCI frame lost on its way is           *)
(* [ok |-> TRUE, acts |-> FALSE].                                          *)
(***************************************************************************)
Reply == [ok : BOOLEAN, acts : BOOLEAN]

ASSUME RepliesAssumption == Replies \subseteq Reply
ASSUME AttemptsAssumption == UnkeyAttempts \in Nat \ {0}

VARIABLES
  line,          \* what m_radio points to: nothing, a client whose link is
                 \* down or up, or a client MainWindow has since destroyed
  rigKeyed,      \* the transceiver's own PTT line
  transmitting,  \* m_transmitting
  pttKeyed,      \* m_pttKeyed
  watchdog,      \* m_watchdog.isActive()
  alarmOpen,     \* some txOff() call is suspended in pttReleaseFailed()
  doomed,        \* replaced managers that held a key and await deleteLater(),
                 \* by what their m_radio points to
  closed,        \* the application has been closed
  alarmed,       \* history: a release failed, none was confirmed since
  misreported    \* history: a setPTT() result contradicted the rig

vars == <<line, rigKeyed, transmitting, pttKeyed, watchdog, alarmOpen, doomed,
          closed, alarmed, misreported>>

Lines == {"null", "down", "up", "gone"}

\* The type invariant of the manager's fields and of the history kept with
\* them; a manager that was given no radio never believes that it holds a key.
TypeOK ==
  /\ line \in Lines
  /\ doomed \subseteq {"same", "gone"}
  /\ {rigKeyed, transmitting, pttKeyed, watchdog, alarmOpen, closed, alarmed,
      misreported} \subseteq BOOLEAN
  /\ line = "null" => ~pttKeyed

Init ==
  /\ line \in {"null", "up"}
  /\ rigKeyed = FALSE /\ transmitting = FALSE /\ pttKeyed = FALSE
  /\ watchdog = FALSE /\ alarmOpen = FALSE /\ doomed = {} /\ closed = FALSE
  /\ alarmed = FALSE /\ misreported = FALSE

-----------------------------------------------------------------------------
(* What setPTT() may amount to over a line in a given state. A call through *)
(* a client that no longer exists has no defined outcome.                   *)
Answers(l) ==
  CASE l = "up"   -> Replies
    [] l = "gone" -> Reply
    [] OTHER      -> {[ok |-> FALSE, acts |-> FALSE]}

\* Mutant: the key is recorded without asking for a radio.
RequestTXKeysAlways(granted) ==
  /\ granted = ~transmitting
  /\ transmitting' = TRUE /\ watchdog' = TRUE /\ pttKeyed' = TRUE
  /\ UNCHANGED <<rigKeyed, misreported>>

(* requestTX() and what it returns. With no live link there is no key to    *)
(* take and the manager only counts as transmitting (VOX).                  *)
RequestTX(granted) ==
  \/ /\ transmitting
     /\ ~granted
     /\ UNCHANGED <<rigKeyed, transmitting, pttKeyed, watchdog, misreported>>
  \/ /\ ~transmitting
     /\ line = "up"
     /\ \E r \in Answers(line) :
          /\ granted = r.ok
          /\ rigKeyed' = (rigKeyed \/ r.acts)
          /\ pttKeyed' = (pttKeyed \/ r.ok)
          /\ transmitting' = r.ok
          /\ watchdog' = (watchdog \/ r.ok)
          /\ misreported' = (misreported \/ (r.acts /\ ~r.ok))
  \/ /\ ~transmitting
     /\ line \in {"null", "down"}
     /\ granted
     /\ transmitting' = TRUE
     /\ watchdog' = TRUE
     /\ UNCHANGED <<rigKeyed, pttKeyed, misreported>>

(* The unkey loop: setPTT(false) until one call succeeds, UnkeyAttempts at  *)
(* most; run holds the answers to the n calls made.                         *)
Release(l, released) ==
  \E n \in 1..UnkeyAttempts : \E run \in [1..n -> Answers(l)] :
    LET obeyed == \E i \in 1..n : run[i].acts IN
    /\ \A i \in 1..(n - 1) : ~run[i].ok
    /\ run[n].ok \/ n = UnkeyAttempts
    /\ released = run[n].ok
    /\ rigKeyed' = (rigKeyed /\ ~obeyed)
    /\ misreported' = (misreported \/ (released /\ ~obeyed))

\* Mutant: the unkey is gated on isConnected(), as before ADR-125.
TxOffGatedOnLink ==
  /\ IF pttKeyed /\ line = "up"
       THEN Release(line, TRUE) /\ pttKeyed' = FALSE /\ alarmed' = FALSE
       ELSE UNCHANGED <<rigKeyed, pttKeyed, alarmed, misreported>>
  /\ watchdog' = FALSE
  /\ transmitting' = FALSE

(* txOff() when it runs to its end: nothing is held, or the rig confirms.   *)
TxOffCompletes ==
  /\ IF pttKeyed /\ line # "null"
       THEN Release(line, TRUE) /\ pttKeyed' = FALSE /\ alarmed' = FALSE
       ELSE UNCHANGED <<rigKeyed, pttKeyed, alarmed, misreported>>
  /\ watchdog' = FALSE
  /\ transmitting' = FALSE

(* txOff() up to the alarm: no attempt was confirmed; m_pttKeyed stays.     *)
TxOffAlarms ==
  /\ pttKeyed
  /\ line # "null"
  /\ Release(line, FALSE)
  /\ alarmed' = TRUE
  /\ watchdog' = FALSE
  /\ UNCHANGED <<transmitting, pttKeyed>>

\* Mutant: txOff() returns from the alarm without ending the session.
TxOffAbandoned ==
  UNCHANGED <<rigKeyed, transmitting, pttKeyed, watchdog, alarmed, misreported>>

(* The rest of txOff(), once the alarm is closed.                           *)
TxOffResumes ==
  /\ transmitting' = FALSE
  /\ UNCHANGED <<rigKeyed, pttKeyed, watchdog, alarmed, misreported>>

(* MainWindow replaces the manager when a radio connects: the new one knows *)
(* no key, the old one goes to deleteLater(), its suspended txOff() calls   *)
(* no longer touch the new one.                                             *)
Replace ==
  /\ line' = "up"
  /\ transmitting' = FALSE /\ pttKeyed' = FALSE /\ watchdog' = FALSE
  /\ alarmOpen' = FALSE
  /\ doomed' = IF ~pttKeyed THEN doomed
               ELSE doomed \cup {IF line = "gone" THEN "gone" ELSE "same"}
  /\ UNCHANGED <<rigKeyed, closed, alarmed, misreported>>

\* Mutant: the destructor does not call txOff().
DestroySilently(d, released) ==
  /\ d \in doomed /\ released
  /\ doomed' = doomed \ {d}
  /\ UNCHANGED <<line, rigKeyed, transmitting, pttKeyed, watchdog, alarmOpen,
                 closed, alarmed, misreported>>

(* ~PTTManager() of a replaced manager: its txOff() unkeys the rig, or      *)
(* raises the alarm and forgets the key with the object.                    *)
Destroy(d, released) ==
  /\ d \in doomed
  /\ Release(IF d = "gone" THEN "gone" ELSE line, released)
  /\ alarmed' = (alarmed \/ ~released)
  /\ doomed' = doomed \ {d}
  /\ UNCHANGED <<line, transmitting, pttKeyed, watchdog, alarmOpen, closed>>

(* stopRadio(): the client is destroyed, the manager is not told.           *)
Discard ==
  /\ line' = IF line = "null" THEN "null" ELSE "gone"
  /\ doomed' = IF doomed = {} THEN {} ELSE {"gone"}
  /\ UNCHANGED <<rigKeyed, transmitting, pttKeyed, watchdog, alarmOpen, closed,
                 alarmed, misreported>>

(* ~MainWindow(): stopRadio() disconnects the client, then the children are *)
(* destroyed in the order of their creation: the client before the managers *)
(* made for it, whose alarm may or may not be shown by what is left of the  *)
(* window.                                                                  *)
Shutdown ==
  /\ IF (pttKeyed /\ line # "null") \/ doomed # {}
       THEN \E released \in BOOLEAN :
              /\ Release("gone", released)
              /\ alarmed' \in {alarmed, alarmed \/ ~released}
       ELSE UNCHANGED <<rigKeyed, alarmed, misreported>>
  /\ line' = "gone" /\ closed' = TRUE
  /\ transmitting' = FALSE /\ pttKeyed' = FALSE /\ watchdog' = FALSE
  /\ alarmOpen' = FALSE /\ doomed' = {}

-----------------------------------------------------------------------------
RequestTXCalled ==
  /\ ~closed
  /\ \E granted \in BOOLEAN : RequestTX(granted)
  /\ UNCHANGED <<line, alarmOpen, doomed, closed, alarmed>>

TxOffCalled ==
  /\ ~closed
  /\ \/ TxOffCompletes /\ UNCHANGED alarmOpen
     \/ TxOffAlarms /\ alarmOpen' = TRUE
  /\ UNCHANGED <<line, doomed, closed>>

(* Closing one alarm may leave another open.                                *)
AlarmDismissed ==
  /\ alarmOpen
  /\ alarmOpen' \in BOOLEAN
  /\ TxOffResumes
  /\ UNCHANGED <<line, doomed, closed>>

\* Mutant: the watchdog acts only on a session still counted as transmitting.
WatchdogNeedsSession == watchdog /\ transmitting /\ TxOffCalled

(* onWatchdog()                                                             *)
WatchdogExpires == watchdog /\ TxOffCalled

LinkDrops ==
  /\ line = "up"
  /\ line' = "down"
  /\ UNCHANGED <<rigKeyed, transmitting, pttKeyed, watchdog, alarmOpen, doomed,
                 closed, alarmed, misreported>>

RadioConnected == ~closed /\ Replace
RadioStopped == ~closed /\ Discard
ApplicationCloses == ~closed /\ Shutdown
OldManagerDestroyed ==
  ~closed /\ \E d \in doomed, released \in BOOLEAN : Destroy(d, released)

Next ==
  \/ RequestTXCalled
  \/ TxOffCalled
  \/ AlarmDismissed
  \/ LinkDrops
  \/ RadioConnected
  \/ RadioStopped
  \/ OldManagerDestroyed
  \/ ApplicationCloses

(* The watchdog is a timer of the running GUI event loop: armed, it fires.  *)
Spec == Init /\ [][Next]_vars /\ WF_vars(WatchdogExpires)

-----------------------------------------------------------------------------
(* A key the manager holds is never left without a guard: the watchdog that *)
(* will release it is running, or a release was tried, failed, and the      *)
(* operator was told.                                                       *)
KeyIsWatched == pttKeyed => watchdog \/ alarmed

(* A keyed rig is never forgotten: the manager knows it holds the key, or a *)
(* replaced manager is about to release it, or the operator was alarmed -   *)
(* unless a setPTT() result had contradicted what the rig did, or the       *)
(* application is gone.                                                     *)
KeyIsAccounted ==
  rigKeyed => pttKeyed \/ doomed # {} \/ alarmed \/ misreported \/ closed

(* The manager never refuses requestTX() for good: as long as it counts as  *)
(* transmitting, the watchdog will run txOff() or one waits on its alarm.   *)
SessionEnds == transmitting => watchdog \/ alarmOpen

(* PTTManager.cpp, the destructor: "a shutdown mid-TX deliberately blocks   *)
(* to unkey the rig rather than leave it transmitting".                     *)
ShutdownUnkeys == closed => ~rigKeyed

(* The dead-man promise: a key that is held is eventually released or the   *)
(* operator has been told that it could not be.                             *)
KeyIsReleased == pttKeyed ~> (~pttKeyed \/ alarmed)
=============================================================================
