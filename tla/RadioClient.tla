---------------------------- MODULE RadioClient -----------------------------
(***************************************************************************)
(* What the three radio clients of src/radio have in common: the fields    *)
(* they all keep, the bounded retries of a connection that never worked,   *)
(* and the two places where the operator reads the outcome, MainWindow's   *)
(* rig label and the status line of the RadioConfigDialog.                 *)
(*                                                                         *)
(* A client lives from startRadio() to stopRadio(): connect() is called    *)
(* once from outside, disconnect() once, just before deleteLater().        *)
(* m_userDisconnected is therefore true of no client a handler runs for.   *)
(***************************************************************************)
EXTENDS Naturals

CONSTANT MaxAttempts    \* MAX_INITIAL_CONNECT_ATTEMPTS

ASSUME MaxAttemptsAssumption == MaxAttempts \in Nat \ {0, 1}

VARIABLES
  method,   \* the class of *m_radio; "none" when there is no client
  client,   \* the fields of *m_radio and the label it has set
  dialog,   \* the RadioConfigDialog: closed, or its status line, which is
            \* empty with the Connect button enabled (free) or not (held)
  wired     \* the dialog is connected to the signals of *m_radio

Methods == {"none", "rigctld", "tci", "hamlib"}
Links == {"idle", "trying", "open"}
Labels == {"none", "ok", "lost", "failed"}
Dialogs == {"closed", "free", "held", "connecting", "ok", "failed"}

\* tries is a history: the attempts made before the first success, as far as
\* two past the permitted number.  attempts saturates at MaxAttempts, above
\* which it only lengthens the delay.
Client ==
  [up : BOOLEAN, ever : BOOLEAN, attempts : 0..MaxAttempts, retry : BOOLEAN,
   link : Links, inInit : BOOLEAN, tries : 0..(MaxAttempts + 2), label : Labels]

\* A client as its constructor leaves it, after stopRadio() cleared the label.
Fresh ==
  [up |-> FALSE, ever |-> FALSE, attempts |-> 0, retry |-> FALSE,
   link |-> "idle", inInit |-> TRUE, tries |-> 0, label |-> "none"]

\* An attempt begins.
Attempt(c) ==
  [c EXCEPT !.link = "trying",
            !.tries = IF c.ever \/ @ = MaxAttempts + 2 THEN @ ELSE @ + 1]

\* The connection works: the counters restart and connected() is emitted.
Succeeded(c) ==
  [c EXCEPT !.up = TRUE, !.ever = TRUE, !.attempts = 0, !.retry = FALSE,
            !.link = "open", !.label = "ok"]

\* The connection is over: disconnected() is emitted.
Dropped(c) == [c EXCEPT !.up = FALSE, !.link = "idle", !.label = "lost"]

GivesUp(c) == ~c.ever /\ c.attempts >= MaxAttempts

\* Mutant: the counter is reset by every retry.
ScheduleReconnectForever(c) == [c EXCEPT !.attempts = 1, !.retry = TRUE]

\* scheduleReconnect() of RigctldClient and HamlibClient: connectFailed() is
\* emitted, or the retry timer is started.
ScheduleReconnect(c) ==
  IF GivesUp(c)
    THEN [c EXCEPT !.attempts = 0, !.label = "failed"]
    ELSE [c EXCEPT !.attempts = IF @ = MaxAttempts THEN @ ELSE @ + 1,
                   !.retry = TRUE]

\* The client becomes c; a wired dialog hears connected() and connectFailed(),
\* and shows nothing for disconnected().
Becomes(c, heard) ==
  /\ client' = c
  /\ dialog' = IF wired /\ heard \in {"ok", "failed"} THEN heard ELSE dialog
  /\ UNCHANGED <<method, wired>>
=============================================================================
