---------------------------- MODULE RigctldClient ---------------------------
(***************************************************************************)
(* src/radio/RigctldClient: the connection to a rigctld over a QTcpSocket. *)
(* The first attempt blocks in waitForConnected(), inside which the socket *)
(* emits its signals; the later ones are left to the signals alone.        *)
(***************************************************************************)
EXTENDS RadioClient

\* Mutant: the retry timer is stopped after connected() was emitted, when a
\* slot's command may have lost the link and started the timer.
OnConnectedStopsLate(c, broken) ==
  IF broken
    THEN [ScheduleReconnect(Dropped(Succeeded(c))) EXCEPT !.retry = FALSE]
    ELSE Succeeded(c)

\* onConnected(): the slots of connected() send commands to the rig, which may
\* find the link broken and run onDisconnected() before onConnected() returns.
OnConnected(c, broken) ==
  IF broken THEN ScheduleReconnect(Dropped(Succeeded(c))) ELSE Succeeded(c)

OnError(c) == ScheduleReconnect([c EXCEPT !.link = "idle"])

\* connect(), called once for each client, by what waitForConnected() meets.
\* A refusal is scheduled by onError() and again by connect(); a timeout emits
\* no error; a link already lost again reads as a failure.
Connect ==
  LET c == Attempt(Fresh) IN
    { OnConnected(c, FALSE),
      ScheduleReconnect(OnConnected(c, TRUE)),
      ScheduleReconnect(OnError(c)),
      ScheduleReconnect([c EXCEPT !.link = "idle"]) }

AttemptSucceeds(broken) ==
  /\ client.link = "trying"
  /\ Becomes(OnConnected(client, broken), "ok")

AttemptFails ==
  /\ client.link = "trying"
  /\ LET c == OnError(client) IN Becomes(c, c.label)

\* onDisconnected() of a link that was up.
LinkDrops ==
  /\ client.link = "open"
  /\ LET c == ScheduleReconnect(Dropped(client)) IN Becomes(c, c.label)

\* Mutant: the timer repeats.
RetryFiresAgain ==
  /\ client.retry
  /\ Becomes(IF client.up THEN client ELSE Attempt(client), "none")

\* onReconnectTimer(), of a single-shot timer.
RetryFires ==
  /\ client.retry
  /\ LET c == [client EXCEPT !.retry = FALSE] IN
       Becomes(IF client.up THEN c ELSE Attempt(c), "none")

Next ==
  \/ \E broken \in BOOLEAN : AttemptSucceeds(broken)
  \/ AttemptFails \/ LinkDrops \/ RetryFires
=============================================================================
