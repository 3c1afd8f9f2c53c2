------------------------------ MODULE TCIClient -----------------------------
(***************************************************************************)
(* src/radio/TCIClient: the connection to a TCI server over a QWebSocket.  *)
(* The client is connected only when the server's init block ended with    *)
(* "ready".  Its retry timer repeats, and opening the socket again         *)
(* abandons, without any signal, an attempt that is still under way.       *)
(***************************************************************************)
EXTENDS RadioClient

\* Mutant: a new connection does not expect the init block again.
ConnectOverInit(c) == Attempt(c)

\* connect()
Connect(c) == [Attempt(c) EXCEPT !.inInit = TRUE]

\* onConnected(): the WebSocket is open, nothing is sent before "ready".
SocketOpens ==
  /\ client.link = "trying"
  /\ Becomes([client EXCEPT !.link = "open"], "none")

\* parseTCIMessage("ready"); outside the init block it is ignored.
Ready ==
  /\ client.link = "open" /\ client.inInit
  /\ Becomes([Succeeded(client) EXCEPT !.inInit = FALSE], "ok")

\* onDisconnected(): connectFailed() ends the call but not the retry timer.
OnDisconnected(c) ==
  LET d == Dropped(c) IN
    IF c.ever THEN [d EXCEPT !.retry = TRUE]
    ELSE IF c.attempts + 1 >= MaxAttempts
           THEN [d EXCEPT !.attempts = 0, !.label = "failed"]
           ELSE [d EXCEPT !.attempts = @ + 1, !.retry = TRUE]

\* The socket is closed by the server, by the network or by a failed attempt.
SocketCloses ==
  /\ client.link \in {"trying", "open"}
  /\ LET c == OnDisconnected(client) IN Becomes(c, c.label)

\* onReconnectTimer(): a socket that is not open is not isValid().
RetryFires ==
  /\ client.retry
  /\ ~client.up /\ client.link # "open"
  /\ Becomes(Connect(client), "none")

Next == SocketOpens \/ Ready \/ SocketCloses \/ RetryFires
=============================================================================
