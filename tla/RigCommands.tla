---------------------------- MODULE RigCommands -----------------------------
(***************************************************************************)
(* The commands of the three radio clients of src/radio on a connection    *)
(* that is up.  RigctldClient writes a line to a socket and waits for the  *)
(* answer, for a limited time; TCIClient sends messages, and keeps what    *)
(* the server pushes; HamlibClient calls a library that calls the rig.     *)
(* What rigctld and the TCI server do is modelled from how the clients use *)
(* them: they take one request after the other.                            *)
(***************************************************************************)
EXTENDS Naturals, Sequences, FiniteSetsExt

CONSTANTS
  RigBand,        \* the frequencies the rig can be tuned to, by command
  MaxOutstanding  \* bound: requests that have not been answered

ASSUME RigAssumption == RigBand \subseteq Nat \ {0} /\ MaxOutstanding \in Nat

Methods == {"rigctld", "tci", "hamlib"}
Polled == {"rigctld", "hamlib"}

\* f reads the frequency, F sets it, m reads the mode, T keys or unkeys.
Request(cmd, value) == [cmd |-> cmd, value |-> value]

\* An answer is what its first line says: a frequency, a mode or "RPRT n".
Line(kind, value) == [kind |-> kind, value |-> value]

(***************************************************************************)
(* A link: the rig's dial, what has been sent to it and not been served,   *)
(* the answers or pushes that have arrived or are on their way, m_frequency  *)
(* of a TCIClient, and as a history the commands of the last event.        *)
(***************************************************************************)
NewLink(dial) == [dial |-> dial, asked |-> <<>>, answers |-> <<>>, cache |-> 0, done |-> <<>>]

Accepted(request) == request.cmd # "F" \/ request.value \in RigBand

\* The dial once the first n of some requests have been served.
Tuned(dial, asked, n) ==
  LET sets == {i \in 1..n : asked[i].cmd = "F" /\ Accepted(asked[i])}
  IN  IF sets = {} THEN dial ELSE asked[Max(sets)].value

\* What the server says to a request, with the dial that it leaves.
Reply(method, request, dial) ==
  IF method = "tci" THEN Line("vfo", dial)
  ELSE CASE request.cmd = "f" -> Line("freq", dial)
         [] request.cmd = "m" -> Line("mode", 0)
         [] OTHER -> Line(IF Accepted(request) THEN "RPRT 0" ELSE "RPRT -1", 0)

Replies(method, dial, asked, n) ==
  [i \in 1..n |-> Reply(method, asked[i], Tuned(dial, asked, i))]

\* The first request is served, and its answer is there to be read; a TCI
\* server says nothing to one that it refuses.
Served(method, link) ==
  [link EXCEPT !.dial = Tuned(@, link.asked, 1), !.asked = Tail(@),
     !.answers = IF method = "tci" /\ ~Accepted(Head(link.asked)) THEN @
                 ELSE @ \o Replies(method, link.dial, link.asked, 1)]

\* What a response is taken for: whether it holds a value, and which.
Verdict(cmd, response) ==
  CASE cmd = "f" ->
         [ok |-> Len(response) = 1 /\ response[1].kind = "freq",
          value |-> IF Len(response) = 1 THEN response[1].value ELSE 0]
    [] cmd = "m" -> [ok |-> response # <<>>, value |-> 0]
    [] OTHER -> [ok |-> \E i \in DOMAIN response : response[i].kind = "RPRT 0", value |-> 0]

\* A history of the command: how many requests were before it, whether it has
\* been carried out, and what the client made of the answer.
Entry(link, request, carriedOut, dial, verdict) ==
  [cmd |-> request.cmd, before |-> Len(link.asked), carriedOut |-> carriedOut,
   dial |-> dial, ok |-> verdict.ok, value |-> verdict.value]

\* Mutant: what has arrived already is read with the answer.
SendCommandKeeping(link, request, served) ==
  LET asked == Append(link.asked, request)
      response == link.answers \o Replies("rigctld", link.dial, asked, served)
      dial == Tuned(link.dial, asked, served)
      carriedOut == served = Len(asked) /\ Accepted(request)
  IN  [link EXCEPT !.dial = dial, !.asked = SubSeq(asked, served + 1, Len(asked)),
                   !.answers = <<>>,
                   !.done = Append(@, Entry(link, request, carriedOut, dial,
                                            Verdict(request.cmd, response)))]

\* RigctldClient::sendCommand(), during which so many requests are served: it
\* drops what has arrived already and reads what they gave, until its own
\* answer is complete or the time is over.  Fewer served than asked is a late
\* answer or a lost one.
SendCommand(link, request, served) ==
  LET asked == Append(link.asked, request)
      response == Replies("rigctld", link.dial, asked, served)
      dial == Tuned(link.dial, asked, served)
      carriedOut == served = Len(asked) /\ Accepted(request)
  IN  [link EXCEPT !.dial = dial, !.asked = SubSeq(asked, served + 1, Len(asked)),
                   !.answers = <<>>,
                   !.done = Append(@, Entry(link, request, carriedOut, dial,
                                            Verdict(request.cmd, response)))]

\* TCIClient: a command is sent and taken as done, a value is the last pushed.
SendMessage(link, request) ==
  LET verdict == IF request.cmd = "f" THEN [ok |-> link.cache > 0, value |-> link.cache]
                 ELSE [ok |-> TRUE, value |-> 0]
      sent == IF request.cmd = "F" THEN Append(link.asked, request) ELSE link.asked
  IN  [link EXCEPT !.asked = sent,
                   !.done = Append(@, Entry(link, request, FALSE, link.dial, verdict))]

\* HamlibClient: the call reaches the rig (served = 1) or fails.
CallRig(link, request, served) ==
  LET carriedOut == served > 0 /\ Accepted(request)
      dial == IF carriedOut THEN Tuned(link.dial, <<request>>, 1) ELSE link.dial
      verdict == [ok |-> carriedOut,
                  value |-> IF carriedOut /\ request.cmd = "f" THEN dial ELSE 0]
  IN  [link EXCEPT !.dial = dial,
                   !.done = Append(@, Entry(link, request, carriedOut, dial, verdict))]

Commanded(method, link, request, served) ==
  CASE method = "rigctld" -> SendCommand(link, request, served)
    [] method = "tci" -> SendMessage(link, request)
    [] method = "hamlib" -> CallRig(link, request, served)

\* How many requests may be served while a command waits.
Waits(method, link) ==
  CASE method = "rigctld" -> 0..(Len(link.asked) + 1)
    [] method = "tci" -> {0}
    [] method = "hamlib" -> {0, 1}

\* The links that a command can leave behind.
Outcomes(method, link, request) ==
  {Commanded(method, link, request, served) : served \in Waits(method, link)}

Answer(link) == link.done[Len(link.done)]
=============================================================================
