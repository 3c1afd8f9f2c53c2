------------------------------ MODULE MCLogDesk -----------------------------
EXTENDS LogDesk

CONSTANTS A, B, C, P, Q, S

MCCalls == {A, B}

\* Calls to me, replies between other stations, calls to anybody (CQ), with and
\* without the sender's call; a message without tags; one that failed its CRC.
MCMessages ==
  { [from |-> f, to |-> t, signed |-> TRUE, crcOk |-> TRUE, tags |-> TRUE] :
      f \in MCCalls, t \in MCCalls \union {Me, "CQ"} }
  \union
  { [from |-> f, to |-> Me, signed |-> s, crcOk |-> s, tags |-> ~s] :
      f \in MCCalls, s \in BOOLEAN }
  \union
  { [from |-> f, to |-> Me, signed |-> TRUE, crcOk |-> FALSE, tags |-> TRUE] :
      f \in MCCalls }

MCStations ==
  { [parks |-> <<P, Q>>, summit |-> <<>>,  modem |-> "PSK31"],
    [parks |-> <<>>,     summit |-> <<S>>, modem |-> "Haven MFSK"] }

\* 20 m; the log starts with no frequency, which is in none of the bands.
MCDials == {14074000}

MCSymmetry == Permutations(MCCalls)

\* A contact of a session before the ADIF modes.
MCOldRows ==
  << [id |-> 1, day |-> 1, time |-> 0, entry |-> [Empty EXCEPT !.call = C],
      hz |-> 14074000, band |-> "20m", parks |-> <<P>>, summit |-> <<>>,
      mode |-> "DIGITAL", submode |-> "PSK31"] >>
=============================================================================
