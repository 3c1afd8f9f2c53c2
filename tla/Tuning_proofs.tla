---------------------------- MODULE Tuning_proofs ----------------------------
(***************************************************************************)
(* That no answer is taken for another command's, and that a TCI client    *)
(* with nothing on its way knows the rig's frequency: for every rig, every *)
(* band, any number of outstanding requests and of gestures.               *)
(***************************************************************************)
EXTENDS Tuning, SequenceTheorems, TLAPS

\* A sequence of whatever it holds.
IsSeq(s) == \E S : s \in Seq(S)

\* The fields of a link; nothing is said of the frequencies.
IsLink(l) ==
  /\ l = [dial |-> l.dial, asked |-> l.asked, answers |-> l.answers,
          cache |-> l.cache, done |-> l.done]
  /\ IsSeq(l.asked) /\ IsSeq(l.done)

\* What AnswersAreOfTheirCommand says of one command.
Good(entry) ==
  entry.ok /\ entry.before = 0 =>
    entry.carriedOut /\ (entry.cmd = "f" => entry.value = entry.dial)

AllGood(m, l) == m \in Polled => \A i \in DOMAIN l.done : Good(l.done[i])

Inv == method \in Methods /\ IsLink(link) /\ AllGood(method, link)

-----------------------------------------------------------------------------
(***************************************************************************)
(* The history of commands grows at its end.                               *)
(***************************************************************************)
LEMMA AppendSeq ==
  ASSUME NEW s, IsSeq(s), NEW e
  PROVE  /\ IsSeq(Append(s, e))
         /\ Len(s) \in Nat /\ Len(Append(s, e)) = Len(s) + 1
         /\ DOMAIN Append(s, e) = 1..Len(s) + 1
         /\ DOMAIN s = 1..Len(s)
         /\ \A i \in 1..Len(s) : Append(s, e)[i] = s[i]
         /\ Append(s, e)[Len(s) + 1] = e
<1>1. PICK S : s \in Seq(S)
  BY DEF IsSeq
<1>2. s \in Seq(S \cup {e}) /\ e \in S \cup {e}
  BY <1>1
<1>3. Append(s, e) \in Seq(S \cup {e})
  BY <1>2, AppendProperties
<1>4. IsSeq(Append(s, e))
  BY <1>3 DEF IsSeq
<1>5. QED
  BY <1>2, <1>4, AppendProperties, LenProperties

(***************************************************************************)
(* What is left of the requests when some have been served.                *)
(***************************************************************************)
LEMMA RestSeq ==
  ASSUME NEW s, IsSeq(s), NEW n \in 0..Len(s)
  PROVE  IsSeq(SubSeq(s, n + 1, Len(s)))
<1>1. PICK S : s \in Seq(S)
  BY DEF IsSeq
<1>2. SubSeq(s, n + 1, Len(s)) \in Seq(S)
  BY <1>1, SubSeqProperties, LenProperties
<1>3. QED
  BY <1>2 DEF IsSeq

(***************************************************************************)
(* A request leaves the queue at its head.                                 *)
(***************************************************************************)
LEMMA TailSeq ==
  ASSUME NEW s, IsSeq(s), s # <<>>
  PROVE  IsSeq(Tail(s))
<1>1. PICK S : s \in Seq(S)
  BY DEF IsSeq
<1>2. Tail(s) \in Seq(S)
  BY <1>1, HeadTailProperties
<1>3. QED
  BY <1>2 DEF IsSeq

(***************************************************************************)
(* Nothing has been done in an event that begins.                          *)
(***************************************************************************)
LEMMA NothingDone ==
  ASSUME NEW l, NEW m, IsSeq(l.asked), l.done = <<>>,
         l = [dial |-> l.dial, asked |-> l.asked, answers |-> l.answers,
              cache |-> l.cache, done |-> l.done]
  PROVE  IsLink(l) /\ AllGood(m, l)
<1>1. <<>> \in Seq({}) /\ DOMAIN <<>> = {}
  BY EmptySeq
<1>2. QED
  BY <1>1, Zenon DEF IsLink, AllGood, IsSeq

-----------------------------------------------------------------------------
(***************************************************************************)
(* RigctldClient::sendCommand(): with nothing outstanding, the answer that *)
(* is read is the command's own, or there is none.                         *)
(***************************************************************************)
LEMMA OwnAnswer ==
  ASSUME NEW l, IsLink(l), NEW r, NEW served \in 0..Len(l.asked) + 1
  PROVE  LET asked == Append(l.asked, r)
             response == Replies("rigctld", l.dial, asked, served)
             dial == Tuned(l.dial, asked, served)
             carriedOut == served = Len(asked) /\ Accepted(r)
         IN  Good(Entry(l, r, carriedOut, dial, Verdict(r.cmd, response)))
<1> DEFINE asked == Append(l.asked, r)
           response == Replies("rigctld", l.dial, asked, served)
           dial == Tuned(l.dial, asked, served)
           carriedOut == served = Len(asked) /\ Accepted(r)
           entry == Entry(l, r, carriedOut, dial, Verdict(r.cmd, response))
<1>1. SUFFICES ASSUME entry.ok, entry.before = 0
               PROVE  entry.carriedOut /\ (entry.cmd = "f" => entry.value = entry.dial)
  BY DEF Good
<1>2. /\ entry.ok = Verdict(r.cmd, response).ok
      /\ entry.value = Verdict(r.cmd, response).value
      /\ entry.before = Len(l.asked) /\ entry.carriedOut = carriedOut
      /\ entry.cmd = r.cmd /\ entry.dial = dial
  BY DEF Entry
<1>3. Len(l.asked) = 0 /\ Len(asked) = 1 /\ asked[1] = r
  <2>1. IsSeq(l.asked)
    BY DEF IsLink
  <2>2. Len(l.asked) = 0
    BY <1>1, <1>2
  <2>3. QED
    BY <2>1, <2>2, AppendSeq
<1>4. served = 0 \/ served = 1
  BY <1>3
<1>5. CASE served = 0
  <2>1. response = <<>>
    BY <1>5 DEF Replies
  <2> HIDE DEF response
  <2>2. Len(response) = 0 /\ DOMAIN response = {}
    BY <2>1
  <2>3. ~Verdict(r.cmd, response).ok
    <3>1. CASE r.cmd = "f"
      <4>1. Verdict(r.cmd, response).ok <=> Len(response) = 1 /\ response[1].kind = "freq"
        BY <3>1, Zenon DEF Verdict
      <4>2. QED
        BY <4>1, <2>2
    <3>2. CASE r.cmd = "m"
      BY <3>2, <2>1 DEF Verdict
    <3>3. CASE r.cmd \notin {"f", "m"}
      BY <3>3, <2>2 DEF Verdict
    <3>4. QED
      BY <3>1, <3>2, <3>3
  <2>4. QED
    BY <2>3, <1>1, <1>2
<1>6. CASE served = 1
  <2>1. response = [i \in 1..1 |-> Reply("rigctld", asked[i], Tuned(l.dial, asked, i))]
    BY <1>6 DEF Replies
  <2>2. /\ Len(response) = 1 /\ DOMAIN response = {1}
        /\ response[1] = Reply("rigctld", r, dial)
    BY <2>1, <1>3, <1>6
  <2>3. CASE r.cmd = "f"
    <3>1. Reply("rigctld", r, dial) = Line("freq", dial)
      BY <2>3 DEF Reply
    <3>2. Verdict(r.cmd, response).value = dial
      BY <3>1, <2>2, <2>3 DEF Verdict, Line
    <3>3. Accepted(r)
      BY <2>3 DEF Accepted
    <3>4. QED
      BY <3>2, <3>3, <1>2, <1>3, <1>6
  <2>4. CASE r.cmd = "m"
    BY <2>4, <1>2, <1>3, <1>6 DEF Accepted
  <2>5. CASE r.cmd \notin {"f", "m"}
    <3>1. Reply("rigctld", r, dial)
            = Line(IF Accepted(r) THEN "RPRT 0" ELSE "RPRT -1", 0)
      BY <2>5 DEF Reply
    <3>2. Verdict(r.cmd, response).ok = (response[1].kind = "RPRT 0")
      BY <2>2, <2>5 DEF Verdict
    <3>3. Accepted(r)
      <4>1. SUFFICES ASSUME ~Accepted(r) PROVE FALSE
        OBVIOUS
      <4>2. response[1] = Line("RPRT -1", 0)
        BY <4>1, <3>1, <2>2
      <4>3. response[1].kind # "RPRT 0"
        <5>1. Line("RPRT -1", 0).kind = "RPRT -1"
          BY DEF Line
        <5>2. "RPRT -1" # "RPRT 0"
          OBVIOUS
        <5>3. QED
          BY <4>2, <5>1, <5>2
      <4>4. QED
        BY <4>3, <3>2, <1>1, <1>2
    <3>4. QED
      BY <3>3, <2>5, <1>2, <1>3, <1>6
  <2>6. QED
    BY <2>3, <2>4, <2>5
<1>7. QED
  BY <1>4, <1>5, <1>6

(***************************************************************************)
(* HamlibClient: a call that returns has reached the rig.                  *)
(***************************************************************************)
LEMMA CallGood ==
  ASSUME NEW l, NEW r, NEW served
  PROVE  LET carriedOut == served > 0 /\ Accepted(r)
             dial == IF carriedOut THEN Tuned(l.dial, <<r>>, 1) ELSE l.dial
             verdict == [ok |-> carriedOut,
                         value |-> IF carriedOut /\ r.cmd = "f" THEN dial ELSE 0]
         IN  Good(Entry(l, r, carriedOut, dial, verdict))
BY DEF Good, Entry

(***************************************************************************)
(* A link with one more command done, and other requests, remains one.     *)
(***************************************************************************)
LEMMA OneMoreDone ==
  ASSUME NEW l, NEW m, IsLink(l), AllGood(m, l), NEW k, NEW e,
         m \in Polled => Good(e), IsSeq(k.asked),
         k.done = Append(l.done, e),
         k = [dial |-> k.dial, asked |-> k.asked, answers |-> k.answers,
              cache |-> k.cache, done |-> k.done]
  PROVE  IsLink(k) /\ AllGood(m, k)
<1>1. IsSeq(l.done)
  BY DEF IsLink
<1>2. /\ IsSeq(Append(l.done, e)) /\ Len(l.done) \in Nat
      /\ DOMAIN Append(l.done, e) = 1..Len(l.done) + 1
      /\ DOMAIN l.done = 1..Len(l.done)
      /\ \A i \in 1..Len(l.done) : Append(l.done, e)[i] = l.done[i]
      /\ Append(l.done, e)[Len(l.done) + 1] = e
  BY <1>1, AppendSeq
<1>3. IsLink(k)
  BY <1>2 DEF IsLink
<1>4. ASSUME m \in Polled, NEW i \in DOMAIN k.done
      PROVE  Good(k.done[i])
  <2>1. i \in 1..Len(l.done) \/ i = Len(l.done) + 1
    BY <1>2, <1>4
  <2>2. CASE i \in 1..Len(l.done)
    BY <2>2, <1>2, <1>4 DEF AllGood
  <2>3. CASE i = Len(l.done) + 1
    BY <2>3, <1>2, <1>4
  <2>4. QED
    BY <2>1, <2>2, <2>3
<1>5. QED
  BY <1>3, <1>4 DEF AllGood

(***************************************************************************)
(* Every command of every client leaves a link whose commands are good.    *)
(***************************************************************************)
LEMMA CommandsAreGood ==
  ASSUME NEW m \in Methods, NEW l, IsLink(l), AllGood(m, l), NEW r,
         NEW k \in Outcomes(m, l, r)
  PROVE  IsLink(k) /\ AllGood(m, k)
<1>l. /\ l = [dial |-> l.dial, asked |-> l.asked, answers |-> l.answers,
              cache |-> l.cache, done |-> l.done]
      /\ IsSeq(l.asked) /\ IsSeq(l.done)
  BY DEF IsLink
<1>1. PICK served \in Waits(m, l) : k = Commanded(m, l, r, served)
  BY DEF Outcomes
<1>2. CASE m = "rigctld"
  <2> DEFINE asked == Append(l.asked, r)
             rest == SubSeq(asked, served + 1, Len(asked))
             response == Replies("rigctld", l.dial, asked, served)
             dial == Tuned(l.dial, asked, served)
             carriedOut == served = Len(asked) /\ Accepted(r)
             e == Entry(l, r, carriedOut, dial, Verdict(r.cmd, response))
  <2>1. served \in 0..Len(l.asked) + 1
    BY <1>1, <1>2 DEF Waits
  <2>2. IsSeq(rest)
    <3>1. IsSeq(asked) /\ Len(asked) = Len(l.asked) + 1
      BY <1>l, AppendSeq
    <3>2. served \in 0..Len(asked)
      BY <2>1, <3>1
    <3>3. QED
      BY <3>1, <3>2, RestSeq
  <2>3. k = [l EXCEPT !.dial = dial, !.asked = rest, !.answers = <<>>,
                      !.done = Append(@, e)]
    BY <1>1, <1>2 DEF Commanded, SendCommand
  <2>4. Good(e)
    BY <2>1, OwnAnswer
  <2> HIDE DEF dial, rest, e
  <2>5. k = [dial |-> dial, asked |-> rest, answers |-> <<>>, cache |-> l.cache,
             done |-> Append(l.done, e)]
    BY <2>3, <1>l
  <2>6. QED
    BY <2>2, <2>4, <2>5, OneMoreDone
<1>3. CASE m = "tci"
  <2> DEFINE verdict == IF r.cmd = "f" THEN [ok |-> l.cache > 0, value |-> l.cache]
                        ELSE [ok |-> TRUE, value |-> 0]
             sent == IF r.cmd = "F" THEN Append(l.asked, r) ELSE l.asked
             e == Entry(l, r, FALSE, l.dial, verdict)
  <2>1. k = [l EXCEPT !.asked = sent, !.done = Append(@, e)]
    BY <1>1, <1>3 DEF Commanded, SendMessage
  <2>2. IsSeq(sent)
    BY <1>l, AppendSeq
  <2>3. ~(m \in Polled)
    BY <1>3 DEF Polled
  <2> HIDE DEF sent, e
  <2>4. k = [dial |-> l.dial, asked |-> sent, answers |-> l.answers, cache |-> l.cache,
             done |-> Append(l.done, e)]
    BY <2>1, <1>l
  <2>5. QED
    BY <2>2, <2>3, <2>4, OneMoreDone
<1>4. CASE m = "hamlib"
  <2> DEFINE carriedOut == served > 0 /\ Accepted(r)
             dial == IF carriedOut THEN Tuned(l.dial, <<r>>, 1) ELSE l.dial
             verdict == [ok |-> carriedOut,
                         value |-> IF carriedOut /\ r.cmd = "f" THEN dial ELSE 0]
             e == Entry(l, r, carriedOut, dial, verdict)
  <2>1. k = [l EXCEPT !.dial = dial, !.done = Append(@, e)]
    BY <1>1, <1>4 DEF Commanded, CallRig
  <2>2. Good(e)
    BY CallGood
  <2> HIDE DEF dial, e
  <2>3. k = [dial |-> dial, asked |-> l.asked, answers |-> l.answers, cache |-> l.cache,
             done |-> Append(l.done, e)]
    BY <2>1, <1>l
  <2>4. QED
    BY <2>2, <2>3, <1>l, OneMoreDone
<1>5. QED
  BY <1>2, <1>3, <1>4 DEF Methods

-----------------------------------------------------------------------------
(***************************************************************************)
(* An event begins with no command done.                                   *)
(***************************************************************************)
LEMMA IdleIsGood ==
  ASSUME Inv
  PROVE  IsLink(Idle) /\ AllGood(method, Idle)
<1>1. link = [dial |-> link.dial, asked |-> link.asked, answers |-> link.answers,
              cache |-> link.cache, done |-> link.done] /\ IsSeq(link.asked)
  BY DEF Inv, IsLink
<1>2. Idle = [dial |-> link.dial, asked |-> link.asked, answers |-> link.answers,
              cache |-> link.cache, done |-> <<>>]
  BY <1>1 DEF Idle
<1>3. QED
  BY <1>1, <1>2, NothingDone

(***************************************************************************)
(* A request that nobody waits for is one more in the queue.               *)
(***************************************************************************)
LEMMA RequestedIsGood ==
  ASSUME NEW m, NEW l, IsLink(l), AllGood(m, l), NEW r,
         NEW k, k = [l EXCEPT !.asked = Append(@, r)]
  PROVE  IsLink(k) /\ AllGood(m, k)
<1> DEFINE asked == Append(l.asked, r)
<1>1. IsSeq(asked) /\ IsSeq(l.done)
  BY AppendSeq DEF IsLink
<1>2. l = [dial |-> l.dial, asked |-> l.asked, answers |-> l.answers, cache |-> l.cache,
           done |-> l.done]
  BY DEF IsLink
<1>3. k = [l EXCEPT !.asked = asked]
  OBVIOUS
<1> HIDE DEF asked
<1>4. k = [dial |-> l.dial, asked |-> asked, answers |-> l.answers, cache |-> l.cache,
           done |-> l.done]
  BY <1>2, <1>3
<1>5. k.asked = asked /\ k.answers = l.answers /\ k.dial = l.dial /\ k.cache = l.cache
      /\ k.done = l.done
  BY <1>4
<1>6. IsLink(k)
  BY <1>1, <1>4, <1>5 DEF IsLink
<1>7. QED
  BY <1>5, <1>6 DEF AllGood

(***************************************************************************)
(* No step gives a command another's answer.                               *)
(***************************************************************************)
LEMMA StepInv ==
  ASSUME Inv, [Next]_vars
  PROVE  Inv'
<1> DEFINE Fine(l) == IsLink(l) /\ AllGood(method, l)
<1>l. /\ link = [dial |-> link.dial, asked |-> link.asked, answers |-> link.answers,
                 cache |-> link.cache, done |-> link.done]
      /\ IsSeq(link.asked) /\ IsSeq(link.done) /\ method \in Methods
  BY DEF Inv, IsLink
<1>i. Fine(Idle) /\ Fine(link)
  BY IdleIsGood DEF Inv
<1>e. \A dial, asked, answers, cache : IsSeq(asked) =>
        Fine([dial |-> dial, asked |-> asked, answers |-> answers, cache |-> cache,
              done |-> <<>>])
  BY NothingDone
<1>c. \A l, r : Fine(l) => \A k \in Outcomes(method, l, r) : Fine(k)
  BY <1>l, CommandsAreGood
<1> SUFFICES method' = method /\ Fine(link')
  BY <1>l DEF Inv, AllGood
<1>m. method' = method
  BY DEF Next, vars, Tune, MoveLine, DropLine, WaterfallTune, Key, TurnKnob, Poll,
         RequestFrequency, Serve, Push, Drop, Connect
<1> HIDE DEF Fine
<1>1. CASE Tune
  BY <1>1, <1>i, <1>c DEF Tune
<1>2. CASE MoveLine
  BY <1>2, <1>i, <1>c DEF MoveLine
<1>3. CASE DropLine
  BY <1>3, <1>i DEF DropLine
<1>4. CASE WaterfallTune
  BY <1>4, <1>i, <1>c DEF WaterfallTune
<1>5. CASE Key
  BY <1>5, <1>i, <1>c DEF Key
<1>6. CASE TurnKnob
  <2>1. PICK d : link' = [Idle EXCEPT !.dial = d,
                            !.answers = IF method = "tci" /\ up
                                        THEN Append(@, Line("vfo", d)) ELSE @]
    BY <1>6 DEF TurnKnob
  <2> DEFINE answers == IF method = "tci" /\ up
                        THEN Append(link.answers, Line("vfo", d)) ELSE link.answers
  <2>2. link' = [dial |-> d, asked |-> link.asked, answers |-> answers,
                 cache |-> link.cache, done |-> <<>>]
    BY <2>1, <1>l DEF Idle
  <2> HIDE DEF answers
  <2>3. QED
    BY <2>2, <1>l, <1>e, <1>m
<1>7. CASE Poll
  BY <1>7, <1>i, <1>c DEF Poll
<1>8. CASE RequestFrequency
  <2>1. CASE link' = link
    BY <2>1, <1>i, <1>m
  <2>2. CASE link' = [Idle EXCEPT !.asked = Append(@, Request("f", 0))]
    <3> DEFINE asked == Append(link.asked, Request("f", 0))
    <3>1. link' = [dial |-> link.dial, asked |-> asked, answers |-> link.answers,
                   cache |-> link.cache, done |-> <<>>]
      BY <2>2, <1>l DEF Idle
    <3>2. IsSeq(asked)
      BY <1>l, AppendSeq
    <3> HIDE DEF asked
    <3>3. QED
      BY <3>1, <3>2, <1>e, <1>m
  <2>3. CASE link' \in Outcomes(method, Idle, Request("f", 0))
    BY <2>3, <1>i, <1>c, <1>m
  <2>4. QED
    BY <1>8, <2>1, <2>2, <2>3 DEF RequestFrequency
<1>9. CASE Serve
  <2> DEFINE dial == Tuned(link.dial, link.asked, 1)
             answers == IF method = "tci" /\ ~Accepted(Head(link.asked)) THEN link.answers
                        ELSE link.answers \o Replies(method, link.dial, link.asked, 1)
  <2>1. link' = [dial |-> dial, asked |-> Tail(link.asked), answers |-> answers,
                 cache |-> link.cache, done |-> <<>>]
    BY <1>9, <1>l DEF Serve, Served
  <2>2. IsSeq(Tail(link.asked))
    BY <1>9, <1>l, TailSeq DEF Serve
  <2> HIDE DEF dial, answers
  <2>3. QED
    BY <2>1, <2>2, <1>e, <1>m
<1>10. CASE Push
  <2> DEFINE hz == Head(link.answers).value
  <2>1. link' = [dial |-> link.dial, asked |-> link.asked, answers |-> Tail(link.answers),
                 cache |-> hz, done |-> <<>>]
    BY <1>10, <1>l DEF Push, Idle
  <2> HIDE DEF hz
  <2>2. QED
    BY <2>1, <1>l, <1>e, <1>m
<1>11. CASE Drop
  <2>1. link' = [dial |-> link.dial, asked |-> <<>>, answers |-> <<>>,
                 cache |-> link.cache, done |-> <<>>]
    BY <1>11 DEF Drop, NewLink
  <2>2. IsSeq(<<>>)
    BY EmptySeq DEF IsSeq
  <2>3. QED
    BY <2>1, <2>2, <1>e, <1>m
<1>12. CASE Connect
  <2>1. PICK opened \in Opened :
          \/ link' = [opened EXCEPT !.asked = Append(@, Request("f", 0))]
          \/ link' \in Outcomes(method, opened, Request("f", 0))
    BY <1>12 DEF Connect
  <2>2. PICK l \in Greeted : opened \in {l} \cup Outcomes(method, l, Request("M", 0))
    BY DEF Opened
  <2>3. Fine(l)
    <3>1. CASE l = Idle
      BY <3>1, <1>i
    <3>2. CASE \E hz : l = [Idle EXCEPT !.cache = hz]
      <4>1. PICK hz : l = [dial |-> link.dial, asked |-> link.asked,
                           answers |-> link.answers, cache |-> hz, done |-> <<>>]
        BY <3>2, <1>l DEF Idle
      <4>2. QED
        BY <4>1, <1>l, <1>e
    <3>3. QED
      BY <3>1, <3>2, <2>2 DEF Greeted
  <2>4. Fine(opened)
    BY <2>2, <2>3, <1>c
  <2>5. CASE link' = [opened EXCEPT !.asked = Append(@, Request("f", 0))]
    BY <2>4, <2>5, RequestedIsGood, <1>m DEF Fine
  <2>6. QED
    BY <2>1, <2>4, <2>5, <1>c, <1>m
<1>13. CASE UNCHANGED vars
  BY <1>13, <1>i DEF vars
<1>14. QED
  BY <1>1, <1>2, <1>3, <1>4, <1>5, <1>6, <1>7, <1>8, <1>9, <1>10, <1>11, <1>12, <1>13,
     <1>m DEF Next

(***************************************************************************)
(* The invariant holds in every state of every behaviour.                  *)
(***************************************************************************)
LEMMA AlwaysInv == Spec => []Inv
<1>1. Init => Inv
  <2> SUFFICES ASSUME Init PROVE Inv
    OBVIOUS
  <2>1. PICK dial : link = NewLink(dial)
    BY DEF Init
  <2>2. link = [dial |-> dial, asked |-> <<>>, answers |-> <<>>, cache |-> 0, done |-> <<>>]
    BY <2>1 DEF NewLink
  <2>3. IsSeq(<<>>)
    BY EmptySeq DEF IsSeq
  <2>4. IsLink(link) /\ AllGood(method, link)
    BY <2>2, <2>3, NothingDone
  <2>5. QED
    BY <2>4 DEF Init, Inv
<1>2. Inv /\ [Next]_vars => Inv'
  BY StepInv
<1>3. QED
  BY <1>1, <1>2, PTL DEF Spec

(***************************************************************************)
(* AnswersAreOfTheirCommand of Tuning, for every rig and any number of     *)
(* outstanding requests: sendCommand() of RigctldClient.                   *)
(***************************************************************************)
THEOREM AlwaysAnswersAreOfTheirCommand == Spec => []AnswersAreOfTheirCommand
<1>1. Inv => AnswersAreOfTheirCommand
  BY DEF Inv, AllGood, Good, AnswersAreOfTheirCommand
<1>2. QED
  BY <1>1, AlwaysInv, PTL

-----------------------------------------------------------------------------
(***************************************************************************)
(* A TCI radio.  As long as what client, display and log hold is not the   *)
(* rig's frequency, a push of it is on its way, or a request that the      *)
(* server answers with one.                                                *)
(***************************************************************************)
Frequencies == Dials \cup RigBand
Asked == [cmd : {"f", "F"}, value : Int]
Pushed == [kind : {"vfo"}, value : Frequencies]

\* What is on the link; the last push is of the frequency the rig is on.
TciLink(l) ==
  /\ l.dial \in Frequencies /\ l.cache \in Frequencies \cup {0}
  /\ l.asked \in Seq(Asked) /\ l.answers \in Seq(Pushed)
  /\ l.answers # <<>> => l.answers[Len(l.answers)].value = l.dial

\* A request the server answers with a push.
Coming(asked) == \E i \in DOMAIN asked : Accepted(asked[i])

Holds(hz, dial) == hz = dial \/ hz \notin RigBand \cup {0}

Informed(l, s, g) ==
  \/ Coming(l.asked)
  \/ l.answers # <<>>
  \/ l.cache = l.dial /\ Holds(s, l.dial) /\ Holds(g, l.dial)

TciInv ==
  method = "tci" =>
    /\ TciLink(link)
    /\ shown \in Nat /\ line \in Offsets \cup {NoLine}
    /\ up => Informed(link, shown, logged)
    /\ ~up => link.answers = <<>>

(***************************************************************************)
(* Every gesture on the frequency control asks for a frequency above zero. *)
(***************************************************************************)
LEMMA GesturesArePositive ==
  ASSUME shown \in Nat,
         NEW hz \in Scrolled \cup Clicked \cup Typed \cup Entered \cup Stepped
  PROVE  hz \in Nat \ {0}
<1>1. CASE hz \in Scrolled
  <2>1. PICK d \in {1, -1}, step \in DIGIT_STEPS :
          hz = (Clamped(shown + d * step) \div step) * step
    BY <1>1 DEF Scrolled
  <2>2. step \in 1..MIN_HZ /\ MIN_HZ \in Nat \ {0} /\ MAX_HZ \in Nat /\ MIN_HZ <= MAX_HZ
    BY FrequencyAssumption
  <2> DEFINE c == Clamped(shown + d * step)
             q == c \div step
  <2>3. shown + d * step \in Int
    BY <2>2
  <2>4. c \in Nat /\ c >= step
    BY <2>2, <2>3 DEF Clamped
  <2> HIDE DEF c
  <2>5. q \in Nat /\ q >= 1
    BY <2>2, <2>4
  <2> HIDE DEF q
  <2>6. q * step \in Nat /\ q * step # 0
    BY <2>2, <2>5
  <2>7. QED
    BY <2>1, <2>6 DEF q, c
<1>2. CASE hz \in Clicked \cup Typed \cup Entered
  BY <1>2, FrequencyAssumption DEF Clicked, Typed, Entered
<1>3. CASE hz \in Stepped
  BY <1>3, FrequencyAssumption DEF Stepped
<1>4. QED
  BY <1>1, <1>2, <1>3

(***************************************************************************)
(* A command of a TCI client changes what was asked, and nothing else that *)
(* lasts; the value of a read is the one kept.                             *)
(***************************************************************************)
LEMMA TciCommand ==
  ASSUME NEW l, IsLink(l), NEW r, NEW k \in Outcomes("tci", l, r)
  PROVE  /\ k.dial = l.dial /\ k.cache = l.cache /\ k.answers = l.answers
         /\ k.asked = IF r.cmd = "F" THEN Append(l.asked, r) ELSE l.asked
         /\ r.cmd = "f" => /\ Answer(k).ok <=> l.cache > 0
                           /\ Answer(k).value = l.cache
<1> DEFINE verdict == IF r.cmd = "f" THEN [ok |-> l.cache > 0, value |-> l.cache]
                      ELSE [ok |-> TRUE, value |-> 0]
           sent == IF r.cmd = "F" THEN Append(l.asked, r) ELSE l.asked
           e == Entry(l, r, FALSE, l.dial, verdict)
<1>1. k = [l EXCEPT !.asked = sent, !.done = Append(@, e)]
  BY DEF Outcomes, Commanded, SendMessage
<1>2. IsSeq(l.done)
  BY DEF IsLink
<1>3. e.ok = verdict.ok /\ e.value = verdict.value
  BY DEF Entry
<1>4. k.done = Append(l.done, e) /\ Answer(k) = e
  <2> HIDE DEF e, sent
  <2>1. k.done = Append(l.done, e)
    BY <1>1 DEF IsLink
  <2>2. QED
    BY <2>1, <1>2, AppendSeq DEF Answer
<1>5. k.dial = l.dial /\ k.cache = l.cache /\ k.answers = l.answers /\ k.asked = sent
  <2> HIDE DEF e, sent
  <2>1. QED
    BY <1>1 DEF IsLink
<1>6. QED
  BY <1>3, <1>4, <1>5

(***************************************************************************)
(* One more request does not hide those before it.                         *)
(***************************************************************************)
LEMMA AskedAppend ==
  ASSUME NEW asked \in Seq(Asked), NEW r \in Asked
  PROVE  /\ Append(asked, r) \in Seq(Asked)
         /\ Coming(asked) \/ Accepted(r) => Coming(Append(asked, r))
<1> DEFINE more == Append(asked, r)
<1>1. /\ more \in Seq(Asked) /\ Len(asked) \in Nat
      /\ DOMAIN more = 1..Len(asked) + 1 /\ DOMAIN asked = 1..Len(asked)
      /\ \A i \in 1..Len(asked) : more[i] = asked[i]
      /\ more[Len(asked) + 1] = r
  BY AppendProperties, LenProperties
<1> HIDE DEF more
<1>2. ASSUME Coming(asked) PROVE Coming(more)
  <2>1. PICK i \in DOMAIN asked : Accepted(asked[i])
    BY <1>2 DEF Coming
  <2>2. i \in DOMAIN more /\ more[i] = asked[i]
    BY <1>1
  <2>3. QED
    BY <2>1, <2>2 DEF Coming
<1>3. ASSUME Accepted(r) PROVE Coming(more)
  <2>1. Len(asked) + 1 \in DOMAIN more
    BY <1>1
  <2>2. QED
    BY <1>1, <1>3, <2>1 DEF Coming
<1>4. QED
  BY <1>1, <1>2, <1>3 DEF more

(***************************************************************************)
(* Serving a request that is refused leaves the others to come.            *)
(***************************************************************************)
LEMMA AskedTail ==
  ASSUME NEW asked \in Seq(Asked), asked # <<>>
  PROVE  /\ Head(asked) = asked[1] /\ Head(asked) \in Asked
         /\ Tail(asked) \in Seq(Asked)
         /\ Coming(asked) /\ ~Accepted(Head(asked)) => Coming(Tail(asked))
<1> DEFINE rest == Tail(asked)
<1>1. /\ Head(asked) = asked[1] /\ Head(asked) \in Asked /\ rest \in Seq(Asked)
      /\ Len(asked) \in Nat /\ Len(rest) = Len(asked) - 1 /\ DOMAIN asked = 1..Len(asked)
      /\ DOMAIN rest = 1..Len(rest)
      /\ \A i \in 1..Len(rest) : rest[i] = asked[i + 1]
  BY HeadTailProperties, LenProperties
<1> HIDE DEF rest
<1>2. ASSUME Coming(asked), ~Accepted(Head(asked)) PROVE Coming(rest)
  <2>1. PICK i \in DOMAIN asked : Accepted(asked[i])
    BY <1>2 DEF Coming
  <2>2. i # 1
    BY <2>1, <1>1, <1>2
  <2>3. i - 1 \in DOMAIN rest /\ rest[i - 1] = asked[i]
    BY <1>1, <2>2
  <2>4. QED
    BY <2>1, <2>3 DEF Coming
<1>3. QED
  BY <1>1, <1>2 DEF rest

(***************************************************************************)
(* A push at the end is the last one; the rest of several ends like them.  *)
(***************************************************************************)
LEMMA PushedAppend ==
  ASSUME NEW answers \in Seq(Pushed), NEW hz \in Frequencies
  PROVE  LET more == Append(answers, Line("vfo", hz))
         IN  more \in Seq(Pushed) /\ more # <<>> /\ more[Len(more)].value = hz
<1> DEFINE l == Line("vfo", hz)
           more == Append(answers, l)
<1>1. l \in Pushed /\ l.value = hz
  BY DEF Line, Pushed
<1> HIDE DEF l
<1>2. /\ more \in Seq(Pushed) /\ Len(more) = Len(answers) + 1 /\ Len(answers) \in Nat
      /\ more[Len(answers) + 1] = l
  BY <1>1, AppendProperties, LenProperties
<1> HIDE DEF more
<1>3. QED
  BY <1>1, <1>2 DEF more, l

LEMMA PushedTail ==
  ASSUME NEW answers \in Seq(Pushed), answers # <<>>
  PROVE  LET rest == Tail(answers)
         IN  /\ rest \in Seq(Pushed) /\ Head(answers).value \in Frequencies
             /\ rest = <<>> => Head(answers) = answers[Len(answers)]
             /\ rest # <<>> => rest[Len(rest)] = answers[Len(answers)]
<1> DEFINE rest == Tail(answers)
<1>1. /\ Head(answers) = answers[1] /\ Head(answers) \in Pushed /\ rest \in Seq(Pushed)
      /\ Len(answers) \in Nat /\ Len(rest) = Len(answers) - 1
      /\ Len(rest) \in Nat
      /\ \A i \in 1..Len(rest) : rest[i] = answers[i + 1]
  BY HeadTailProperties, LenProperties
<1> HIDE DEF rest
<1>2. ASSUME rest = <<>> PROVE Head(answers) = answers[Len(answers)]
  <2>1. Len(answers) = 1
    BY <1>1, <1>2
  <2>2. QED
    BY <1>1, <2>1
<1>3. ASSUME rest # <<>> PROVE rest[Len(rest)] = answers[Len(answers)]
  <2>1. Len(rest) # 0
    BY <1>1, <1>3, EmptySeq
  <2>2. Len(rest) \in 1..Len(rest) /\ Len(rest) + 1 = Len(answers)
    BY <1>1, <2>1
  <2>3. QED
    BY <1>1, <2>2
<1>4. Head(answers).value \in Frequencies
  BY <1>1 DEF Pushed
<1>5. QED
  BY <1>1, <1>2, <1>3, <1>4 DEF rest

(***************************************************************************)
(* A request for a frequency that display and log may have taken already:  *)
(* the server answers it, or it has been refused.                          *)
(***************************************************************************)
LEMMA RequestedIsInformed ==
  ASSUME NEW l, TciLink(l), NEW s, NEW g, Informed(l, s, g),
         NEW hz \in Nat \ {0}, NEW k,
         k.dial = l.dial, k.cache = l.cache, k.answers = l.answers,
         k.asked = Append(l.asked, Request("F", hz))
  PROVE  TciLink(k) /\ Informed(k, hz, hz) /\ Informed(k, hz, g)
<1> DEFINE r == Request("F", hz)
<1>1. r \in Asked /\ (Accepted(r) <=> hz \in RigBand)
  BY DEF Request, Asked, Accepted
<1> HIDE DEF r
<1>2. /\ k.asked \in Seq(Asked)
      /\ Coming(l.asked) \/ Accepted(r) => Coming(k.asked)
  BY <1>1, AskedAppend DEF TciLink, r
<1>3. TciLink(k)
  BY <1>2 DEF TciLink
<1>4. QED
  BY <1>1, <1>2, <1>3 DEF Informed, Holds

(***************************************************************************)
(* A read, once requested, brings a push.                                  *)
(***************************************************************************)
LEMMA ReadIsInformed ==
  ASSUME NEW l, TciLink(l), NEW s, NEW g, NEW k,
         k.dial = l.dial, k.cache = l.cache, k.answers = l.answers,
         k.asked = Append(l.asked, Request("f", 0))
  PROVE  TciLink(k) /\ Informed(k, s, g)
<1> DEFINE r == Request("f", 0)
<1>1. r \in Asked /\ Accepted(r)
  BY DEF Request, Asked, Accepted
<1> HIDE DEF r
<1>2. k.asked \in Seq(Asked) /\ Coming(k.asked)
  BY <1>1, AskedAppend DEF TciLink, r
<1>3. QED
  BY <1>2 DEF TciLink, Informed

(***************************************************************************)
(* The server serves: what it accepts it answers with the dial it leaves,  *)
(* what it refuses changes nothing.                                        *)
(***************************************************************************)
LEMMA ServedIsInformed ==
  ASSUME NEW l, IsLink(l), TciLink(l), NEW s, NEW g, Informed(l, s, g), l.asked # <<>>,
         NEW k, k = [Served("tci", l) EXCEPT !.done = <<>>]
  PROVE  TciLink(k) /\ Informed(k, s, g)
<1> DEFINE r == Head(l.asked)
           dial == Tuned(l.dial, l.asked, 1)
           answers == IF ~Accepted(r) THEN l.answers
                      ELSE l.answers \o Replies("tci", l.dial, l.asked, 1)
<1>1. k.dial = dial /\ k.asked = Tail(l.asked) /\ k.answers = answers /\ k.cache = l.cache
  BY Zenon DEF Served, IsLink
<1>2. /\ r = l.asked[1] /\ r \in Asked /\ Tail(l.asked) \in Seq(Asked)
      /\ Coming(l.asked) /\ ~Accepted(r) => Coming(Tail(l.asked))
  BY AskedTail DEF TciLink
<1>3. CASE ~Accepted(r)
  <2>1. dial = l.dial
    BY <1>2, <1>3 DEF Tuned
  <2>2. k.answers = l.answers
    BY <1>1, <1>3
  <2> HIDE DEF dial, answers
  <2>3. QED
    BY <1>1, <1>2, <1>3, <2>1, <2>2 DEF TciLink, Informed
<1>4. CASE Accepted(r)
  <2>1. dial \in Frequencies
    <3>1. CASE r.cmd = "F"
      <4>1. {i \in 1..1 : l.asked[i].cmd = "F" /\ Accepted(l.asked[i])} = {1}
        BY <3>1, <1>2, <1>4
      <4>2. Max({1}) = 1
        BY DEF Max
      <4>3. dial = r.value
        BY <4>1, <4>2, <1>2 DEF Tuned
      <4>4. QED
        BY <4>3, <3>1, <1>4 DEF Accepted, Frequencies
    <3>2. CASE r.cmd # "F"
      <4>1. {i \in 1..1 : l.asked[i].cmd = "F" /\ Accepted(l.asked[i])} = {}
        BY <3>2, <1>2
      <4>2. dial = l.dial
        BY <4>1 DEF Tuned
      <4>3. QED
        BY <4>2 DEF TciLink
    <3>3. QED
      BY <3>1, <3>2
  <2>2. Replies("tci", l.dial, l.asked, 1) = <<Line("vfo", dial)>>
    BY DEF Replies, Reply
  <2> HIDE DEF dial
  <2>3. answers = Append(l.answers, Line("vfo", dial))
    <3>1. Line("vfo", dial) \in Pushed
      BY <2>1 DEF Line, Pushed
    <3>2. l.answers \in Seq(Pushed)
      BY DEF TciLink
    <3>3. QED
      BY <3>1, <3>2, <2>2, <1>4, AppendIsConcat
  <2>4. /\ answers \in Seq(Pushed) /\ answers # <<>>
        /\ answers[Len(answers)].value = dial
    <3>1. l.answers \in Seq(Pushed)
      BY DEF TciLink
    <3> HIDE DEF answers
    <3>2. QED
      BY <3>1, <2>1, <2>3, PushedAppend
  <2> HIDE DEF answers
  <2>5. QED
    BY <1>1, <1>2, <2>1, <2>4 DEF TciLink, Informed
<1>5. QED
  BY <1>3, <1>4

(***************************************************************************)
(* The link at the beginning of an event is the link.                      *)
(***************************************************************************)
LEMMA IdleIsLink ==
  ASSUME Inv
  PROVE  /\ IsLink(Idle) /\ Idle.dial = link.dial /\ Idle.cache = link.cache
         /\ Idle.asked = link.asked /\ Idle.answers = link.answers
<1>1. link = [dial |-> link.dial, asked |-> link.asked, answers |-> link.answers,
              cache |-> link.cache, done |-> link.done]
  BY DEF Inv, IsLink
<1>2. Idle.dial = link.dial /\ Idle.cache = link.cache
      /\ Idle.asked = link.asked /\ Idle.answers = link.answers
  BY <1>1 DEF Idle
<1>3. QED
  BY <1>2, IdleIsGood

(***************************************************************************)
(* No step forgets to tell the client of a TCI radio.                      *)
(***************************************************************************)
LEMMA StepTciInv ==
  ASSUME Inv, TciInv, [Next]_vars
  PROVE  TciInv'
<1>m. method' = method
  BY DEF Next, vars, Tune, MoveLine, DropLine, WaterfallTune, Key, TurnKnob, Poll,
         RequestFrequency, Serve, Push, Drop, Connect
<1> SUFFICES ASSUME method = "tci"
             PROVE  /\ TciLink(link')
                    /\ shown' \in Nat /\ line' \in Offsets \cup {NoLine}
                    /\ up' => Informed(link', shown', logged')
                    /\ ~up' => link'.answers = <<>>
  BY <1>m DEF TciInv
<1>t. /\ TciLink(link) /\ shown \in Nat /\ line \in Offsets \cup {NoLine}
      /\ up => Informed(link, shown, logged)
      /\ ~up => link.answers = <<>>
  BY DEF TciInv
<1>d. IsLink(link)
  BY DEF Inv
<1>i. /\ IsLink(Idle) /\ Idle.dial = link.dial /\ Idle.cache = link.cache
      /\ Idle.asked = link.asked /\ Idle.answers = link.answers
  BY IdleIsLink
<1>j. TciLink(Idle) /\ \A s, g : Informed(link, s, g) <=> Informed(Idle, s, g)
  BY <1>i, <1>t DEF TciLink, Informed
<1>c. \A l, r : IsLink(l) => \A k \in Outcomes(method, l, r) :
        /\ k.dial = l.dial /\ k.cache = l.cache /\ k.answers = l.answers
        /\ k.asked = IF r.cmd = "F" THEN Append(l.asked, r) ELSE l.asked
        /\ r.cmd = "f" => (Answer(k).ok <=> l.cache > 0) /\ Answer(k).value = l.cache
  BY TciCommand
<1>F. \A l, hz : IsLink(l) => \A k \in Outcomes(method, l, Request("F", hz)) :
        /\ k.dial = l.dial /\ k.cache = l.cache /\ k.answers = l.answers
        /\ k.asked = Append(l.asked, Request("F", hz))
  <2> SUFFICES ASSUME NEW l, NEW hz, IsLink(l),
                      NEW k \in Outcomes(method, l, Request("F", hz))
               PROVE  /\ k.dial = l.dial /\ k.cache = l.cache /\ k.answers = l.answers
                      /\ k.asked = Append(l.asked, Request("F", hz))
    OBVIOUS
  <2> DEFINE r == Request("F", hz)
  <2>1. r.cmd = "F"
    BY DEF Request
  <2> HIDE DEF r
  <2>2. k \in Outcomes(method, l, r)
    BY DEF r
  <2>3. QED
    BY <2>1, <2>2, <1>c DEF r
<1>p. \A l, k : TciLink(l) /\ k.dial = l.dial /\ k.cache = l.cache
                 /\ k.answers = l.answers /\ k.asked = l.asked =>
        TciLink(k) /\ \A s, g : Informed(l, s, g) => Informed(k, s, g)
  BY DEF TciLink, Informed
<1>n. ~(method \in Polled)
  BY DEF Polled
<1>1. CASE Tune
  <2>1. PICK hz \in Scrolled \cup Clicked \cup Typed \cup Entered \cup Stepped :
          /\ shown' = hz /\ logged' = hz
          /\ \/ up /\ link' \in Outcomes(method, Idle, Request("F", hz))
             \/ ~up /\ link' = Idle
    BY <1>1 DEF Tune, FrequencyChanged, SetFrequency, MayAsk
  <2>2. hz \in Nat \ {0}
    BY <1>t, GesturesArePositive
  <2>3. up' = up /\ line' = line
    BY <1>1 DEF Tune
  <2>4. CASE up /\ link' \in Outcomes(method, Idle, Request("F", hz))
    <3>1. /\ link'.dial = Idle.dial /\ link'.cache = Idle.cache
          /\ link'.answers = Idle.answers
          /\ link'.asked = Append(Idle.asked, Request("F", hz))
      BY <2>4, <1>i, <1>F
    <3>2. TciLink(link') /\ Informed(link', hz, hz)
      BY <3>1, <2>2, <2>4, <1>j, <1>t, RequestedIsInformed
    <3>3. QED
      BY <3>2, <2>1, <2>2, <2>3, <2>4, <1>t
  <2>5. CASE ~up /\ link' = Idle
    BY <2>5, <2>1, <2>2, <2>3, <1>i, <1>j, <1>t
  <2>6. QED
    BY <2>1, <2>4, <2>5
<1>2. CASE MoveLine
  <2>1. \/ link' \in Outcomes(method, Idle, Request("f", 0))
        \/ link' = Idle
    BY <1>2 DEF MoveLine
  <2>2. /\ link'.dial = Idle.dial /\ link'.cache = Idle.cache
        /\ link'.answers = Idle.answers /\ link'.asked = Idle.asked
    BY <2>1, <1>i, <1>c DEF Request
  <2>3. TciLink(link') /\ \A s, g : Informed(Idle, s, g) => Informed(link', s, g)
    BY <2>2, <1>j, <1>p
  <2>4. line' \in Offsets /\ UNCHANGED <<shown, logged, up>>
    BY <1>2 DEF MoveLine, ShowLine
  <2>5. QED
    BY <2>2, <2>3, <2>4, <1>i, <1>j, <1>t
<1>3. CASE DropLine
  BY <1>3, <1>t DEF DropLine
<1>4. CASE WaterfallTune
  <2>1. line \in Offsets /\ line' = NoLine /\ up' = up /\ logged' = logged
    BY <1>4, <1>t DEF WaterfallTune
  <2>2. CASE link' = Idle /\ shown' = shown
    BY <2>1, <2>2, <1>i, <1>j, <1>t
  <2>3. ASSUME up, NEW read \in Outcomes(method, Idle, Request("f", 0)),
               \/ ~Answer(read).ok /\ link' = read /\ shown' = shown
               \/ /\ Answer(read).ok /\ shown' = Answer(read).value + line
                  /\ link' \in Outcomes(method, read, Request("F", shown'))
        PROVE  TciLink(link') /\ shown' \in Nat /\ Informed(link', shown', logged')
    <3>1. /\ read.dial = Idle.dial /\ read.cache = Idle.cache
          /\ read.answers = Idle.answers /\ read.asked = Idle.asked
          /\ Answer(read).ok <=> Idle.cache > 0
          /\ Answer(read).value = Idle.cache
      BY <2>3, <1>i, <1>c DEF Request
    <3>2. TciLink(read) /\ Informed(read, shown, logged)
      BY <3>1, <2>3, <1>i, <1>j, <1>t, <1>p
    <3>3. CASE link' = read /\ shown' = shown
      BY <3>2, <3>3, <2>1, <1>t
    <3>4. CASE /\ Answer(read).ok /\ shown' = Answer(read).value + line
               /\ link' \in Outcomes(method, read, Request("F", shown'))
      <4>1. shown' \in Nat \ {0}
        <5>1. link.cache \in Frequencies
          BY <3>1, <3>4, <1>i, <1>t DEF TciLink
        <5>2. QED
          BY <5>1, <3>1, <3>4, <1>i, <2>1, TuningAssumption DEF Frequencies
      <4>2. IsLink(read)
        BY <1>i, <1>n, CommandsAreGood DEF AllGood, Methods
      <4>3. PICK hz : hz = shown' /\ link' \in Outcomes(method, read, Request("F", hz))
        BY <3>4
      <4>4. /\ link'.dial = read.dial /\ link'.cache = read.cache
            /\ link'.answers = read.answers
            /\ link'.asked = Append(read.asked, Request("F", hz))
        BY <4>2, <4>3, <1>F
      <4>5. TciLink(link') /\ Informed(link', shown', logged)
        BY <4>1, <4>3, <4>4, <3>2, RequestedIsInformed
      <4>6. QED
        BY <4>1, <4>5, <2>1
    <3>5. QED
      BY <2>3, <3>3, <3>4
  <2>4. \/ link' = Idle /\ shown' = shown
        \/ up /\ \E read \in Outcomes(method, Idle, Request("f", 0)) :
             \/ ~Answer(read).ok /\ link' = read /\ shown' = shown
             \/ /\ Answer(read).ok /\ shown' = Answer(read).value + line
                /\ link' \in Outcomes(method, read, Request("F", shown'))
    BY <1>4 DEF WaterfallTune, MayAsk, SetFrequency
  <2>5. CASE up /\ ~(link' = Idle /\ shown' = shown)
    <3>1. TciLink(link') /\ shown' \in Nat /\ Informed(link', shown', logged')
      BY <2>3, <2>4, <2>5
    <3>2. QED
      BY <3>1, <2>1, <2>5
  <2>6. QED
    BY <2>2, <2>4, <2>5
<1>5. CASE Key
  <2>1. /\ link'.dial = Idle.dial /\ link'.cache = Idle.cache
        /\ link'.answers = Idle.answers /\ link'.asked = Idle.asked
    BY <1>5, <1>i, <1>c DEF Key, Request
  <2>2. TciLink(link') /\ \A s, g : Informed(Idle, s, g) => Informed(link', s, g)
    BY <2>1, <1>j, <1>p
  <2>3. QED
    BY <2>1, <2>2, <1>5, <1>i, <1>j, <1>t DEF Key
<1>6. CASE TurnKnob
  <2>1. PICK d \in Dials :
          link' = [Idle EXCEPT !.dial = d,
                               !.answers = IF method = "tci" /\ up
                                           THEN Append(@, Line("vfo", d)) ELSE @]
    BY <1>6 DEF TurnKnob
  <2> DEFINE answers == IF up THEN Append(link.answers, Line("vfo", d)) ELSE link.answers
  <2>2. /\ link'.dial = d /\ link'.asked = link.asked /\ link'.cache = link.cache
        /\ link'.answers = answers
    BY <2>1, <1>i DEF IsLink
  <2>3. d \in Frequencies /\ UNCHANGED <<shown, logged, line, up>>
    BY <1>6 DEF TurnKnob, Frequencies
  <2>4. CASE up
    <3>1. answers \in Seq(Pushed) /\ answers # <<>> /\ answers[Len(answers)].value = d
      BY <2>3, <2>4, <1>t, PushedAppend DEF TciLink
    <3> HIDE DEF answers
    <3>2. QED
      BY <3>1, <2>2, <2>3, <2>4, <1>t DEF TciLink, Informed
  <2>5. CASE ~up
    <3>1. link'.answers = <<>> /\ link.answers = <<>>
      BY <2>2, <2>5, <1>t
    <3>2. TciLink(link')
      BY <3>1, <2>2, <2>3, <1>t DEF TciLink
    <3>3. QED
      BY <3>1, <3>2, <2>3, <2>5, <1>t
  <2>6. QED
    BY <2>4, <2>5
<1>7. CASE Poll
  BY <1>7, <1>n DEF Poll
<1>8. CASE RequestFrequency
  <2>1. UNCHANGED <<shown, logged, line, up>>
    BY <1>8, <1>n DEF RequestFrequency
  <2>2. CASE ~up /\ link' = link
    BY <2>1, <2>2, <1>t
  <2>3. CASE up /\ link' = [Idle EXCEPT !.asked = Append(@, Request("f", 0))]
    <3>1. /\ link'.dial = Idle.dial /\ link'.cache = Idle.cache
          /\ link'.answers = Idle.answers
          /\ link'.asked = Append(Idle.asked, Request("f", 0))
      BY <2>3, <1>i DEF IsLink
    <3>2. TciLink(link') /\ Informed(link', shown, logged)
      BY <3>1, <1>j, ReadIsInformed
    <3>3. QED
      BY <3>2, <2>1, <2>3, <1>t
  <2>4. QED
    BY <1>8, <1>n, <2>2, <2>3 DEF RequestFrequency, MayAsk
<1>9. CASE Serve
  <2>1. /\ up /\ link.asked # <<>> /\ link' = [Served("tci", link) EXCEPT !.done = <<>>]
        /\ UNCHANGED <<shown, logged, line, up>>
    BY <1>9 DEF Serve
  <2>2. TciLink(link') /\ Informed(link', shown, logged)
    BY <2>1, <1>d, <1>t, ServedIsInformed
  <2>3. QED
    BY <2>1, <2>2, <1>t
<1>10. CASE Push
  <2> DEFINE hz == Head(link.answers).value
             rest == Tail(link.answers)
  <2>1. /\ up /\ link.answers # <<>> /\ up' = up /\ line' = line
        /\ shown' = hz /\ logged' = hz
        /\ link' = [Idle EXCEPT !.answers = Tail(@), !.cache = hz]
    BY <1>10 DEF Push, FrequencyChanged, SetFrequency
  <2>2. /\ link'.dial = link.dial /\ link'.asked = link.asked /\ link'.cache = hz
        /\ link'.answers = rest
    BY <2>1, <1>i DEF IsLink
  <2>3. /\ rest \in Seq(Pushed) /\ hz \in Frequencies
        /\ rest = <<>> => hz = link.dial
        /\ rest # <<>> => rest[Len(rest)].value = link.dial
    BY <2>1, <1>t, PushedTail DEF TciLink
  <2>4. hz \in Nat
    BY <2>3, TuningAssumption, RigAssumption DEF Frequencies
  <2> HIDE DEF hz, rest
  <2>5. TciLink(link') /\ Informed(link', shown', logged')
    BY <2>1, <2>2, <2>3, <1>t DEF TciLink, Informed, Holds
  <2>6. QED
    BY <2>1, <2>4, <2>5, <1>t
<1>11. CASE Drop
  <2>1. /\ ~up' /\ shown' = 0 /\ line' = line
        /\ link' = [NewLink(link.dial) EXCEPT !.cache = link.cache]
    BY <1>11 DEF Drop, SetFrequency
  <2>2. /\ link'.dial = link.dial /\ link'.asked = <<>> /\ link'.answers = <<>>
        /\ link'.cache = link.cache
    BY <2>1 DEF NewLink
  <2>3. QED
    BY <2>1, <2>2, <1>t, EmptySeq DEF TciLink
<1>12. CASE Connect
  <2>1. /\ up' /\ UNCHANGED <<shown, logged, line>>
        /\ \E opened \in Opened : link' = [opened EXCEPT !.asked = Append(@, Request("f", 0))]
    BY <1>12, <1>n DEF Connect
  <2>2. PICK opened \in Opened : link' = [opened EXCEPT !.asked = Append(@, Request("f", 0))]
    BY <2>1
  <2>3. PICK l \in Greeted : opened \in {l} \cup Outcomes(method, l, Request("M", 0))
    BY DEF Opened
  <2>4. PICK hz \in {link.cache, link.dial} : l = [Idle EXCEPT !.cache = hz]
    BY <2>3 DEF Greeted
  <2>5. IsLink(l) /\ TciLink(l)
    <3>1. l = [dial |-> Idle.dial, asked |-> Idle.asked, answers |-> Idle.answers,
               cache |-> hz, done |-> Idle.done]
      BY <2>4, <1>i DEF IsLink
    <3>2. QED
      BY <3>1, <1>i, <1>j, <1>t DEF IsLink, TciLink
  <2>6. IsLink(opened) /\ TciLink(opened)
    <3>1. CASE opened = l
      BY <3>1, <2>5
    <3>2. CASE opened \in Outcomes(method, l, Request("M", 0))
      <4>1. /\ opened.dial = l.dial /\ opened.cache = l.cache
            /\ opened.answers = l.answers /\ opened.asked = l.asked
        BY <3>2, <2>5, <1>c DEF Request
      <4>2. IsLink(opened)
        BY <3>2, <2>5, <1>n, CommandsAreGood DEF AllGood, Methods
      <4>3. QED
        BY <4>1, <4>2, <2>5, <1>p
    <3>3. QED
      BY <2>3, <3>1, <3>2
  <2>7. /\ link'.dial = opened.dial /\ link'.cache = opened.cache
        /\ link'.answers = opened.answers
        /\ link'.asked = Append(opened.asked, Request("f", 0))
    BY <2>2, <2>6 DEF IsLink
  <2>8. TciLink(link') /\ Informed(link', shown, logged)
    BY <2>6, <2>7, ReadIsInformed
  <2>9. QED
    BY <2>1, <2>8, <1>t
<1>13. CASE UNCHANGED vars
  BY <1>13, <1>t DEF vars
<1>14. QED
  BY <1>1, <1>2, <1>3, <1>4, <1>5, <1>6, <1>7, <1>8, <1>9, <1>10, <1>11, <1>12, <1>13 DEF Next

(***************************************************************************)
(* QuietTciShowsTheRig of Tuning, for every rig, set of gestures and       *)
(* number of outstanding requests: the init block and the pushes of a TCI  *)
(* server (TCIClient.cpp:136-155, 164-176).                                *)
(***************************************************************************)
THEOREM AlwaysQuietTciShowsTheRig == Spec => []QuietTciShowsTheRig
<1>1. Init => TciInv
  <2> SUFFICES ASSUME Init PROVE TciInv
    OBVIOUS
  <2>1. PICK dial \in Dials : link = NewLink(dial)
    BY DEF Init
  <2>2. /\ link.dial = dial /\ link.asked = <<>> /\ link.answers = <<>>
        /\ link.cache = 0
    BY <2>1 DEF NewLink
  <2>3. TciLink(link)
    BY <2>2, EmptySeq DEF TciLink, Frequencies
  <2>4. QED
    BY <2>2, <2>3 DEF Init, TciInv
<1>2. Inv /\ TciInv /\ [Next]_vars => TciInv'
  BY StepTciInv
<1>3. TciInv => QuietTciShowsTheRig
  <2> SUFFICES ASSUME TciInv, method = "tci", up, link.asked = <<>>, link.answers = <<>>
               PROVE  /\ link.cache = link.dial
                      /\ \A hz \in {shown, logged} :
                           hz = link.dial \/ hz \notin RigBand \cup {0}
    BY DEF QuietTciShowsTheRig
  <2>1. ~Coming(link.asked)
    BY EmptySeq DEF Coming
  <2>2. QED
    BY <2>1 DEF TciInv, Informed, Holds
<1>4. QED
  BY <1>1, <1>2, <1>3, AlwaysInv, PTL DEF Spec
=============================================================================
