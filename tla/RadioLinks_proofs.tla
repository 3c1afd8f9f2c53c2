-------------------------- MODULE RadioLinks_proofs -------------------------
(***************************************************************************)
(* The safety of the radio clients' connection machines, for every number  *)
(* of permitted attempts and every number of clicks.                       *)
(***************************************************************************)
EXTENDS RadioLinks, TLAPS

\* What is true of a client c of method m after every handler: the flags agree
\* with the connection, the label with the flags, and every attempt of a client
\* that never worked was counted.
Sound(m, c) ==
  /\ c \in Client
  /\ m = "none" => c = Fresh
  /\ c.up => c.ever /\ c.link = "open"
  /\ c.label = "ok" <=> c.up
  /\ c.label = "lost" \/ (c.label = "none" /\ m # "none") =>
       c.retry \/ c.link # "idle"
  /\ c.label = "failed" => ~c.ever
  /\ m # "tci" =>
       /\ c.label = "lost" => c.ever
       /\ c.label = "failed" => ~c.retry /\ c.link = "idle"
       /\ ~(c.retry /\ c.link # "idle")
       /\ c.link = "open" => c.up
       /\ ~c.ever => /\ c.tries <= MaxAttempts + 1
                     /\ c.retry => c.tries <= c.attempts
                     /\ c.link = "trying" => c.tries <= c.attempts + 1

WorkerAgrees ==
  /\ job \in H!Jobs
  /\ job # "none" <=> (method = "hamlib" /\ client.link = "trying")

Rest ==
  /\ dialog \in Dialogs /\ wired \in BOOLEAN
  /\ orphans \in [H!OrphanStages -> Nat]
  /\ leaked \in BOOLEAN /\ raced \in BOOLEAN /\ clicks \in Nat

\* Only a worker that had seen the flag down can lose its rig.
Races == orphans["passed"] > 0 \/ leaked => raced

IInv ==
  /\ method \in Methods
  /\ Sound(method, client)
  /\ WorkerAgrees /\ Rest /\ Races

-----------------------------------------------------------------------------
\* The shape of what the operators on clients return.
LEMMA SucceededShape ==
  ASSUME NEW c \in Client
  PROVE  /\ Succeeded(c) \in Client
         /\ Succeeded(c).up /\ Succeeded(c).ever /\ ~Succeeded(c).retry
         /\ Succeeded(c).link = "open" /\ Succeeded(c).label = "ok"
<1>1. 0 \in 0..MaxAttempts
  BY MaxAttemptsAssumption
<1>2. Succeeded(c) \in Client
  BY <1>1, Zenon DEF Succeeded, Client, Links, Labels
<1>3. /\ Succeeded(c).up /\ Succeeded(c).ever /\ ~Succeeded(c).retry
      /\ Succeeded(c).link = "open" /\ Succeeded(c).label = "ok"
  BY DEF Succeeded, Client
<1> QED
  BY <1>2, <1>3

LEMMA DroppedShape ==
  ASSUME NEW c \in Client
  PROVE  /\ Dropped(c) \in Client
         /\ ~Dropped(c).up
         /\ Dropped(c).ever <=> c.ever
         /\ Dropped(c).retry <=> c.retry
         /\ Dropped(c).attempts = c.attempts /\ Dropped(c).tries = c.tries
         /\ Dropped(c).link = "idle" /\ Dropped(c).label = "lost"
<1>1. Dropped(c) \in Client
  BY Zenon DEF Dropped, Client, Links, Labels
<1>2. /\ ~Dropped(c).up
      /\ Dropped(c).ever <=> c.ever
      /\ Dropped(c).retry <=> c.retry
      /\ Dropped(c).attempts = c.attempts /\ Dropped(c).tries = c.tries
      /\ Dropped(c).link = "idle" /\ Dropped(c).label = "lost"
  BY DEF Dropped, Client
<1> QED
  BY <1>1, <1>2

LEMMA AttemptShape ==
  ASSUME NEW c \in Client
  PROVE  /\ Attempt(c) \in Client
         /\ Attempt(c).up <=> c.up
         /\ Attempt(c).ever <=> c.ever
         /\ Attempt(c).retry <=> c.retry
         /\ Attempt(c).attempts = c.attempts
         /\ Attempt(c).tries = IF c.ever \/ c.tries = MaxAttempts + 2
                                 THEN c.tries ELSE c.tries + 1
         /\ Attempt(c).link = "trying" /\ Attempt(c).label = c.label
<1> DEFINE t == IF c.ever \/ c.tries = MaxAttempts + 2
                  THEN c.tries ELSE c.tries + 1
<1>1. t \in 0..(MaxAttempts + 2)
  <2>1. c.tries \in 0..(MaxAttempts + 2)
    BY DEF Client
  <2> QED
    BY <2>1, MaxAttemptsAssumption
<1>2. Attempt(c) = [c EXCEPT !.link = "trying", !.tries = t]
  BY DEF Attempt
<1> HIDE DEF t
<1>3. Attempt(c) \in Client
  BY <1>1, <1>2, Zenon DEF Client, Links
<1>4. /\ Attempt(c).up <=> c.up
      /\ Attempt(c).ever <=> c.ever
      /\ Attempt(c).retry <=> c.retry
      /\ Attempt(c).attempts = c.attempts /\ Attempt(c).tries = t
      /\ Attempt(c).link = "trying" /\ Attempt(c).label = c.label
  BY <1>2 DEF Client
<1> QED
  BY <1>3, <1>4 DEF t

LEMMA ScheduleShape ==
  ASSUME NEW c \in Client, ~GivesUp(c)
  PROVE  LET d == ScheduleReconnect(c) IN
           /\ d \in Client
           /\ d.up <=> c.up
           /\ d.ever <=> c.ever
           /\ d.retry
           /\ d.attempts = IF c.attempts = MaxAttempts THEN c.attempts
                           ELSE c.attempts + 1
           /\ d.link = c.link /\ d.tries = c.tries /\ d.label = c.label
<1> DEFINE d == ScheduleReconnect(c)
           n == IF c.attempts = MaxAttempts THEN c.attempts
                ELSE c.attempts + 1
<1>1. d = [c EXCEPT !.attempts = n, !.retry = TRUE]
  BY DEF ScheduleReconnect
<1>2. n \in 0..MaxAttempts
  <2>1. c.attempts \in 0..MaxAttempts
    BY DEF Client
  <2> QED
    BY <2>1, MaxAttemptsAssumption
<1> HIDE DEF n
<1>3. d \in Client
  BY <1>1, <1>2, Zenon DEF Client
<1>4. /\ d.up <=> c.up
      /\ d.ever <=> c.ever
      /\ d.attempts = n /\ d.retry /\ d.link = c.link
      /\ d.tries = c.tries /\ d.label = c.label
  BY <1>1 DEF Client
<1> QED
  BY <1>3, <1>4 DEF n

\* A failed or lost connection: what scheduleReconnect() makes of it is sound.
LEMMA ScheduleReconnectSound ==
  ASSUME NEW m \in {"rigctld", "hamlib"}, NEW c \in Client,
         c.link = "idle", ~c.up, c.label \in {"none", "lost"},
         c.label = "lost" => c.ever,
         c.retry => c.ever \/ c.attempts < MaxAttempts,
         ~c.ever => c.tries <= c.attempts + 1 /\ c.tries <= MaxAttempts + 1
  PROVE  Sound(m, ScheduleReconnect(c))
<1> DEFINE d == ScheduleReconnect(c)
<1>0. c.attempts \in 0..MaxAttempts /\ c.tries \in 0..(MaxAttempts + 2)
  BY DEF Client
<1>1. CASE GivesUp(c)
  <2>1. d = [c EXCEPT !.attempts = 0, !.label = "failed"]
    BY <1>1 DEF ScheduleReconnect
  <2>2. d \in Client
    <3>1. 0 \in 0..MaxAttempts
      BY MaxAttemptsAssumption
    <3> QED
      BY <2>1, <3>1, Zenon DEF Client, Labels
  <2>3. /\ d.up <=> c.up
        /\ d.ever <=> c.ever
        /\ d.attempts = 0
        /\ d.retry <=> c.retry
        /\ d.link = c.link
        /\ d.tries = c.tries
        /\ d.label = "failed"
    BY <2>1 DEF Client
  <2>4. ~c.ever /\ ~c.retry
    BY <1>0, <1>1, MaxAttemptsAssumption DEF GivesUp
  <2> QED
    BY <2>2, <2>3, <2>4 DEF Sound
<1>2. CASE ~GivesUp(c)
  <2>1. /\ d \in Client /\ ~d.up /\ d.retry
        /\ d.ever <=> c.ever
        /\ d.link = c.link /\ d.tries = c.tries /\ d.label = c.label
        /\ d.attempts = IF c.attempts = MaxAttempts THEN c.attempts
                        ELSE c.attempts + 1
    BY <1>2, ScheduleShape
  <2>2. ~c.ever => c.tries <= d.attempts
    BY <1>0, <1>2, <2>1, MaxAttemptsAssumption DEF GivesUp
  <2> QED
    BY <2>1, <2>2 DEF Sound
<1> QED
  BY <1>1, <1>2

\* A connection that succeeded is sound, whoever made it.
LEMMA SucceededSound ==
  ASSUME NEW m \in Methods \ {"none"}, NEW c \in Client
  PROVE  Sound(m, Succeeded(c))
BY SucceededShape DEF Sound

\* The connection of a client that worked is lost: the retry is sound.
LEMMA LossSound ==
  ASSUME NEW m \in {"rigctld", "hamlib"}, NEW c \in Client, c.ever
  PROVE  Sound(m, ScheduleReconnect(Dropped(c)))
<1> DEFINE d == Dropped(c)
<1>1. d \in Client /\ ~d.up /\ d.ever /\ d.link = "idle" /\ d.label = "lost"
  BY DroppedShape
<1> HIDE DEF d
<1> QED
  BY <1>1, ScheduleReconnectSound DEF d

\* An attempt that is due is sound when it begins.
LEMMA AttemptSound ==
  ASSUME NEW m \in {"rigctld", "hamlib"}, NEW c \in Client,
         ~c.up, ~c.retry, c.label # "ok", c.label # "failed",
         c.label = "lost" => c.ever,
         ~c.ever => c.tries <= c.attempts
  PROVE  Sound(m, Attempt(c))
<1>1. c.tries \in 0..(MaxAttempts + 2) /\ c.attempts \in 0..MaxAttempts
  BY DEF Client
<1>2. ~Attempt(c).ever => /\ Attempt(c).tries <= Attempt(c).attempts + 1
                          /\ Attempt(c).tries <= MaxAttempts + 1
  BY <1>1, AttemptShape, MaxAttemptsAssumption
<1> QED
  BY <1>2, AttemptShape DEF Sound

\* The attempt that a retry timer starts.
LEMMA RetrySound ==
  ASSUME NEW m \in {"rigctld", "hamlib"}, NEW c, Sound(m, c), c.retry
  PROVE  Sound(m, Attempt([c EXCEPT !.retry = FALSE]))
<1> DEFINE d == [c EXCEPT !.retry = FALSE]
<1>1. /\ c \in Client /\ ~c.up /\ c.label # "ok" /\ c.label # "failed"
      /\ c.label = "lost" => c.ever
      /\ ~c.ever => c.tries <= c.attempts
  BY DEF Sound
<1>2. d \in Client
  BY <1>1, Zenon DEF Client
<1>3. /\ d.up <=> c.up
      /\ d.ever <=> c.ever
      /\ d.attempts = c.attempts /\ ~d.retry /\ d.tries = c.tries
      /\ d.label = c.label
  BY <1>1 DEF Client
<1> HIDE DEF d
<1>4. Sound(m, Attempt(d))
  BY <1>1, <1>2, <1>3, AttemptSound
<1> QED
  BY <1>4 DEF d

\* An attempt that ended without a connection, and was counted as it began.
LEMMA FailureSound ==
  ASSUME NEW m \in {"rigctld", "hamlib"}, NEW c, Sound(m, c),
         c.link = "trying"
  PROVE  Sound(m, ScheduleReconnect([c EXCEPT !.link = "idle"]))
<1> DEFINE d == [c EXCEPT !.link = "idle"]
<1>1. c \in Client /\ ~c.up /\ ~c.retry /\ c.label \in {"none", "lost"}
      /\ (c.label = "lost" => c.ever)
      /\ (~c.ever => c.tries <= c.attempts + 1 /\ c.tries <= MaxAttempts + 1)
  BY DEF Sound, Client, Labels
<1>2. d \in Client
  BY <1>1, Zenon DEF Client, Links
<1>3. /\ d.up <=> c.up
      /\ d.ever <=> c.ever
      /\ d.attempts = c.attempts
      /\ d.retry <=> c.retry
      /\ d.link = "idle"
      /\ d.tries = c.tries
      /\ d.label = c.label
  BY <1>1 DEF Client
<1> HIDE DEF d
<1>4. Sound(m, ScheduleReconnect(d))
  BY <1>1, <1>2, <1>3, ScheduleReconnectSound
<1> QED
  BY <1>4 DEF d

\* The handlers of a TCI client.
LEMMA ConnectSound ==
  ASSUME NEW c \in Client, c.label # "ok", ~c.up,
         c.label = "failed" => ~c.ever
  PROVE  Sound("tci", T!Connect(c))
<1>1. Attempt(c) \in Client
  BY AttemptShape
<1>2. T!Connect(c) \in Client
  BY <1>1, Zenon DEF T!Connect, Client, T!Attempt, Attempt
<1>3. /\ T!Connect(c).up <=> c.up
      /\ T!Connect(c).link = "trying" /\ T!Connect(c).label = c.label
      /\ T!Connect(c).ever <=> c.ever
  BY AttemptShape, <1>1 DEF T!Connect, T!Attempt, Attempt, Client
<1> QED
  BY <1>2, <1>3 DEF Sound

LEMMA DisconnectedSound ==
  ASSUME NEW c \in Client
  PROVE  Sound("tci", T!OnDisconnected(c))
<1> DEFINE d == Dropped(c)
           e == T!OnDisconnected(c)
<1>1. /\ d \in Client /\ ~d.up
      /\ d.ever <=> c.ever
      /\ d.attempts = c.attempts /\ d.link = "idle" /\ d.label = "lost"
  BY DroppedShape
<1>2. T!Dropped(c) = d
  BY DEF T!Dropped, Dropped
<1>3. c.attempts \in 0..MaxAttempts
  BY DEF Client
<1> HIDE DEF d
<1>4. CASE c.ever
  <2>1. e = [d EXCEPT !.retry = TRUE]
    BY <1>2, <1>4 DEF T!OnDisconnected
  <2>2. e \in Client
    BY <1>1, <2>1, Zenon DEF Client
  <2>3. ~e.up /\ e.ever /\ e.retry /\ e.label = "lost"
    BY <1>1, <1>4, <2>1 DEF Client
  <2> QED
    BY <2>2, <2>3 DEF Sound
<1>5. CASE ~c.ever /\ c.attempts + 1 >= MaxAttempts
  <2>1. e = [d EXCEPT !.attempts = 0, !.label = "failed"]
    BY <1>2, <1>5 DEF T!OnDisconnected
  <2>2. 0 \in 0..MaxAttempts
    BY MaxAttemptsAssumption
  <2>3. e \in Client
    BY <1>1, <2>1, <2>2, Zenon DEF Client, Labels
  <2>4. ~e.up /\ ~e.ever /\ e.label = "failed"
    BY <1>1, <1>5, <2>1 DEF Client
  <2> QED
    BY <2>3, <2>4 DEF Sound
<1>6. CASE ~c.ever /\ ~(c.attempts + 1 >= MaxAttempts)
  <2> DEFINE n == d.attempts + 1
  <2>1. e = [d EXCEPT !.attempts = n, !.retry = TRUE]
    BY <1>2, <1>6 DEF T!OnDisconnected
  <2>2. n \in 0..MaxAttempts
    BY <1>1, <1>3, <1>6, MaxAttemptsAssumption
  <2> HIDE DEF n
  <2>3. e \in Client
    BY <1>1, <2>1, <2>2, Zenon DEF Client
  <2>4. ~e.up /\ e.retry /\ e.label = "lost"
    BY <1>1, <2>1 DEF Client
  <2> QED
    BY <2>3, <2>4 DEF Sound
<1> QED
  BY <1>4, <1>5, <1>6

-----------------------------------------------------------------------------
LEMMA FreshClient == Fresh \in Client
<1>1. 0 \in 0..MaxAttempts /\ 0 \in 0..(MaxAttempts + 2)
  BY MaxAttemptsAssumption
<1> QED
  BY <1>1 DEF Fresh, Client, Links, Labels

\* connect() of a rigctld client returns a sound client, whatever it met.
LEMMA RigctldConnectSound ==
  ASSUME NEW d \in R!Connect
  PROVE  Sound("rigctld", d)
<1> DEFINE c == Attempt(Fresh)
           i == [c EXCEPT !.link = "idle"]
<1>1. /\ Fresh \in Client /\ Fresh.up = FALSE /\ Fresh.ever = FALSE
      /\ Fresh.retry = FALSE /\ Fresh.attempts = 0 /\ Fresh.tries = 0
      /\ Fresh.label = "none"
  BY FreshClient DEF Fresh
<1>2. Sound("rigctld", c)
  BY <1>1, AttemptSound
<1>3. /\ c \in Client /\ ~c.up /\ ~c.ever /\ ~c.retry /\ c.attempts = 0
      /\ c.tries = 1 /\ c.link = "trying" /\ c.label = "none"
  BY <1>1, AttemptShape, MaxAttemptsAssumption
<1>4. \/ d = Succeeded(c)
      \/ d = ScheduleReconnect(ScheduleReconnect(Dropped(Succeeded(c))))
      \/ d = ScheduleReconnect(ScheduleReconnect(i))
      \/ d = ScheduleReconnect(i)
  BY DEF R!Connect, R!OnConnected, R!OnError, R!ScheduleReconnect, R!GivesUp,
         R!Dropped, R!Succeeded, R!Attempt, R!Fresh, ScheduleReconnect,
         GivesUp, Dropped, Succeeded, Attempt, Fresh
<1> HIDE DEF c
<1>5. CASE d = Succeeded(c)
  BY <1>3, <1>5, SucceededSound DEF Methods
<1>6. CASE d = ScheduleReconnect(ScheduleReconnect(Dropped(Succeeded(c))))
  <2> DEFINE e == Dropped(Succeeded(c))
             f == ScheduleReconnect(e)
  <2>1. e \in Client /\ ~e.up /\ e.ever /\ e.link = "idle" /\ e.label = "lost"
    BY <1>3, SucceededShape, DroppedShape
  <2> HIDE DEF e
  <2>2. f \in Client /\ ~f.up /\ f.ever /\ f.link = "idle" /\ f.label = "lost"
    BY <2>1, ScheduleShape DEF GivesUp
  <2> HIDE DEF f
  <2>3. Sound("rigctld", ScheduleReconnect(f))
    BY <2>2, ScheduleReconnectSound
  <2> QED
    BY <1>6, <2>3 DEF e, f
<1>7. CASE d = ScheduleReconnect(ScheduleReconnect(i))
  <2> DEFINE f == ScheduleReconnect(i)
  <2>1. i \in Client
    BY <1>3, Zenon DEF Client, Links
  <2>2. /\ ~i.up /\ ~i.ever /\ i.attempts = 0 /\ i.tries = 1
        /\ i.link = "idle" /\ i.label = "none"
    BY <1>3 DEF Client
  <2> HIDE DEF i
  <2>3. /\ f \in Client /\ ~f.up /\ ~f.ever /\ f.attempts = 1 /\ f.tries = 1
        /\ f.link = "idle" /\ f.label = "none"
    BY <2>1, <2>2, ScheduleShape, MaxAttemptsAssumption DEF GivesUp
  <2> HIDE DEF f
  <2>4. Sound("rigctld", ScheduleReconnect(f))
    BY <2>3, ScheduleReconnectSound, MaxAttemptsAssumption
  <2> QED
    BY <1>7, <2>4 DEF f
<1>8. CASE d = ScheduleReconnect(i)
  BY <1>2, <1>3, <1>8, FailureSound
<1> QED
  BY <1>4, <1>5, <1>6, <1>7, <1>8

\* What startRadio() leaves behind.
LEMMA StartedSound ==
  ASSUME NEW m \in Methods, NEW c \in Started(m)
  PROVE  Sound(m, c) /\ (m = "hamlib" => c.link = "trying")
<1>1. /\ Fresh \in Client /\ Fresh.up = FALSE /\ Fresh.ever = FALSE
      /\ Fresh.retry = FALSE /\ Fresh.attempts = 0 /\ Fresh.tries = 0
      /\ Fresh.label = "none" /\ Fresh.link = "idle"
  BY FreshClient DEF Fresh
<1>2. CASE m = "rigctld"
  BY <1>2, RigctldConnectSound DEF Started
<1>3. CASE m = "tci"
  BY <1>1, <1>3, ConnectSound DEF Started
<1>4. CASE m = "hamlib"
  BY <1>1, <1>4, AttemptSound, AttemptShape DEF Started
<1>5. CASE m = "none"
  BY <1>1, <1>5, MaxAttemptsAssumption DEF Started, Sound
<1> QED
  BY <1>2, <1>3, <1>4, <1>5 DEF Methods

-----------------------------------------------------------------------------
LEMMA InitIInv == Init => IInv
<1> SUFFICES ASSUME Init PROVE IInv
  OBVIOUS
<1>1. method \in Methods /\ client \in Started(method)
  BY DEF Init
<1>2. Sound(method, client) /\ (method = "hamlib" => client.link = "trying")
  BY <1>1, StartedSound
<1>3. WorkerAgrees
  BY <1>2 DEF Init, WorkerAgrees, H!Jobs, H!Stages
<1>4. Rest
  BY DEF Init, Rest, Dialogs
<1>5. Races
  BY DEF Init, Races, H!OrphanStages
<1> QED
  BY <1>1, <1>2, <1>3, <1>4, <1>5 DEF IInv

LEMMA RigctldStep ==
  ASSUME IInv, RigctldNext
  PROVE  IInv'
<1> USE DEF R!Becomes, Becomes
<1>1. /\ method = "rigctld" /\ Sound("rigctld", client) /\ client \in Client
      /\ UNCHANGED <<job, orphans, leaked, raced, clicks>> /\ job = "none"
  BY DEF IInv, RigctldNext, hamlibVars, Sound, WorkerAgrees
<1>2. /\ method' = "rigctld" /\ dialog' \in Dialogs /\ wired' \in BOOLEAN
  BY <1>1 DEF IInv, Rest, RigctldNext, R!Next, R!AttemptSucceeds,
       R!AttemptFails, R!LinkDrops, R!RetryFires, Dialogs
<1>3. Sound("rigctld", client')
  <2>1. ASSUME NEW broken \in BOOLEAN, R!AttemptSucceeds(broken)
        PROVE  Sound("rigctld", client')
    <3>1. CASE ~broken
      <4>1. client' = Succeeded(client)
        BY <2>1, <3>1 DEF R!AttemptSucceeds, R!OnConnected, R!Succeeded,
             Succeeded
      <4> QED
        BY <1>1, <4>1, SucceededSound DEF Methods
    <3>2. CASE broken
      <4>1. client' = ScheduleReconnect(Dropped(Succeeded(client)))
        BY <2>1, <3>2 DEF R!AttemptSucceeds, R!OnConnected, R!Succeeded,
             Succeeded, R!Dropped, Dropped, R!ScheduleReconnect, R!GivesUp,
             ScheduleReconnect, GivesUp
      <4>2. Succeeded(client) \in Client /\ Succeeded(client).ever
        BY <1>1, SucceededShape
      <4> QED
        BY <4>1, <4>2, LossSound
    <3> QED
      BY <3>1, <3>2
  <2>2. ASSUME R!AttemptFails PROVE Sound("rigctld", client')
    <3>1. /\ client.link = "trying"
          /\ client' = ScheduleReconnect([client EXCEPT !.link = "idle"])
      BY <2>2 DEF R!AttemptFails, R!OnError, R!ScheduleReconnect, R!GivesUp,
           ScheduleReconnect, GivesUp
    <3> QED
      BY <1>1, <3>1, FailureSound
  <2>3. ASSUME R!LinkDrops PROVE Sound("rigctld", client')
    <3>1. /\ client.link = "open"
          /\ client' = ScheduleReconnect(Dropped(client))
      BY <2>3 DEF R!LinkDrops, R!ScheduleReconnect, R!GivesUp, R!Dropped,
           Dropped, ScheduleReconnect, GivesUp
    <3>2. client.ever
      BY <1>1, <3>1 DEF Sound
    <3> QED
      BY <1>1, <3>1, <3>2, LossSound
  <2>4. ASSUME R!RetryFires PROVE Sound("rigctld", client')
    <3> DEFINE c == [client EXCEPT !.retry = FALSE]
    <3>1. client.retry /\ ~client.up
      BY <1>1, <2>4 DEF R!RetryFires, Sound
    <3>2. client' = Attempt(c)
      <4>1. ~c.up
        BY <1>1, <3>1 DEF Client
      <4> QED
        BY <2>4, <3>1 DEF R!RetryFires, R!Attempt, Attempt
    <3>3. Sound("rigctld", Attempt(c))
      BY <1>1, <3>1, RetrySound
    <3> QED
      BY <3>2, <3>3
  <2> QED
    BY <2>1, <2>2, <2>3, <2>4 DEF RigctldNext, R!Next
<1> QED
  BY <1>1, <1>2, <1>3
     DEF IInv, Methods, Rest, Races, WorkerAgrees, H!Jobs, H!OrphanStages

LEMMA TCIStep ==
  ASSUME IInv, TCINext
  PROVE  IInv'
<1> USE DEF T!Becomes, Becomes
<1>1. /\ method = "tci" /\ Sound("tci", client) /\ client \in Client
      /\ UNCHANGED <<job, orphans, leaked, raced, clicks>> /\ job = "none"
  BY DEF IInv, TCINext, hamlibVars, Sound, WorkerAgrees
<1>2. /\ method' = "tci" /\ dialog' \in Dialogs /\ wired' \in BOOLEAN
  BY <1>1 DEF IInv, Rest, TCINext, T!Next, T!SocketOpens, T!Ready,
       T!SocketCloses, T!RetryFires, Dialogs
<1>3. Sound("tci", client')
  <2>1. ASSUME T!SocketOpens PROVE Sound("tci", client')
    <3>1. client.link = "trying" /\ client' = [client EXCEPT !.link = "open"]
      BY <2>1 DEF T!SocketOpens
    <3>2. client' \in Client
      BY <1>1, <3>1, Zenon DEF Client, Links
    <3>3. /\ client'.up <=> client.up
          /\ client'.ever <=> client.ever
          /\ client'.link = "open" /\ client'.label = client.label
      BY <1>1, <3>1 DEF Client
    <3> QED
      BY <1>1, <3>2, <3>3 DEF Sound
  <2>2. ASSUME T!Ready PROVE Sound("tci", client')
    <3> DEFINE d == Succeeded(client)
    <3>1. client' = [d EXCEPT !.inInit = FALSE]
      BY <2>2 DEF T!Ready, T!Succeeded, Succeeded
    <3>2. d \in Client /\ d.up /\ d.ever /\ d.link = "open" /\ d.label = "ok"
      BY <1>1, SucceededShape
    <3> HIDE DEF d
    <3>3. client' \in Client
      BY <3>1, <3>2, Zenon DEF Client
    <3>4. /\ client'.up /\ client'.ever /\ client'.link = "open"
          /\ client'.label = "ok"
      BY <3>1, <3>2 DEF Client
    <3> QED
      BY <3>3, <3>4 DEF Sound
  <2>3. ASSUME T!SocketCloses PROVE Sound("tci", client')
    BY <1>1, <2>3, DisconnectedSound DEF T!SocketCloses
  <2>4. ASSUME T!RetryFires PROVE Sound("tci", client')
    <3>1. ~client.up /\ client' = T!Connect(client)
      BY <2>4 DEF T!RetryFires
    <3> QED
      BY <1>1, <3>1, ConnectSound DEF Sound
  <2> QED
    BY <2>1, <2>2, <2>3, <2>4 DEF TCINext, T!Next
<1> QED
  BY <1>1, <1>2, <1>3
     DEF IInv, Methods, Rest, Races, WorkerAgrees, H!Jobs, H!OrphanStages

LEMMA HamlibStep ==
  ASSUME IInv, HamlibNext
  PROVE  IInv'
<1> USE DEF H!Becomes, Becomes
<1>1. /\ method = "hamlib" /\ Sound("hamlib", client) /\ client \in Client
      /\ job # "none" <=> client.link = "trying"
      /\ clicks' = clicks
  BY DEF IInv, HamlibNext, Sound, WorkerAgrees
<1>2. /\ method' = "hamlib" /\ dialog' \in Dialogs /\ wired' \in BOOLEAN
      /\ UNCHANGED <<orphans, leaked, raced>>
  BY <1>1 DEF IInv, Rest, HamlibNext, H!Next, H!WorkerSteps,
       H!AttemptSucceeds, H!AttemptFails, H!RetryFires, Dialogs
<1>3. Sound("hamlib", client') /\ WorkerAgrees'
  <2>1. CASE H!WorkerSteps
    BY <1>1, <1>2, <2>1 DEF H!WorkerSteps, WorkerAgrees, H!Jobs, H!Stages
  <2>2. CASE H!AttemptSucceeds
    <3>1. client' = Succeeded(client) /\ job' = "none"
      BY <2>2 DEF H!AttemptSucceeds, H!Succeeded, Succeeded
    <3>2. Sound("hamlib", client') /\ client'.link = "open"
      BY <1>1, <3>1, SucceededSound, SucceededShape DEF Methods
    <3> QED
      BY <1>2, <3>1, <3>2 DEF WorkerAgrees, H!Jobs
  <2>3. CASE H!AttemptFails
    <3> DEFINE i == [client EXCEPT !.link = "idle"]
    <3>1. /\ client.link = "trying" /\ job' = "none"
          /\ client' = ScheduleReconnect(i)
      BY <1>1, <2>3 DEF H!AttemptFails, H!ScheduleReconnect, H!GivesUp,
           ScheduleReconnect, GivesUp
    <3>2. Sound("hamlib", client')
      BY <1>1, <3>1, FailureSound
    <3>3. client'.link = "idle"
      <4>1. i.link = "idle"
        BY <1>1 DEF Client
      <4>2. i \in Client
        BY <1>1, Zenon DEF Client, Links
      <4> HIDE DEF i
      <4> QED
        BY <3>1, <4>1, <4>2 DEF ScheduleReconnect, Client
    <3> QED
      BY <1>2, <3>1, <3>2, <3>3 DEF WorkerAgrees, H!Jobs
  <2>4. CASE H!RetryFires
    <3> DEFINE c == [client EXCEPT !.retry = FALSE]
    <3>1. client.retry /\ ~client.up /\ client.link # "trying"
      BY <1>1, <2>4 DEF H!RetryFires, Sound
    <3>2. c \in Client
      BY <1>1, Zenon DEF Client
    <3>3. ~c.up /\ c.link # "trying"
      BY <1>1, <3>1 DEF Client
    <3>4. client' = Attempt(c) /\ job' = "opening"
      BY <2>4, <3>3 DEF H!RetryFires, H!Attempt, Attempt
    <3>5. Sound("hamlib", Attempt(c))
      BY <1>1, <3>1, RetrySound
    <3>6. Attempt(c).link = "trying"
      BY <3>2, AttemptShape
    <3> QED
      BY <1>2, <3>4, <3>5, <3>6 DEF WorkerAgrees, H!Jobs, H!Stages
  <2> QED
    BY <2>1, <2>2, <2>3, <2>4 DEF HamlibNext, H!Next
<1> QED
  BY <1>1, <1>2, <1>3 DEF IInv, Methods, Rest, Races

\* One attempt more is left to itself.
LEMMA LeaveShape ==
  ASSUME NEW o \in [H!OrphanStages -> Nat], NEW s
  PROVE  /\ H!Leave(s, o) \in [H!OrphanStages -> Nat]
         /\ H!Leave(s, o)["passed"] > 0 => o["passed"] > 0 \/ s = "passed"
BY DEF H!Leave, H!OrphanStages

LEMMA OrphanStep ==
  ASSUME IInv, OrphanNext
  PROVE  IInv'
<1>1. /\ orphans \in [H!OrphanStages -> Nat]
      /\ orphans["opening"] \in Nat /\ orphans["opened"] \in Nat
      /\ orphans["passed"] \in Nat
      /\ leaked \in BOOLEAN
  BY DEF IInv, Rest, H!OrphanStages
<1>2. UNCHANGED <<method, client, dialog, wired, job, raced, clicks>>
  BY DEF OrphanNext, H!OrphanSteps
<1>3. /\ orphans' \in [H!OrphanStages -> Nat] /\ leaked' \in BOOLEAN
      /\ orphans'["passed"] > 0 \/ leaked' =>
           orphans["passed"] > 0 \/ leaked
  <2>1. CASE /\ orphans["opening"] > 0
             /\ orphans' = [orphans EXCEPT !["opening"] = @ - 1,
                                           !["opened"] = @ + 1]
             /\ UNCHANGED leaked
    <3> DEFINE o == [orphans EXCEPT !["opening"] = orphans["opening"] - 1]
    <3>1. orphans["opening"] - 1 \in Nat
      BY <1>1, <2>1
    <3>2. /\ o \in [H!OrphanStages -> Nat]
          /\ o["opened"] = orphans["opened"] /\ o["passed"] = orphans["passed"]
      BY <1>1, <3>1 DEF H!OrphanStages
    <3>3. orphans' = [o EXCEPT !["opened"] = orphans["opened"] + 1]
      BY <1>1, <2>1, <3>2
    <3> HIDE DEF o
    <3> QED
      BY <1>1, <2>1, <3>2, <3>3 DEF H!OrphanStages
  <2>2. CASE /\ orphans["opening"] > 0
             /\ orphans' = [orphans EXCEPT !["opening"] = @ - 1]
             /\ UNCHANGED leaked
    BY <1>1, <2>2 DEF H!OrphanStages
  <2>3. CASE /\ orphans["opened"] > 0
             /\ orphans' = [orphans EXCEPT !["opened"] = @ - 1]
             /\ UNCHANGED leaked
    BY <1>1, <2>3 DEF H!OrphanStages
  <2>4. CASE /\ orphans["passed"] > 0
             /\ orphans' = [orphans EXCEPT !["passed"] = @ - 1]
             /\ leaked' \in {leaked, TRUE}
    <3>1. orphans' \in [H!OrphanStages -> Nat]
      BY <1>1, <2>4 DEF H!OrphanStages
    <3>2. leaked' \in BOOLEAN
      BY <1>1, <2>4
    <3> QED
      BY <2>4, <3>1, <3>2
  <2> QED
    BY <2>1, <2>2, <2>3, <2>4 DEF OrphanNext, H!OrphanSteps
<1> QED
  BY <1>2, <1>3 DEF IInv, Rest, Races, WorkerAgrees, Sound

\* A click that starts the radio anew, for the one method or the other.
LEMMA StartStep ==
  ASSUME IInv, NEW m \in Methods, NEW s, Starts(m), Leaves(s),
         clicks' \in Nat, dialog' \in Dialogs, wired' \in BOOLEAN
  PROVE  IInv'
<1>1. Sound(m, client') /\ (m = "hamlib" => client'.link = "trying")
  BY StartedSound DEF Starts
<1>2. WorkerAgrees'
  BY <1>1 DEF Starts, WorkerAgrees, H!Jobs, H!Stages
<1>3. /\ orphans' \in [H!OrphanStages -> Nat]
      /\ orphans'["passed"] > 0 =>
           orphans["passed"] > 0 \/ "passed" \in {job, s}
  BY LeaveShape DEF Leaves, IInv, Rest
<1>4. leaked' \in BOOLEAN /\ raced' \in BOOLEAN
  BY DEF Leaves, IInv, Rest
<1>5. Races'
  BY <1>3 DEF Leaves, IInv, Races
<1> QED
  BY <1>1, <1>2, <1>3, <1>4, <1>5 DEF IInv, Rest, Starts

LEMMA StepIInv == IInv /\ [Next]_vars => IInv'
<1> SUFFICES ASSUME IInv, [Next]_vars PROVE IInv'
  OBVIOUS
<1>1. CASE RigctldNext
  BY <1>1, RigctldStep
<1>2. CASE TCINext
  BY <1>2, TCIStep
<1>3. CASE HamlibNext
  BY <1>3, HamlibStep
<1>4. CASE OrphanNext
  BY <1>4, OrphanStep
<1>5. CASE OpenDialog \/ CloseDialog
  <2>1. UNCHANGED <<method, client, job, orphans, leaked, raced>>
    BY <1>5 DEF OpenDialog, CloseDialog, hamlibVars
  <2>2. clicks' \in Nat
    BY <1>5 DEF OpenDialog, CloseDialog, Clicks, IInv, Rest
  <2>3. dialog' \in Dialogs /\ wired' \in BOOLEAN
    BY <1>5 DEF OpenDialog, CloseDialog, Dialogs
  <2> QED
    BY <2>1, <2>2, <2>3 DEF IInv, Rest, Races, WorkerAgrees, Sound
<1>6. CASE Save
  <2>1. clicks' \in Nat /\ dialog' \in Dialogs /\ Leaves("none")
    BY <1>6 DEF Save, Clicks, IInv, Rest
  <2>2. PICK m \in Methods : Starts(m) /\ wired' = (m # "none")
    BY <1>6 DEF Save
  <2> QED
    BY <2>1, <2>2, StartStep
<1>7. CASE ConnectClicked
  <2>1. clicks' \in Nat /\ dialog' \in Dialogs
    BY <1>7 DEF ConnectClicked, Clicks, IInv, Rest, Dialogs
  <2>2. PICK m \in Methods : /\ Starts(m) /\ wired' = (m # "none")
                             /\ \E s \in FirstStart(m) : Leaves(s)
    BY <1>7 DEF ConnectClicked
  <2> QED
    BY <2>1, <2>2, StartStep
<1>8. CASE DisconnectClicked
  <2>1. clicks' \in Nat
    BY <1>8 DEF DisconnectClicked, Clicks, IInv, Rest
  <2>2. dialog' \in Dialogs /\ wired' \in BOOLEAN
    BY <1>8 DEF DisconnectClicked, Dialogs
  <2>3. Starts("none") /\ Leaves("none") /\ "none" \in Methods
    BY <1>8 DEF DisconnectClicked, Methods
  <2> QED
    BY <2>1, <2>2, <2>3, StartStep
<1>9. CASE UNCHANGED vars
  BY <1>9 DEF vars, hamlibVars, IInv, Rest, Races, WorkerAgrees, Sound
<1> QED
  BY <1>1, <1>2, <1>3, <1>4, <1>5, <1>6, <1>7, <1>8, <1>9 DEF Next

THEOREM AlwaysIInv == Spec => []IInv
BY InitIInv, StepIInv, PTL DEF Spec

-----------------------------------------------------------------------------
(* The variables of the radio and of its clients keep their types.          *)
THEOREM AlwaysTypeOK == Spec => []TypeOK
<1>1. IInv => TypeOK
  BY DEF IInv, Rest, WorkerAgrees, Sound, TypeOK
<1> QED
  BY <1>1, AlwaysIInv, PTL

(* What MainWindow's rig label says of the connection is true, whatever the *)
(* client, the rig and the operator do.                                     *)
THEOREM AlwaysLabelTellsTheTruth == Spec => []LabelTellsTheTruth
<1>1. IInv => LabelTellsTheTruth
  BY DEF IInv, Sound, LabelTellsTheTruth
<1> QED
  BY <1>1, AlwaysIInv, PTL

(* A rigctld or Hamlib client never retries over an attempt or a connection.*)
THEOREM AlwaysNoRetryUnderWay == Spec => []NoRetryUnderWay
<1>1. IInv => NoRetryUnderWay
  BY DEF IInv, Sound, NoRetryUnderWay
<1> QED
  BY <1>1, AlwaysIInv, PTL

(* Settings that never work are given up, for every permitted number of     *)
(* attempts and however the first one failed.                               *)
THEOREM AlwaysBadSettingsGiveUp == Spec => []BadSettingsGiveUp
<1>1. IInv => BadSettingsGiveUp
  BY DEF IInv, Sound, BadSettingsGiveUp
<1> QED
  BY <1>1, AlwaysIInv, PTL

(* A cancelled attempt loses its rig only in the window between the look at *)
(* the cancel flag and the posting of the result.                           *)
THEOREM AlwaysCancelledRigIsClosed == Spec => []CancelledRigIsClosed
<1>1. IInv => CancelledRigIsClosed
  BY DEF IInv, Races, CancelledRigIsClosed
<1> QED
  BY <1>1, AlwaysIInv, PTL
=============================================================================
