----------------------------- MODULE RadioLinks -----------------------------
(***************************************************************************)
(* MainWindow's radio: startRadio() and stopRadio() create and delete the  *)
(* client of the method chosen in the settings, the RadioConfigDialog asks *)
(* for it and shows what the client reports.                               *)
(***************************************************************************)
EXTENDS RadioClient

CONSTANTS
  MaxClicks,     \* bound: what the operator does in dialogs
  MaxOrphans     \* bound: cancelled attempts at one time

ASSUME BoundsAssumption == MaxClicks \in Nat /\ MaxOrphans \in Nat

VARIABLES
  job, orphans, leaked, raced,   \* see HamlibClient
  clicks                         \* what the operator has done so far

R == INSTANCE RigctldClient
T == INSTANCE TCIClient
H == INSTANCE HamlibClient

hamlibVars == <<job, orphans, leaked, raced>>
vars == <<method, client, dialog, wired, hamlibVars, clicks>>

\* The type invariant.  Only a method that was chosen has a client, only a
\* Hamlib client has a worker, and it has one while it is trying.
TypeOK ==
  /\ method \in Methods /\ client \in Client
  /\ dialog \in Dialogs /\ wired \in BOOLEAN
  /\ job \in H!Jobs /\ orphans \in [H!OrphanStages -> Nat]
  /\ leaked \in BOOLEAN /\ raced \in BOOLEAN /\ clicks \in Nat
  /\ method = "none" => client = Fresh
  /\ job # "none" <=> (method = "hamlib" /\ client.link = "trying")

-----------------------------------------------------------------------------
\* The client that startRadio() leaves behind for method m.  Only RigctldClient
\* can be past its first attempt when connect() returns.
Started(m) ==
  CASE m = "rigctld" -> R!Connect
    [] m = "tci"     -> {T!Connect(Fresh)}
    [] m = "hamlib"  -> {Attempt(Fresh)}
    [] m = "none"    -> {Fresh}

\* startRadio() up to the new client's connect(), without the old client.
Starts(m) ==
  /\ method' = m
  /\ client' \in Started(m)
  /\ job' = IF m = "hamlib" THEN "opening" ELSE "none"

\* The old client is disconnected and deleted, and with it a Hamlib client that
\* was started and deleted by the same click, whose worker came as far as s.
Leaves(s) ==
  /\ orphans' = H!Leave(s, H!Leave(job, orphans))
  /\ raced' = (raced \/ "passed" \in {job, s})
  /\ UNCHANGED leaked

\* How far the first of two clients of method m may have come.
FirstStart(m) == IF m = "hamlib" THEN H!Stages \cup {"refused"} ELSE {"none"}

Clicks ==
  /\ clicks < MaxClicks
  /\ clicks' = clicks + 1

\* onOpenRadioConfig(): the dialog hears the client there is, and offers to
\* connect or to disconnect.
OpenDialog ==
  /\ Clicks
  /\ dialog = "closed"
  /\ dialog' = IF client.up THEN "held" ELSE "free"
  /\ wired' = (method # "none")
  /\ UNCHANGED <<method, client, hamlibVars>>

CloseDialog ==
  /\ dialog # "closed"
  /\ dialog' = "closed" /\ wired' = FALSE
  /\ UNCHANGED <<method, client, hamlibVars, clicks>>

\* RadioConfigDialog::onSave(): the radio is started anew and then wired.
Save ==
  /\ Clicks
  /\ dialog # "closed"
  /\ H!Orphans + 1 <= MaxOrphans
  /\ \E m \in Methods : Starts(m) /\ wired' = (m # "none")
  /\ Leaves("none")
  /\ UNCHANGED dialog

\* RadioConfigDialog::onConnect(): configChanged() and connectRequested() both
\* start the radio, then the status line reads "Connecting...".
ConnectClicked ==
  /\ Clicks
  /\ dialog \in {"free", "failed"}
  /\ H!Orphans + 2 <= MaxOrphans
  /\ \E m \in Methods :
       /\ Starts(m)
       /\ wired' = (m # "none")
       /\ \E s \in FirstStart(m) : Leaves(s)
  /\ dialog' = "connecting"

\* RadioConfigDialog::onDisconnect(), which stops the radio.
DisconnectClicked ==
  /\ Clicks
  /\ dialog \in {"held", "connecting", "ok"}
  /\ H!Orphans + 1 <= MaxOrphans
  /\ Starts("none")
  /\ Leaves("none")
  /\ dialog' = "free" /\ wired' = FALSE

RigctldNext ==
  method = "rigctld" /\ R!Next /\ UNCHANGED <<hamlibVars, clicks>>
TCINext ==
  method = "tci" /\ T!Next /\ UNCHANGED <<hamlibVars, clicks>>
HamlibNext ==
  method = "hamlib" /\ H!Next /\ UNCHANGED clicks
OrphanNext == H!OrphanSteps /\ UNCHANGED clicks

\* The constructor of MainWindow starts the radio of the saved settings.
Init ==
  /\ method \in Methods
  /\ client \in Started(method)
  /\ job = IF method = "hamlib" THEN "opening" ELSE "none"
  /\ orphans = [s \in H!OrphanStages |-> 0]
  /\ leaked = FALSE /\ raced = FALSE
  /\ dialog = "closed" /\ wired = FALSE /\ clicks = 0

Next ==
  \/ RigctldNext \/ TCINext \/ HamlibNext \/ OrphanNext
  \/ OpenDialog \/ CloseDialog \/ Save \/ ConnectClicked \/ DisconnectClicked

-----------------------------------------------------------------------------
(* Timers of the GUI loop fire, workers and attempts end, and a rig that is *)
(* tried over and over is back some time, for long enough to be used.       *)
Retries ==
  \/ method = "rigctld" /\ R!RetryFires /\ UNCHANGED <<hamlibVars, clicks>>
  \/ method = "tci" /\ T!RetryFires /\ UNCHANGED <<hamlibVars, clicks>>
  \/ method = "hamlib" /\ H!RetryFires /\ UNCHANGED clicks

WorkersRun ==
  \/ method = "hamlib" /\ H!WorkerSteps /\ UNCHANGED clicks
  \/ OrphanNext

AttemptsEnd ==
  \/ /\ method = "rigctld"
     /\ R!AttemptSucceeds(FALSE) \/ R!AttemptFails
     /\ UNCHANGED <<hamlibVars, clicks>>
  \/ /\ method = "hamlib"
     /\ H!AttemptSucceeds \/ H!AttemptFails
     /\ UNCHANGED clicks

RigIsBack ==
  \/ /\ method = "rigctld" /\ R!AttemptSucceeds(FALSE)
     /\ UNCHANGED <<hamlibVars, clicks>>
  \/ method = "tci" /\ T!SocketOpens /\ UNCHANGED <<hamlibVars, clicks>>

ServerIsReady == method = "tci" /\ T!Ready /\ UNCHANGED <<hamlibVars, clicks>>

Spec ==
  /\ Init /\ [][Next]_vars
  /\ WF_vars(Retries) /\ WF_vars(WorkersRun) /\ WF_vars(AttemptsEnd)
  /\ SF_vars(RigIsBack) /\ SF_vars(ServerIsReady)
-----------------------------------------------------------------------------
(* The rig label tells the truth: green is a working connection; "Rig       *)
(* disconnected" and the blank label of a client that has not reported yet  *)
(* mean that it is trying or about to try; "connection failed" means a rig  *)
(* that never worked and, unless a TCIClient's timer goes on, the end of it.*)
LabelTellsTheTruth ==
  /\ client.label = "ok" <=> client.up
  /\ client.label = "lost" \/ (client.label = "none" /\ method # "none") =>
       client.retry \/ client.link # "idle"
  /\ client.label = "failed" => ~client.ever
  /\ client.label = "failed" /\ method # "tci" =>
       ~client.retry /\ client.link = "idle"

(* A rigctld or Hamlib client never has a retry pending under an attempt or *)
(* a connection: no socket is connected twice, no rig opened twice by one   *)
(* client.                                                                  *)
NoRetryUnderWay == method # "tci" => ~(client.retry /\ client.link # "idle")

(* ADR-106: settings that never work are tried a bounded number of times,   *)
(* by rigctld and Hamlib clients.                                           *)
BadSettingsGiveUp ==
  method # "tci" /\ ~client.ever => client.tries <= MaxAttempts + 1

(* A cancelled attempt that opens the rig closes it again, whatever the     *)
(* order of disconnect(), the deletion and the worker, but for a client     *)
(* left between the worker's look at the flag and its posting.              *)
CancelledRigIsClosed == leaked => raced

(* A connection that was lost comes back, or the operator ends it, if the   *)
(* rig is there often enough (ADR-106: it "keeps retrying indefinitely").   *)
DroppedComesBack ==
  (client.label = "lost" /\ client.ever) ~> (client.label \in {"ok", "none"})
=============================================================================
