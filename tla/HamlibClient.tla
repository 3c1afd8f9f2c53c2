----------------------------- MODULE HamlibClient ---------------------------
(***************************************************************************)
(* src/radio/HamlibClient: a rig opened through the Hamlib library.        *)
(* rig_open() blocks, so every attempt runs on a thread of the global      *)
(* pool and its result is posted to the client.  disconnect() raises the   *)
(* attempt's cancel flag; the worker looks at the flag once, between       *)
(* opening the rig and posting the result, and closes the rig itself when  *)
(* the flag is up.                                                         *)
(***************************************************************************)
EXTENDS RadioClient

VARIABLES
  job,       \* how far the attempt of *m_radio has come
  orphans,   \* cancelled attempts of deleted clients, by how far they came
  leaked,    \* a rig is open that nobody will close
  raced      \* history: a client was left between the flag and the posting

\* opened and refused: rig_open() has returned; passed: the flag was seen down;
\* posted: the result waits in the client's queue.
Stages == {"opening", "opened", "passed", "posted"}
Jobs == Stages \cup {"none", "refused"}
OrphanStages == {"opening", "opened", "passed"}

\* The worker of *m_radio; its flag is down as long as the client lives.  What
\* became of a refusal between the worker and its delivery tells nothing.
WorkerSteps ==
  /\ \/ job = "opening" /\ job' \in {"opened", "refused"}
     \/ job = "opened" /\ job' = "passed"
     \/ job = "passed" /\ job' = "posted"
  /\ UNCHANGED <<method, client, dialog, wired, orphans, leaked, raced>>

\* Attempts of deleted clients: the flag is up for those that still look.  A
\* result posted after the look reaches the client while it waits for its
\* deletion, and is discarded with the rig closed, or is lost with the client.
OrphanSteps ==
  /\ \/ /\ orphans["opening"] > 0
        /\ \/ orphans' = [orphans EXCEPT !["opening"] = @ - 1,
                                          !["opened"] = @ + 1]
           \/ orphans' = [orphans EXCEPT !["opening"] = @ - 1]
        /\ UNCHANGED leaked
     \/ /\ orphans["opened"] > 0
        /\ orphans' = [orphans EXCEPT !["opened"] = @ - 1]
        /\ UNCHANGED leaked
     \/ /\ orphans["passed"] > 0
        /\ orphans' = [orphans EXCEPT !["passed"] = @ - 1]
        /\ leaked' \in {leaked, TRUE}
  /\ UNCHANGED <<method, client, dialog, wired, job, raced>>

\* applyConnectResult() of an opened rig.
AttemptSucceeds ==
  /\ job = "posted"
  /\ job' = "none"
  /\ Becomes(Succeeded(client), "ok")
  /\ UNCHANGED <<orphans, leaked, raced>>

\* Mutant: m_connectInProgress is not reset by an error.
AttemptFailsInProgress ==
  /\ job = "refused"
  /\ job' = "none"
  /\ LET c == ScheduleReconnect(client) IN Becomes(c, c.label)
  /\ UNCHANGED <<orphans, leaked, raced>>

\* applyConnectResult() of an error.
AttemptFails ==
  /\ job = "refused"
  /\ job' = "none"
  /\ LET c == ScheduleReconnect([client EXCEPT !.link = "idle"]) IN
       Becomes(c, c.label)
  /\ UNCHANGED <<orphans, leaked, raced>>

\* onReconnectTimer() and the connect() it calls.
RetryFires ==
  /\ client.retry
  /\ LET c == [client EXCEPT !.retry = FALSE] IN
       IF client.up \/ client.link = "trying"
         THEN Becomes(c, "none") /\ UNCHANGED job
         ELSE Becomes(Attempt(c), "none") /\ job' = "opening"
  /\ UNCHANGED <<orphans, leaked, raced>>

Next == WorkerSteps \/ AttemptSucceeds \/ AttemptFails \/ RetryFires

\* Mutant: disconnect() does not raise the cancel flag.
LeaveUncancelled(s, o) ==
  IF s \in {"opening", "opened", "passed"}
    THEN [o EXCEPT !["passed"] = @ + 1] ELSE o

\* disconnect(), then the deletion, of a client whose attempt came as far as s:
\* a posted result is delivered first and discarded, the rest goes on without
\* the client.
Leave(s, o) == IF s \in OrphanStages THEN [o EXCEPT ![s] = @ + 1] ELSE o

Orphans == orphans["opening"] + orphans["opened"] + orphans["passed"]
=============================================================================
