-------------------------- MODULE PttManager_proofs --------------------------
(***************************************************************************)
(* The safety of the PTT manager for every set of replies and every number *)
(* of unkey attempts.  The conjunction of the four invariants that TLC     *)
(* checks is inductive: KeyIsWatched needs the last conjunct of TypeOK (a  *)
(* txOff() without a radio would disarm the watchdog and keep the key).    *)
(***************************************************************************)
EXTENDS PttManager, TLAPS

Inv == TypeOK /\ KeyIsWatched /\ KeyIsAccounted /\ SessionEnds

LEMMA ReplyFields ==
  ASSUME NEW l, NEW r \in Answers(l)
  PROVE  r.ok \in BOOLEAN /\ r.acts \in BOOLEAN
<1>1. CASE l = "up"
  BY <1>1, RepliesAssumption DEF Answers, Reply
<1>2. CASE l = "gone"
  BY <1>2 DEF Answers, Reply
<1>3. CASE l # "up" /\ l # "gone"
  <2>1. r = [ok |-> FALSE, acts |-> FALSE]
    BY <1>3 DEF Answers
  <2> QED BY <2>1
<1> QED BY <1>1, <1>2, <1>3

(* The unkey loop leaves the rig keyed only if it was keyed, and if it      *)
(* reports success then the rig is unkeyed or a reply contradicted it.      *)
LEMMA ReleaseEffect ==
  ASSUME NEW l, NEW released \in BOOLEAN, Release(l, released), TypeOK
  PROVE  /\ rigKeyed' \in BOOLEAN /\ misreported' \in BOOLEAN
         /\ rigKeyed' => rigKeyed
         /\ misreported => misreported'
         /\ released => ~rigKeyed' \/ misreported'
<1>1. PICK obeyed \in BOOLEAN :
        /\ rigKeyed' = (rigKeyed /\ ~obeyed)
        /\ misreported' = (misreported \/ (released /\ ~obeyed))
  BY DEF Release
<1> QED
  BY <1>1 DEF TypeOK

LEMMA InitInv == Init => Inv
BY DEF Init, Inv, TypeOK, Lines, KeyIsWatched, KeyIsAccounted, SessionEnds

LEMMA RequestTXInv ==
  ASSUME Inv, RequestTXCalled
  PROVE  Inv'
<1> USE DEF Inv
<1>1. PICK granted \in BOOLEAN : RequestTX(granted)
  BY DEF RequestTXCalled
<1>2. UNCHANGED <<line, alarmOpen, doomed, closed, alarmed>>
  BY DEF RequestTXCalled
<1>3. CASE transmitting /\ UNCHANGED <<rigKeyed, transmitting, pttKeyed, watchdog,
                                       misreported>>
  BY <1>2, <1>3 DEF TypeOK, KeyIsWatched, KeyIsAccounted, SessionEnds
<1>4. CASE /\ line = "up"
           /\ \E r \in Answers(line) :
                /\ rigKeyed' = (rigKeyed \/ r.acts)
                /\ pttKeyed' = (pttKeyed \/ r.ok)
                /\ transmitting' = r.ok
                /\ watchdog' = (watchdog \/ r.ok)
                /\ misreported' = (misreported \/ (r.acts /\ ~r.ok))
  <2>1. PICK r \in Answers(line) :
          /\ rigKeyed' = (rigKeyed \/ r.acts)
          /\ pttKeyed' = (pttKeyed \/ r.ok)
          /\ transmitting' = r.ok
          /\ watchdog' = (watchdog \/ r.ok)
          /\ misreported' = (misreported \/ (r.acts /\ ~r.ok))
    BY <1>4
  <2>2. r.ok \in BOOLEAN /\ r.acts \in BOOLEAN
    BY ReplyFields
  <2>3. TypeOK'
    BY <1>2, <1>4, <2>1, <2>2 DEF TypeOK
  <2>4. KeyIsWatched' /\ KeyIsAccounted' /\ SessionEnds'
    BY <1>2, <2>1, <2>2 DEF TypeOK, KeyIsWatched, KeyIsAccounted, SessionEnds
  <2> QED BY <2>3, <2>4
<1>5. CASE /\ transmitting' = TRUE /\ watchdog' = TRUE
           /\ UNCHANGED <<rigKeyed, pttKeyed, misreported>>
  BY <1>2, <1>5 DEF TypeOK, KeyIsWatched, KeyIsAccounted, SessionEnds
<1> QED BY <1>1, <1>3, <1>4, <1>5 DEF RequestTX

LEMMA TxOffInv ==
  ASSUME Inv, TxOffCalled
  PROVE  Inv'
<1> USE DEF Inv
<1>1. UNCHANGED <<line, doomed, closed>>
  BY DEF TxOffCalled
<1>2. CASE TxOffCompletes /\ UNCHANGED alarmOpen /\ pttKeyed
  <2>1. line # "null"
    BY <1>2 DEF TypeOK
  <2>2. Release(line, TRUE) /\ ~pttKeyed' /\ ~alarmed' /\ ~watchdog' /\ ~transmitting'
        /\ {pttKeyed, alarmed, watchdog, transmitting}' \subseteq BOOLEAN
    BY <1>2, <2>1 DEF TxOffCompletes
  <2>3. ~rigKeyed' \/ misreported'
    BY <2>2, ReleaseEffect
  <2>4. rigKeyed' \in BOOLEAN /\ misreported' \in BOOLEAN
    BY <2>2, ReleaseEffect
  <2> QED
    BY <1>1, <1>2, <2>2, <2>3, <2>4
       DEF TypeOK, KeyIsWatched, KeyIsAccounted, SessionEnds
<1>3. CASE TxOffCompletes /\ UNCHANGED alarmOpen /\ ~pttKeyed
  BY <1>1, <1>3
     DEF TxOffCompletes, TypeOK, KeyIsWatched, KeyIsAccounted, SessionEnds
<1>4. CASE TxOffAlarms /\ alarmOpen' = TRUE
  <2>1. rigKeyed' \in BOOLEAN /\ misreported' \in BOOLEAN
    BY <1>4, ReleaseEffect DEF TxOffAlarms
  <2> QED
    BY <1>1, <1>4, <2>1
       DEF TxOffAlarms, TypeOK, KeyIsWatched, KeyIsAccounted, SessionEnds
<1> QED BY <1>2, <1>3, <1>4 DEF TxOffCalled

LEMMA DestroyInv ==
  ASSUME Inv, NEW d \in doomed, NEW released \in BOOLEAN, Destroy(d, released)
  PROVE  Inv'
<1> USE DEF Inv
<1>1. /\ rigKeyed' \in BOOLEAN /\ misreported' \in BOOLEAN
      /\ rigKeyed' => rigKeyed
      /\ misreported => misreported'
      /\ released => ~rigKeyed' \/ misreported'
  BY ReleaseEffect DEF Destroy
<1>2. alarmed' = (alarmed \/ ~released) /\ doomed' = doomed \ {d}
      /\ UNCHANGED <<line, transmitting, pttKeyed, watchdog, alarmOpen, closed>>
  BY DEF Destroy
<1>3. TypeOK'
  BY <1>1, <1>2 DEF TypeOK
<1>4. KeyIsWatched' /\ SessionEnds'
  BY <1>2 DEF KeyIsWatched, SessionEnds, TypeOK
<1>5. KeyIsAccounted'
  BY <1>1, <1>2 DEF KeyIsAccounted, TypeOK
<1> QED BY <1>3, <1>4, <1>5

LEMMA ShutdownInv ==
  ASSUME Inv, Shutdown
  PROVE  Inv'
<1> USE DEF Inv
<1>1. rigKeyed' \in BOOLEAN /\ misreported' \in BOOLEAN /\ alarmed' \in BOOLEAN
  <2>1. CASE (pttKeyed /\ line # "null") \/ doomed # {}
    <3>1. PICK released \in BOOLEAN :
            /\ Release("gone", released)
            /\ alarmed' \in {alarmed, alarmed \/ ~released}
      BY <2>1 DEF Shutdown
    <3> QED BY <3>1, ReleaseEffect DEF TypeOK
  <2>2. CASE ~((pttKeyed /\ line # "null") \/ doomed # {})
    BY <2>2 DEF Shutdown, TypeOK
  <2> QED BY <2>1, <2>2
<1> QED
  BY <1>1 DEF Shutdown, TypeOK, Lines, KeyIsWatched, KeyIsAccounted, SessionEnds

LEMMA NextInv == Inv /\ [Next]_vars => Inv'
<1> SUFFICES ASSUME Inv, [Next]_vars PROVE Inv'
  OBVIOUS
<1>1. CASE RequestTXCalled
  BY <1>1, RequestTXInv
<1>2. CASE TxOffCalled
  BY <1>2, TxOffInv
<1>3. CASE AlarmDismissed
  BY <1>3 DEF AlarmDismissed, TxOffResumes, Inv, TypeOK, KeyIsWatched,
              KeyIsAccounted, SessionEnds
<1>4. CASE LinkDrops
  BY <1>4 DEF LinkDrops, Inv, TypeOK, Lines, KeyIsWatched, KeyIsAccounted,
              SessionEnds
<1>5. CASE RadioConnected
  BY <1>5 DEF RadioConnected, Replace, Inv, TypeOK, Lines, KeyIsWatched,
              KeyIsAccounted, SessionEnds
<1>6. CASE RadioStopped
  BY <1>6 DEF RadioStopped, Discard, Inv, TypeOK, Lines, KeyIsWatched,
              KeyIsAccounted, SessionEnds
<1>7. CASE OldManagerDestroyed
  BY <1>7, DestroyInv DEF OldManagerDestroyed
<1>8. CASE ApplicationCloses
  BY <1>8, ShutdownInv DEF ApplicationCloses
<1>9. CASE UNCHANGED vars
  BY <1>9 DEF vars, Inv, TypeOK, KeyIsWatched, KeyIsAccounted, SessionEnds
<1> QED
  BY <1>1, <1>2, <1>3, <1>4, <1>5, <1>6, <1>7, <1>8, <1>9 DEF Next

THEOREM InductiveInvariant == Spec => []Inv
BY InitInv, NextInv, PTL DEF Spec

(* The manager's fields keep their types, and a manager without a radio     *)
(* never believes that it holds a key.                                      *)
THEOREM TypeCorrect == Spec => []TypeOK
<1>1. Inv => TypeOK
  BY DEF Inv
<1> QED BY InductiveInvariant, <1>1, PTL

(* A key held is guarded by the running watchdog, or the operator was told. *)
THEOREM KeyWatched == Spec => []KeyIsWatched
<1>1. Inv => KeyIsWatched
  BY DEF Inv
<1> QED BY InductiveInvariant, <1>1, PTL

(* A keyed rig is never forgotten by a running program.                     *)
THEOREM KeyAccounted == Spec => []KeyIsAccounted
<1>1. Inv => KeyIsAccounted
  BY DEF Inv
<1> QED BY InductiveInvariant, <1>1, PTL

(* requestTX() is never refused for good.                                   *)
THEOREM SessionsEnd == Spec => []SessionEnds
<1>1. Inv => SessionEnds
  BY DEF Inv
<1> QED BY InductiveInvariant, <1>1, PTL
=============================================================================
