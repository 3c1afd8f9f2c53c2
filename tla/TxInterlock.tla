----------------------------- MODULE TxInterlock ----------------------------
(***************************************************************************)
(* What a half-duplex station owes its transceiver, whatever the program   *)
(* does inside: the receiver is off before the rig is keyed, the rig is    *)
(* keyed before audio is played, the audio has ended before the rig is     *)
(* unkeyed, and the rig is unkeyed before the receiver runs again (ADR-071 *)
(* and ADR-073).  Without rig control (VOX) the key is not the program's.  *)
(***************************************************************************)
CONSTANT NoAudio    \* the value of onAir when nothing is played

VARIABLES
  rig,         \* a rig is controlled: it never changes
  receiving,   \* the receiver's audio source runs
  keyed,       \* the rig's PTT line
  onAir        \* what is being played

vars == <<rig, receiving, keyed, onAir>>

Init ==
  /\ rig \in BOOLEAN
  /\ receiving = TRUE /\ keyed = FALSE /\ onAir = NoAudio

StopReceiving ==
  /\ ~keyed /\ onAir = NoAudio
  /\ receiving' = FALSE
  /\ UNCHANGED <<rig, keyed, onAir>>

Key ==
  /\ rig /\ ~receiving /\ onAir = NoAudio
  /\ keyed' = TRUE
  /\ UNCHANGED <<rig, receiving, onAir>>

StartAudio ==
  /\ rig => keyed
  /\ ~receiving /\ onAir = NoAudio
  /\ onAir' # NoAudio
  /\ UNCHANGED <<rig, receiving, keyed>>

EndAudio ==
  /\ onAir' = NoAudio
  /\ UNCHANGED <<rig, receiving, keyed>>

Unkey ==
  /\ onAir = NoAudio
  /\ keyed' = FALSE
  /\ UNCHANGED <<rig, receiving, onAir>>

StartReceiving ==
  /\ ~keyed /\ onAir = NoAudio
  /\ receiving' = TRUE
  /\ UNCHANGED <<rig, keyed, onAir>>

Next ==
  \/ StopReceiving \/ Key \/ StartAudio \/ EndAudio \/ Unkey \/ StartReceiving

Spec == Init /\ [][Next]_vars
=============================================================================
