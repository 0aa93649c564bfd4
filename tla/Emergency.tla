----------------------------- MODULE Emergency -----------------------------
(***************************************************************************)
(* The emergency call as Sms_Task sees it: how far the SOS is, whether the *)
(* voice task is idle, in a call or busy with one, and whether the mode is *)
(* FAMILY_VER2.  The phases in which the SOS dials or waits for a call are *)
(* one, CALLING.                                                           *)
(*                                                                         *)
(* The module SosTask, which has these phases, is shown to implement this; *)
(* SmsTask adds to each step what it does to the messages.                 *)
(***************************************************************************)

VARIABLES
  sosPhase,
  voice,
  ver2      \* familyPalMode = MODE_FAMILY_VER2

SosPhase ==
  {"SOS_END", "SOS_CHECK", "SOS_START", "SOS_WAIT_MODEM_INIT", "SOS_WAIT_SEND_DATA",
   "SOS_WAIT_SEND_SMS", "SOS_INIT", "SOS_WAIT_INIT", "CALLING",
   "FAMILY_VER2_WAIT_END_CALL"}
VoicePhase == {"idle", "inCall", "busy"}

emergencyVars == <<sosPhase, voice, ver2>>

EmergencyInit == sosPhase = "SOS_END" /\ voice = "idle" /\ ver2 \in BOOLEAN

VoiceCallTask_IsIdle == voice = "idle"

\* Where a call under way can be given up at once, the voice task is idle then;
\* otherwise it goes on until it has hung up.
VoiceCallTask_EndCall == voice' = voice \/ (voice = "busy" /\ voice' = "idle")

Goes(from, to) == sosPhase = from /\ sosPhase' \in to

\* A turn of Sos_Task.  In FAMILY_VER2 a caller who is not in userList is
\* refused, and a call that is answered is waited for to end.
SosTurn ==
  /\ \/ /\ \/ Goes("SOS_END", {"SOS_END"})
           \/ Goes("SOS_CHECK", {"SOS_START", "SOS_END"})
           \/ Goes("SOS_START", {"SOS_WAIT_SEND_DATA", "SOS_WAIT_MODEM_INIT"})
           \/ Goes("SOS_WAIT_MODEM_INIT", {"SOS_WAIT_SEND_DATA", "SOS_END", sosPhase})
           \/ Goes("SOS_WAIT_SEND_DATA", {"SOS_WAIT_SEND_SMS"})
           \/ Goes("SOS_WAIT_SEND_SMS", {"SOS_INIT", sosPhase})
           \/ Goes("SOS_INIT", {IF ver2 THEN "CALLING" ELSE "SOS_WAIT_INIT"})
           \/ Goes("SOS_WAIT_INIT", IF ver2 THEN {sosPhase} ELSE {"CALLING", sosPhase})
           \/ Goes("CALLING", {"SOS_INIT", "SOS_END", sosPhase})
           \/ Goes("CALLING", {"FAMILY_VER2_WAIT_END_CALL"}) /\ ver2 /\ voice = "inCall"
           \/ Goes("FAMILY_VER2_WAIT_END_CALL", IF ver2 THEN {"CALLING", sosPhase} ELSE {sosPhase})
        /\ UNCHANGED voice
     \/ Goes("CALLING", {sosPhase}) /\ ver2 /\ VoiceCallTask_EndCall
  /\ UNCHANGED ver2

\* Io_Task: the power key ends the SOS and the call, the SOS key or an alarm
\* starts one; power off and on.
PowerKey == sosPhase' = "SOS_END" /\ VoiceCallTask_EndCall /\ UNCHANGED ver2
PowerOn == sosPhase' = "SOS_END" /\ voice' = "idle" /\ UNCHANGED ver2
StartKey == Goes("SOS_END", {"SOS_CHECK"}) /\ voice # "inCall" /\ UNCHANGED <<voice, ver2>>

\* A turn of VoiceCall_Task: only what has been set up becomes a call.
VoiceTurn ==
  /\ voice' \in VoicePhase
  /\ voice = "idle" => voice' # "inCall"
  /\ UNCHANGED <<sosPhase, ver2>>

\* A message between two emergencies, or an upload at any time, may change the mode.
SetMode == ver2' \in BOOLEAN /\ UNCHANGED <<sosPhase, voice>>

EmergencyNext == SosTurn \/ PowerKey \/ PowerOn \/ StartKey \/ VoiceTurn \/ SetMode

EmergencySpec == EmergencyInit /\ [][EmergencyNext]_emergencyVars
=============================================================================
