---------------------------- MODULE CallService ----------------------------
(***************************************************************************)
(* What VoiceCall_Task (io_tasks.c) promises its clients, Sos_Task and     *)
(* Io_Task: the phase they read, the three requests they make, and which   *)
(* phase may follow which.  Modem, network and retries are hidden.         *)
(*                                                                         *)
(* The requests (VoiceCallTask_StartCall and its siblings) are the code's, *)
(* and the module VoiceCall uses them as they are.  The steps of the task  *)
(* itself are an abstraction that VoiceCall is shown to implement.         *)
(***************************************************************************)
EXTENDS Naturals

CONSTANTS
  Number,      \* the phone numbers that can be dialed
  NoNumber     \* the empty string

ASSUME NoNumberAssumption == NoNumber \notin Number

VARIABLES
  voiceCall_TaskPhase,
  startCall, answerCall, endCall,    \* the requests not yet consumed
  dialingPhoneNumber                 \* the number of the last StartCall

callVars ==
  <<voiceCall_TaskPhase, startCall, answerCall, endCall, dialingPhoneNumber>>

EndStatus ==
  {"END_CALL", "MISS_CALL", "BUSY_CALL", "NO_ANSWER_CALL", "UNSUCCESS_CALL"}

\* The phases with a dial or an answer still to be sent to the modem.
Setup == {"SETUP_START_CALL", "START_CALL", "SETUP_ANSWER_CALL", "ANSWER_CALL"}

HangingUp == {"HANG_UP_CALL", "WAIT_HANG_UP_CALL", "ENSURE_HANG_UP_CALL"}

Phase ==
  {"NO_CALL", "INCOMING_CALL", "IN_CALLING", "WAIT_START_CALL",
   "WAIT_ANSWER_CALL", "CHECK_END_CALL"} \cup Setup \cup HangingUp \cup EndStatus

\* The phases that wait for a timer, the modem or the next turn.
Transient == Phase \ ({"NO_CALL", "INCOMING_CALL", "IN_CALLING"} \cup EndStatus)

VoiceCallTask_IsIdle == voiceCall_TaskPhase \in {"NO_CALL"} \cup EndStatus

To(p) == voiceCall_TaskPhase' = p

Requests(s, a, e) == startCall' = s /\ answerCall' = a /\ endCall' = e

-----------------------------------------------------------------------------
\* The requests.  A request the code ignores leaves callVars as they are.

\* Mutant: a number is taken whatever the phase.
VoiceCallTask_StartCallAnyPhase(n) ==
  IF n # NoNumber
  THEN /\ UNCHANGED voiceCall_TaskPhase
       /\ Requests(TRUE, FALSE, FALSE)
       /\ dialingPhoneNumber' = n
  ELSE UNCHANGED callVars

VoiceCallTask_StartCall(n) ==
  IF VoiceCallTask_IsIdle /\ n # NoNumber
  THEN /\ To("NO_CALL")
       /\ Requests(TRUE, FALSE, FALSE)
       /\ dialingPhoneNumber' = n
  ELSE UNCHANGED callVars

VoiceCallTask_AnswerCall ==
  IF voiceCall_TaskPhase = "INCOMING_CALL"
  THEN /\ Requests(FALSE, TRUE, FALSE)
       /\ UNCHANGED <<voiceCall_TaskPhase, dialingPhoneNumber>>
  ELSE UNCHANGED callVars

\* Mutant: the request to answer survives the request to end the call.
VoiceCallTask_EndCallKeepsAnswer ==
  /\ IF voiceCall_TaskPhase \in {"INCOMING_CALL", "IN_CALLING",
                                 "WAIT_START_CALL", "WAIT_ANSWER_CALL"}
     THEN /\ endCall' = TRUE
          /\ UNCHANGED <<startCall, answerCall, voiceCall_TaskPhase>>
     ELSE IF voiceCall_TaskPhase \in {"SETUP_ANSWER_CALL", "ANSWER_CALL"}
     THEN Requests(FALSE, FALSE, FALSE) /\ To("HANG_UP_CALL")
     ELSE To("END_CALL") /\ UNCHANGED <<startCall, answerCall, endCall>>
  /\ UNCHANGED dialingPhoneNumber

VoiceCallTask_EndCall ==
  /\ IF voiceCall_TaskPhase \in {"INCOMING_CALL", "IN_CALLING",
                                 "WAIT_START_CALL", "WAIT_ANSWER_CALL"}
     THEN Requests(FALSE, FALSE, TRUE) /\ UNCHANGED voiceCall_TaskPhase
     ELSE IF voiceCall_TaskPhase \in {"SETUP_ANSWER_CALL", "ANSWER_CALL"}
     THEN Requests(FALSE, FALSE, FALSE) /\ To("HANG_UP_CALL")
     ELSE To("END_CALL") /\ UNCHANGED <<startCall, answerCall, endCall>>
  /\ UNCHANGED dialingPhoneNumber

VoiceCallTask_ClearEndCallStatus ==
  /\ IF voiceCall_TaskPhase \in EndStatus
     THEN To("NO_CALL") ELSE UNCHANGED voiceCall_TaskPhase
  /\ UNCHANGED <<startCall, answerCall, endCall, dialingPhoneNumber>>

VoiceCallTask_ClearCallAction ==
  /\ Requests(FALSE, FALSE, FALSE)
  /\ IF voiceCall_TaskPhase \in EndStatus
     THEN To("NO_CALL") ELSE UNCHANGED voiceCall_TaskPhase
  /\ UNCHANGED dialingPhoneNumber

\* Power on.  The requests are left as they were.
VoiceCallTask_Init ==
  /\ To("NO_CALL")
  /\ UNCHANGED <<startCall, answerCall, endCall, dialingPhoneNumber>>

Request ==
  \/ \E n \in Number \cup {NoNumber} : VoiceCallTask_StartCall(n)
  \/ VoiceCallTask_AnswerCall
  \/ VoiceCallTask_EndCall
  \/ VoiceCallTask_ClearEndCallStatus
  \/ VoiceCallTask_ClearCallAction
  \/ VoiceCallTask_Init

-----------------------------------------------------------------------------
\* The task.  Each step names the phase it leaves, the phases it may enter and
\* the requests it consumes.

Move(from, to) == voiceCall_TaskPhase \in from /\ voiceCall_TaskPhase' \in to

KeepRequests == UNCHANGED <<startCall, answerCall, endCall>>

\* A number is dialed only on request; the request is consumed.
BeginDial ==
  /\ startCall
  /\ Move({"NO_CALL"}, {"SETUP_START_CALL", "UNSUCCESS_CALL"})
  /\ Requests(FALSE, answerCall, endCall)

\* A call is answered only on request; the request is consumed.
BeginAnswer ==
  /\ answerCall
  /\ Move({"INCOMING_CALL"}, {"SETUP_ANSWER_CALL", "UNSUCCESS_CALL"})
  /\ Requests(startCall, FALSE, endCall)

\* A request to end the call is consumed by hanging up, or by giving up a dial
\* or an answer the modem did not accept.
ObeyEnd ==
  /\ endCall
  /\ \/ Move({"INCOMING_CALL", "IN_CALLING", "WAIT_START_CALL",
              "WAIT_ANSWER_CALL"}, {"HANG_UP_CALL"})
     \/ Move({"WAIT_START_CALL"}, {"END_CALL"})
     \/ Move({"WAIT_ANSWER_CALL"}, {"UNSUCCESS_CALL"})
  /\ Requests(startCall, answerCall, FALSE)

\* A dial goes on, fails, is retried or connects; never once it must end.
Dial ==
  /\ ~endCall
  /\ \/ Move({"SETUP_START_CALL"}, {"START_CALL", "UNSUCCESS_CALL"})
     \/ Move({"START_CALL"}, {"WAIT_START_CALL"})
     \/ Move({"WAIT_START_CALL"}, {"START_CALL", "IN_CALLING", "UNSUCCESS_CALL"})
  /\ KeepRequests

Answer ==
  /\ \/ Move({"SETUP_ANSWER_CALL"}, {"ANSWER_CALL", "END_CALL"})
     \/ Move({"ANSWER_CALL"}, {"WAIT_ANSWER_CALL"})
     \/ Move({"WAIT_ANSWER_CALL"}, {"MISS_CALL", "UNSUCCESS_CALL"})
     \/ ~endCall /\ Move({"WAIT_ANSWER_CALL"}, {"IN_CALLING"})
  /\ KeepRequests

\* The far end, or the network, ends the call; a call the network refused at
\* once may be dialed again.
FarEnd ==
  /\ ~endCall
  /\ \/ Move({"IN_CALLING"}, {"CHECK_END_CALL", "BUSY_CALL", "NO_ANSWER_CALL",
                              "UNSUCCESS_CALL"})
     \/ Move({"CHECK_END_CALL"}, {"START_CALL", "UNSUCCESS_CALL", "END_CALL"})
  /\ KeepRequests

HangUp ==
  /\ \/ Move({"HANG_UP_CALL"}, {"WAIT_HANG_UP_CALL"})
     \/ Move({"WAIT_HANG_UP_CALL"},
             {"HANG_UP_CALL", "ENSURE_HANG_UP_CALL", "END_CALL"})
     \/ Move({"ENSURE_HANG_UP_CALL"}, {"END_CALL"})
  /\ KeepRequests

\* A call comes in: it rings, or is refused because of an alarm or an SOS.
Incoming ==
  /\ \/ /\ Move({"NO_CALL"} \cup EndStatus, {"INCOMING_CALL"})
        /\ KeepRequests
     \/ /\ Move({"NO_CALL", "INCOMING_CALL"}, {"HANG_UP_CALL"})
        /\ KeepRequests
     \/ /\ Move(EndStatus, {"INCOMING_CALL"})
        /\ Requests(FALSE, FALSE, TRUE)
     \/ /\ Move({"INCOMING_CALL"}, {"MISS_CALL"})
        /\ KeepRequests
     \/ /\ Move({"INCOMING_CALL"}, {"INCOMING_CALL"})     \* auto answer
        /\ Requests(FALSE, TRUE, FALSE)

\* The 10 s of an end status are over.
Settle == Move(EndStatus, {"NO_CALL"}) /\ KeepRequests

TaskStep ==
  /\ BeginDial \/ BeginAnswer \/ ObeyEnd \/ Dial \/ Answer \/ FarEnd
       \/ HangUp \/ Incoming \/ Settle
  /\ UNCHANGED dialingPhoneNumber

-----------------------------------------------------------------------------
ServiceInit ==
  /\ voiceCall_TaskPhase = "NO_CALL"
  /\ startCall = FALSE /\ answerCall = FALSE /\ endCall = FALSE
  /\ dialingPhoneNumber = NoNumber

ServiceNext == Request \/ TaskStep

ServiceSpec == ServiceInit /\ [][ServiceNext]_callVars

-----------------------------------------------------------------------------
CallTypeOK ==
  /\ voiceCall_TaskPhase \in Phase
  /\ startCall \in BOOLEAN /\ answerCall \in BOOLEAN /\ endCall \in BOOLEAN
  /\ dialingPhoneNumber \in Number \cup {NoNumber}

\* At most one of the three requests is pending: a later request replaces an
\* earlier one, whichever task made it.
OneRequest ==
  /\ ~(startCall /\ answerCall)
  /\ ~(startCall /\ endCall)
  /\ ~(answerCall /\ endCall)

\* Once a dial is under way there is no unanswered request to dial or answer,
\* and as long as it may still send or repeat ATD nobody has asked to end it.
DialHasNoRequest ==
  /\ voiceCall_TaskPhase \in {"SETUP_START_CALL", "START_CALL",
                              "CHECK_END_CALL"} => ~endCall
  /\ voiceCall_TaskPhase \in Setup \cup {"WAIT_START_CALL", "IN_CALLING"}
       => ~answerCall
  /\ startCall => VoiceCallTask_IsIdle \/ voiceCall_TaskPhase = "INCOMING_CALL"
                    \/ voiceCall_TaskPhase \in HangingUp
=============================================================================
