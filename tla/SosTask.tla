------------------------------ MODULE SosTask ------------------------------
(***************************************************************************)
(* Sos_Task (sos_tasks.c), the emergency call, together with Io_Task's     *)
(* keys (io_tasks.c), as clients of the voice task.                        *)
(*                                                                         *)
(* AppRun's loop runs Sos_Task, Io_Task and VoiceCall_Task in this order;  *)
(* pc names the task whose turn it is.  The voice task is the abstract one *)
(* of CallService, which the module VoiceCall implements.                  *)
(*                                                                         *)
(* In the modes CALL_CENTER and FAMILY_VER1 the task dials the numbers of  *)
(* userList one after the other until a call is answered; in FAMILY_VER2   *)
(* it asks for a call by SMS and answers it if the caller is in userList.  *)
(*                                                                         *)
(* The configuration is written by messages, in a turn of the loop, and by *)
(* the USB interrupt at any time.  An upload in the middle of a turn       *)
(* counts as one before or after it.                                       *)
(*                                                                         *)
(* Free choices: whether a timer has expired, the modem has coverage, the  *)
(* SMS task is idle, the far end pressed the DTMF key, the caller is known.*)
(* Prompts, the contents of messages and sosAction are left out.           *)
(***************************************************************************)
EXTENDS CallService

CONSTANTS
  Mode,               \* the values of sysCfg.familyPalMode
  SmsMode,            \* bound: those a message changes the configuration of
  UploadMode,         \* bound: those an upload may set
  Places,             \* bound: the places of userList that are filled together
  Dtmf,               \* the values sysCfg.featureSet & FEATURE_DTMF_ON may have
  MaxStartCallRetry,  \* MAX_SOS_START_CALL_RETRY, 6
  MaxVer2Retry,       \* 2
  MaxPromptRetry,     \* 4
  MaxSmsRetry         \* 2

ASSUME SosAssumption ==
  /\ Mode \subseteq {"CALL_CENTER", "FAMILY_VER1", "FAMILY_VER2"}
  /\ SmsMode \subseteq Mode /\ UploadMode \subseteq Mode
  /\ Dtmf \in SUBSET BOOLEAN \ {{}}
  /\ MaxStartCallRetry \in Nat /\ MaxVer2Retry \in Nat
  /\ MaxPromptRetry \in Nat /\ MaxSmsRetry \in Nat

VARIABLES
  pc,
  familyPalMode,               \* sysCfg: the mode
  userList,                    \* sysCfg: the phone numbers of userList
  sosPhase,
  sosStart,
  callingNumberIndex, nextNumberIndex,
  sosStartCallRetry, familyVer2Retry, sosSendSmsRetry,
  dtmfKeyPressed, dtmfPromptRetry,
  uploaded                     \* history: a configuration was uploaded in this SOS,
                               \* since it last chose a number of the list

sosRetryVars == <<sosStartCallRetry, familyVer2Retry, sosSendSmsRetry>>
dtmfVars == <<dtmfKeyPressed, dtmfPromptRetry>>
indexVars == <<callingNumberIndex, nextNumberIndex>>
sosVars == <<sosPhase, sosStart, indexVars, sosRetryVars, dtmfVars>>
cfgVars == <<familyPalMode, userList>>
vars == <<callVars, sosVars, pc, cfgVars, uploaded>>

\* MAX_CALLING_NUMBER_CALL_CENTER and MAX_CALLING_NUMBER_FAMILY_VER1.
MaxNumber == IF familyPalMode = "CALL_CENTER" THEN 2 ELSE 3
Index == 0 .. MaxNumber - 1
UserIndex == 0 .. 2

List == {l \in [UserIndex -> Number \cup {NoNumber}] :
           {i \in UserIndex : l[i] # NoNumber} \in Places}

WaitCalling == {"CALL_CENTER_WAIT_CALLING", "FAMILY_VER1_WAIT_CALLING"}
InCallingPhase == {"CALL_CENTER_IN_CALLING", "FAMILY_VER1_IN_CALLING"}

SosPhase ==
  {"SOS_END", "SOS_CHECK", "SOS_START", "SOS_WAIT_MODEM_INIT",
   "SOS_WAIT_SEND_DATA", "SOS_WAIT_SEND_SMS", "SOS_INIT", "SOS_WAIT_INIT",
   "CALL_CENTER_SOS_END", "FAMILY_VER1_NOT_PRESS_KEY", "FAMILY_VER1_SOS_END",
   "FAMILY_VER2_WAIT_CALLING", "FAMILY_VER2_CHECK_PHONE_CALL",
   "FAMILY_VER2_WAIT_ANSWER_CALL", "FAMILY_VER2_WAIT_END_CALL",
   "FAMILY_VER2_SOS_END"} \cup WaitCalling \cup InCallingPhase

Dials == familyPalMode \in {"CALL_CENTER", "FAMILY_VER1"}

SosTask_IsWaititngForCall ==
  familyPalMode = "FAMILY_VER2"
    /\ sosPhase \in {"FAMILY_VER2_WAIT_CALLING", "FAMILY_VER2_CHECK_PHONE_CALL",
                     "FAMILY_VER2_WAIT_ANSWER_CALL"}

-----------------------------------------------------------------------------
Init ==
  /\ ServiceInit
  /\ pc = "sos"
  /\ familyPalMode \in Mode
  /\ userList \in List
  /\ sosPhase = "SOS_END" /\ sosStart = FALSE
  /\ callingNumberIndex = 0 /\ nextNumberIndex = 0
  /\ sosStartCallRetry = 0 /\ familyVer2Retry = 0 /\ sosSendSmsRetry = 0
  /\ dtmfKeyPressed = FALSE /\ dtmfPromptRetry = 0
  /\ uploaded = FALSE

Goto(p) == sosPhase' = p
Wait == UNCHANGED <<callVars, sosVars>>

\* A step that changes the phase and, at most, the requests.
Only(p, request) ==
  Goto(p) /\ request /\ UNCHANGED <<sosStart, indexVars, sosRetryVars, dtmfVars>>

Silent == UNCHANGED callVars

-----------------------------------------------------------------------------
\* Sos_Task, phase by phase: what the modes share.

\* A number to call: the first one from nextNumberIndex on, round the list.  An
\* upload may have left nextNumberIndex behind the list of the new mode.
InList == nextNumberIndex \in Index
Look(k) ==
  IF InList THEN (nextNumberIndex + k) % MaxNumber
  ELSE IF k = 0 THEN nextNumberIndex ELSE k - 1
Looks == IF InList THEN Index ELSE Index \cup {MaxNumber}
Candidates == {k \in Looks : userList[Look(k)] # NoNumber}

\* Mutants: the number is taken without a look at it; the index of the next
\* number does not wrap; the next number is the one just chosen.
FirstUnchecked == 0
SuccessorNoWrap(i, max) == i + 1
SuccessorSame(i, max) == i

First == CHOOSE k \in Candidates : \A j \in Candidates : k <= j
Successor(i, max) == IF i + 1 >= max THEN 0 ELSE i + 1

Begins ==
  /\ Goto(IF sosStart THEN "SOS_START" ELSE "SOS_INIT")
  /\ sosStart' = FALSE

Chooses(i, max) ==
  /\ callingNumberIndex' = i /\ nextNumberIndex' = Successor(i, max)
  /\ Begins

\* With no number the search ends where it began: from behind the list it does
\* not end (SosCheckSpins).
SosCheck ==
  /\ sosPhase = "SOS_CHECK"
  /\ \/ Dials /\ Candidates # {} /\ Chooses(Look(First), MaxNumber)
     \/ /\ Dials /\ Candidates = {} /\ InList
        /\ callingNumberIndex' = nextNumberIndex
        /\ Goto("SOS_END")
        /\ UNCHANGED <<nextNumberIndex, sosStart>>
     \/ /\ ~Dials
        /\ IF \E i \in UserIndex : userList[i] # NoNumber
           THEN Begins
           ELSE Goto("SOS_END") /\ UNCHANGED sosStart
        /\ UNCHANGED indexVars
  /\ UNCHANGED <<callVars, sosRetryVars, dtmfVars>>

\* The modem has coverage, or is waited for.
SosStart ==
  /\ sosPhase = "SOS_START"
  /\ Only("SOS_WAIT_SEND_DATA", Silent) \/ Only("SOS_WAIT_MODEM_INIT", Silent)

SosWaitModemInit ==
  /\ sosPhase = "SOS_WAIT_MODEM_INIT"
  /\ Only("SOS_WAIT_SEND_DATA", Silent) \/ Only("SOS_END", Silent) \/ Wait

SosWaitSendData ==
  /\ sosPhase = "SOS_WAIT_SEND_DATA"
  /\ Only("SOS_WAIT_SEND_SMS", Silent)

\* SMS idle; or the time for the message is over: send it again, or go on.
SosWaitSendSms ==
  /\ sosPhase = "SOS_WAIT_SEND_SMS"
  /\ \/ Only("SOS_INIT", Silent)
     \/ Wait
     \/ /\ sosSendSmsRetry' = sosSendSmsRetry + 1
        /\ Goto(IF sosSendSmsRetry < MaxSmsRetry
                THEN "SOS_WAIT_SEND_SMS" ELSE "SOS_INIT")
        /\ UNCHANGED <<callVars, sosStart, indexVars, sosStartCallRetry,
                       familyVer2Retry, dtmfVars>>

-----------------------------------------------------------------------------
\* CALL_CENTER and FAMILY_VER1.

SosInit ==
  /\ sosPhase = "SOS_INIT"
  /\ Only(IF Dials THEN "SOS_WAIT_INIT" ELSE "FAMILY_VER2_WAIT_CALLING", Silent)

\* A phase of the one mode or of the other.
Phase_Of(callCenter, familyVer1) ==
  IF familyPalMode = "CALL_CENTER" THEN callCenter ELSE familyVer1
WaitCallingPhase == Phase_Of("CALL_CENTER_WAIT_CALLING", "FAMILY_VER1_WAIT_CALLING")
CallingPhase == Phase_Of("CALL_CENTER_IN_CALLING", "FAMILY_VER1_IN_CALLING")

\* 3 s are over and the SMS task is idle.
SosWaitInit ==
  /\ Dials /\ sosPhase = "SOS_WAIT_INIT"
  /\ \/ Wait
     \/ /\ VoiceCallTask_StartCall(userList[callingNumberIndex])
        /\ Goto(WaitCallingPhase)
        /\ IF familyPalMode = "CALL_CENTER" THEN UNCHANGED dtmfVars
           ELSE dtmfKeyPressed' = FALSE /\ dtmfPromptRetry' = 0
        /\ UNCHANGED <<sosStart, indexVars, sosRetryVars>>

\* Mutant: the failures are not counted.
SosWaitCallingNoCount ==
  /\ Dials /\ sosPhase = WaitCallingPhase
  /\ IF voiceCall_TaskPhase = "IN_CALLING"
     THEN Only(CallingPhase, Silent)
     ELSE Only("SOS_CHECK", VoiceCallTask_ClearEndCallStatus)

\* The call is up; or it failed, or 20 s are over: the next number, or the end.
SosWaitCalling ==
  /\ Dials /\ sosPhase = WaitCallingPhase
  /\ IF voiceCall_TaskPhase = "IN_CALLING"
     THEN /\ sosStartCallRetry' = 0
          /\ Goto(CallingPhase)
          /\ UNCHANGED <<callVars, sosStart, indexVars, familyVer2Retry,
                         sosSendSmsRetry, dtmfVars>>
     ELSE \/ (voiceCall_TaskPhase # "UNSUCCESS_CALL" /\ Wait)
          \/ /\ VoiceCallTask_ClearEndCallStatus
             /\ IF sosStartCallRetry < MaxStartCallRetry
                THEN /\ sosStartCallRetry' = sosStartCallRetry + 1
                     /\ Goto("SOS_CHECK")
                ELSE /\ sosStartCallRetry' = 0
                     /\ Goto("CALL_CENTER_SOS_END")
             /\ UNCHANGED <<sosStart, indexVars, familyVer2Retry,
                            sosSendSmsRetry, dtmfVars>>

\* How the call ended decides between the next number and the end of the SOS.
CallOver == voiceCall_TaskPhase \in {"END_CALL", "NO_CALL"}

NextNumberOnFailure ==
  /\ voiceCall_TaskPhase \in {"BUSY_CALL", "NO_ANSWER_CALL", "UNSUCCESS_CALL"}
  /\ Only("SOS_CHECK", VoiceCallTask_ClearEndCallStatus)

CallCenterInCalling ==
  /\ familyPalMode = "CALL_CENTER" /\ sosPhase = "CALL_CENTER_IN_CALLING"
  /\ \/ NextNumberOnFailure
     \/ (CallOver /\ Only("CALL_CENTER_SOS_END", Silent))
     \/ /\ voiceCall_TaskPhase \notin
             {"BUSY_CALL", "NO_ANSWER_CALL", "UNSUCCESS_CALL", "END_CALL", "NO_CALL"}
        /\ Wait

MayBeOn == TRUE \in Dtmf
MayBeOff == FALSE \in Dtmf

\* Without the far end's key the call does not count as answered: it is asked
\* for MaxPromptRetry times, then the call is ended.
FamilyVer1InCalling ==
  /\ familyPalMode = "FAMILY_VER1" /\ sosPhase = "FAMILY_VER1_IN_CALLING"
  /\ \/ NextNumberOnFailure
     \/ /\ CallOver
        /\ \/ MayBeOn /\ ~dtmfKeyPressed /\ Only("SOS_CHECK", Silent)
           \/ (MayBeOff \/ dtmfKeyPressed) /\ Only("FAMILY_VER1_SOS_END", Silent)
     \/ /\ voiceCall_TaskPhase \notin
             {"BUSY_CALL", "NO_ANSWER_CALL", "UNSUCCESS_CALL", "END_CALL", "NO_CALL"}
        /\ \/ Wait
           \/ /\ MayBeOn /\ ~dtmfKeyPressed
              /\ dtmfKeyPressed' = TRUE
              /\ UNCHANGED <<callVars, sosPhase, sosStart, indexVars,
                             sosRetryVars, dtmfPromptRetry>>
           \/ /\ MayBeOn /\ ~dtmfKeyPressed /\ voiceCall_TaskPhase = "IN_CALLING"
              /\ IF dtmfPromptRetry < MaxPromptRetry
                 THEN /\ dtmfPromptRetry' = dtmfPromptRetry + 1
                      /\ UNCHANGED <<callVars, sosPhase>>
                 ELSE /\ dtmfPromptRetry' = 0
                      /\ VoiceCallTask_EndCall
                      /\ Goto("FAMILY_VER1_NOT_PRESS_KEY")
              /\ UNCHANGED <<sosStart, indexVars, sosRetryVars, dtmfKeyPressed>>

FamilyVer1NotPressKey ==
  /\ familyPalMode = "FAMILY_VER1" /\ sosPhase = "FAMILY_VER1_NOT_PRESS_KEY"
  /\ IF CallOver THEN Only("SOS_CHECK", Silent) ELSE Wait

\* Mutant: the requests are not cleared when the SOS ends.
DialingSosEndKeepsRequests ==
  /\ Dials
  /\ sosPhase = Phase_Of("CALL_CENTER_SOS_END", "FAMILY_VER1_SOS_END")
  /\ Only("SOS_END", Silent)

\* FAMILY_VER1 has no case for CALL_CENTER_SOS_END, where its SosWaitCalling
\* ends up after the last failure: nothing but Io_Task leaves it.
DialingSosEnd ==
  /\ Dials
  /\ sosPhase = Phase_Of("CALL_CENTER_SOS_END", "FAMILY_VER1_SOS_END")
  /\ VoiceCallTask_ClearCallAction
  /\ callingNumberIndex' = 0 /\ nextNumberIndex' = 0
  /\ Goto("SOS_END")
  /\ UNCHANGED <<sosStart, sosRetryVars, dtmfVars>>

-----------------------------------------------------------------------------
\* FAMILY_VER2.

\* A call comes in; or 180 s are over: ask again, or give up.
Ver2WaitCalling ==
  /\ ~Dials /\ sosPhase = "FAMILY_VER2_WAIT_CALLING"
  /\ IF voiceCall_TaskPhase = "INCOMING_CALL"
     THEN Only("FAMILY_VER2_CHECK_PHONE_CALL", Silent)
     ELSE \/ Wait
          \/ /\ IF familyVer2Retry < MaxVer2Retry
                THEN familyVer2Retry' = familyVer2Retry + 1 /\ Goto("SOS_INIT")
                ELSE familyVer2Retry' = 0 /\ Goto("FAMILY_VER2_SOS_END")
             /\ UNCHANGED <<callVars, sosStart, indexVars, sosStartCallRetry,
                            sosSendSmsRetry, dtmfVars>>

\* The caller's number is known and in userList, is not, or is not known in 20 s.
Ver2CheckPhoneCall ==
  /\ ~Dials /\ sosPhase = "FAMILY_VER2_CHECK_PHONE_CALL"
  /\ \/ Only("FAMILY_VER2_WAIT_ANSWER_CALL", VoiceCallTask_AnswerCall)
     \/ Only("FAMILY_VER2_WAIT_CALLING", VoiceCallTask_EndCall)
     \/ Wait

\* Mutant: a call being answered is taken for one that is up.
Ver2WaitAnswerCallAnyPhase ==
  /\ ~Dials /\ sosPhase = "FAMILY_VER2_WAIT_ANSWER_CALL"
  /\ IF ~VoiceCallTask_IsIdle
     THEN Only("FAMILY_VER2_WAIT_END_CALL", Silent)
     ELSE Only("FAMILY_VER2_WAIT_CALLING", Silent)

Ver2WaitAnswerCall ==
  /\ ~Dials /\ sosPhase = "FAMILY_VER2_WAIT_ANSWER_CALL"
  /\ IF voiceCall_TaskPhase = "IN_CALLING"
     THEN Only("FAMILY_VER2_WAIT_END_CALL", Silent)
     ELSE IF VoiceCallTask_IsIdle
     THEN Only("FAMILY_VER2_WAIT_CALLING", Silent)
     ELSE Wait

Ver2WaitEndCall ==
  /\ ~Dials /\ sosPhase = "FAMILY_VER2_WAIT_END_CALL"
  /\ IF voiceCall_TaskPhase = "UNSUCCESS_CALL"
     THEN Only("FAMILY_VER2_WAIT_CALLING", Silent)
     ELSE IF CallOver
     THEN Only("FAMILY_VER2_SOS_END", Silent)
     ELSE Wait

Ver2SosEnd ==
  /\ ~Dials /\ sosPhase = "FAMILY_VER2_SOS_END"
  /\ Only("SOS_END", VoiceCallTask_ClearCallAction)

Progress ==
  \/ SosCheck \/ SosStart \/ SosWaitModemInit \/ SosWaitSendData \/ SosWaitSendSms
  \/ SosInit \/ SosWaitInit \/ SosWaitCalling \/ CallCenterInCalling
  \/ FamilyVer1InCalling \/ FamilyVer1NotPressKey \/ DialingSosEnd
  \/ Ver2WaitCalling \/ Ver2CheckPhoneCall \/ Ver2WaitAnswerCall
  \/ Ver2WaitEndCall \/ Ver2SosEnd

\* The phases after SOS_INIT for which the switch of a mode has a case.
CasesOf(mode) ==
  CASE mode = "CALL_CENTER" ->
         {"SOS_WAIT_INIT", "CALL_CENTER_WAIT_CALLING", "CALL_CENTER_IN_CALLING",
          "CALL_CENTER_SOS_END"}
    [] mode = "FAMILY_VER1" ->
         {"SOS_WAIT_INIT", "FAMILY_VER1_WAIT_CALLING", "FAMILY_VER1_IN_CALLING",
          "FAMILY_VER1_NOT_PRESS_KEY", "FAMILY_VER1_SOS_END"}
    [] mode = "FAMILY_VER2" ->
         {"FAMILY_VER2_WAIT_CALLING", "FAMILY_VER2_CHECK_PHONE_CALL",
          "FAMILY_VER2_WAIT_ANSWER_CALL", "FAMILY_VER2_WAIT_END_CALL",
          "FAMILY_VER2_SOS_END"}

\* The phases in which Sos_Task does nothing: no SOS, or one with no case.
AtRest ==
  sosPhase \notin CasesOf(familyPalMode) \cup
    {"SOS_CHECK", "SOS_START", "SOS_WAIT_MODEM_INIT", "SOS_WAIT_SEND_DATA",
     "SOS_WAIT_SEND_SMS", "SOS_INIT"}

Sos_Task ==
  /\ pc = "sos"
  /\ Progress \/ (AtRest /\ Wait)
  /\ uploaded' = (uploaded /\ ~(sosPhase = "SOS_CHECK" /\ callingNumberIndex' \in Index))
  /\ pc' = "io"
  /\ UNCHANGED cfgVars

\* The search that began behind the list goes round it, and all tasks wait, until
\* an upload gives it a number.
SosCheckSpins ==
  /\ pc = "sos"
  /\ sosPhase = "SOS_CHECK" /\ Dials /\ Candidates = {} /\ ~InList
  /\ pc' = "spin"
  /\ UNCHANGED <<callVars, sosVars, cfgVars, uploaded>>

SosCheckFinds ==
  /\ pc = "spin"
  /\ \E i \in 0 .. 1 : userList[i] # NoNumber /\ Chooses(i, 2)
  /\ uploaded' = FALSE
  /\ pc' = "io"
  /\ UNCHANGED <<callVars, sosRetryVars, dtmfVars, cfgVars>>

-----------------------------------------------------------------------------
\* Io_Task: what the keys do.  First the power and the power key, then, unless
\* the power is off, the others.

SosTask_Start ==
  /\ VoiceCallTask_ClearCallAction
  /\ sosPhase' = "SOS_CHECK" /\ sosStart' = TRUE
  /\ nextNumberIndex' = 0
  /\ sosStartCallRetry' = 0 /\ familyVer2Retry' = 0 /\ sosSendSmsRetry' = 0
  /\ UNCHANGED <<callingNumberIndex, dtmfVars>>

\* The power key: SosTask_End, which clears the requests, then
\* VoiceCallTask_EndCall, which depends on the phase that leaves.
PowerKey ==
  /\ sosPhase' = "SOS_END"
  /\ IF sosPhase = "SOS_END" \/ voiceCall_TaskPhase \in
          {"INCOMING_CALL", "IN_CALLING", "WAIT_START_CALL", "WAIT_ANSWER_CALL",
           "SETUP_ANSWER_CALL", "ANSWER_CALL"}
     THEN VoiceCallTask_EndCall
     ELSE Requests(FALSE, FALSE, FALSE) /\ To("END_CALL") /\ UNCHANGED dialingPhoneNumber
  /\ UNCHANGED <<sosStart, indexVars, sosRetryVars, dtmfVars>>

\* The SOS key, or an alarm nobody answered (initEmergencyCall), if no SOS is in
\* progress and no call is up.
StartKey ==
  /\ voiceCall_TaskPhase # "IN_CALLING" /\ sosPhase = "SOS_END"
  /\ \/ SosTask_Start /\ voiceCall_TaskPhase # "INCOMING_CALL"
     \/ Only("SOS_END", VoiceCallTask_AnswerCall)
     \/ SosTask_Start

\* Held for 3 s the power key switches off, and on again: SosTask_Init and
\* VoiceCallTask_Init, which leave the requests as they were.  While the power is
\* off the tasks run on, with no key heard.
PowerOn ==
  /\ VoiceCallTask_Init
  /\ sosPhase' = "SOS_END" /\ nextNumberIndex' = 0
  /\ UNCHANGED <<sosStart, callingNumberIndex, sosRetryVars, dtmfVars>>

Io_Power ==
  /\ pc = "io"
  /\ PowerOn \/ PowerKey \/ Wait
  /\ pc' = "keys"
  /\ UNCHANGED <<cfgVars, uploaded>>

Io_Keys ==
  /\ pc = "keys"
  /\ StartKey \/ Wait
  /\ uploaded' = (uploaded /\ sosPhase' = sosPhase)
  /\ pc' = "voice"
  /\ UNCHANGED cfgVars

-----------------------------------------------------------------------------
\* The voice task refuses a call while an SOS is in progress that does not wait
\* for one.
SosBusy == sosPhase # "SOS_END" /\ ~SosTask_IsWaititngForCall

VoiceCall_Task ==
  /\ pc = "voice"
  /\ IF SosBusy /\ voiceCall_TaskPhase = "INCOMING_CALL"
     THEN /\ To("HANG_UP_CALL") \/ To("MISS_CALL")
          /\ KeepRequests /\ UNCHANGED dialingPhoneNumber
     ELSE \/ /\ TaskStep
             /\ SosBusy /\ voiceCall_TaskPhase' = "INCOMING_CALL" => endCall'
          \/ UNCHANGED callVars
  /\ pc' = IF sosPhase = "SOS_END" THEN "sms" ELSE "sos"
  /\ UNCHANGED <<sosVars, cfgVars, uploaded>>

-----------------------------------------------------------------------------
\* SMS_Manage: with no call and no SOS in progress a message may change the
\* configuration.
SMS_Manage ==
  /\ pc = "sms"
  /\ \/ /\ voiceCall_TaskPhase = "NO_CALL"
        /\ familyPalMode \in SmsMode /\ familyPalMode' \in SmsMode
        /\ userList' \in List
     \/ UNCHANGED cfgVars
  /\ pc' = "sos"
  /\ UNCHANGED <<callVars, sosVars, uploaded>>

\* A packet of opcode 0x0D, in the USB interrupt: it overwrites any part of
\* sysCfg, whatever the loop is doing.
Upload ==
  /\ familyPalMode' \in UploadMode
  /\ userList' \in List
  /\ uploaded' = (uploaded \/ sosPhase # "SOS_END")
  /\ UNCHANGED <<callVars, sosVars, pc>>

Loop ==
  Sos_Task \/ SosCheckSpins \/ SosCheckFinds \/ Io_Power \/ Io_Keys \/ VoiceCall_Task
    \/ SMS_Manage

Next == Loop \/ Upload

Spec == Init /\ [][Next]_vars

\* The loop keeps running.  Timers expire and the SMS task becomes idle again, so
\* that a phase of Sos_Task that can be left again and again is left.  The voice
\* task leaves an end status after 10 s, and the transient phases, too, one way
\* or the other: that is CallSettles of VoiceCall.
Fairness ==
  /\ WF_vars(Loop)
  /\ SF_vars(Sos_Task /\ sosPhase' # sosPhase)
  /\ SF_vars(VoiceCall_Task /\ voiceCall_TaskPhase \in EndStatus \cup Transient
             /\ voiceCall_TaskPhase' # voiceCall_TaskPhase)
  /\ SF_vars(VoiceCall_Task /\ voiceCall_TaskPhase \in Transient
             /\ voiceCall_TaskPhase' \notin Transient)

FairSpec == Spec /\ Fairness

-----------------------------------------------------------------------------
\* What Sms_Task sees of this: the phases up to the call, and whether there is one.

\* SOS_CHECK is the start of an SOS, and the choice of the next number in one.
SosSeen ==
  IF \/ sosPhase = "SOS_CHECK" /\ sosStart
     \/ sosPhase \in {"SOS_END", "SOS_START", "SOS_WAIT_MODEM_INIT", "SOS_WAIT_SEND_DATA",
                      "SOS_WAIT_SEND_SMS", "SOS_INIT", "SOS_WAIT_INIT",
                      "FAMILY_VER2_WAIT_END_CALL"}
  THEN sosPhase ELSE "CALLING"

VoiceSeen ==
  IF VoiceCallTask_IsIdle THEN "idle"
  ELSE IF voiceCall_TaskPhase = "IN_CALLING" THEN "inCall" ELSE "busy"

Seen == INSTANCE Emergency WITH
  sosPhase <- SosSeen, voice <- VoiceSeen, ver2 <- familyPalMode = "FAMILY_VER2"

-----------------------------------------------------------------------------
(***************************************************************************)
(* Properties.                                                             *)
(***************************************************************************)

TypeOK ==
  /\ CallTypeOK
  /\ pc \in {"sos", "spin", "io", "keys", "voice", "sms"} /\ uploaded \in BOOLEAN
  /\ familyPalMode \in Mode
  /\ userList \in [UserIndex -> Number \cup {NoNumber}]
  /\ sosPhase \in SosPhase /\ sosStart \in BOOLEAN
  /\ callingNumberIndex \in UserIndex /\ nextNumberIndex \in UserIndex
  /\ sosPhase # "SOS_END" => InList \/ uploaded
  /\ sosStartCallRetry \in 0 .. MaxStartCallRetry
  /\ familyVer2Retry \in 0 .. MaxVer2Retry
  /\ sosSendSmsRetry \in 0 .. MaxSmsRetry + 1
  /\ dtmfKeyPressed \in BOOLEAN /\ dtmfPromptRetry \in 0 .. MaxPromptRetry

\* An SOS that ends or is cancelled leaves no request to dial behind, for which the
\* voice task would begin a call with no SOS.  A power cycle in an SOS does leave
\* one, and so may an SOS that finds no number in a list uploaded meanwhile.
\* (A dial that the voice task has begun goes on, whatever becomes of the SOS.)
SosLeavesNoRequest ==
  [][sosPhase # "SOS_END" /\ sosPhase' = "SOS_END"
       => PowerOn \/ uploaded \/ ~startCall']_vars

\* From SOS_CHECK to the call, the number chosen is one that is configured:
\* StartCall ignores an empty one, and the SOS would wait 20 s for nothing.  Only
\* an upload after the choice takes it away, and the next choice is of the new list.
CallsConfigured ==
  Dials /\ sosPhase \in {"SOS_START", "SOS_WAIT_MODEM_INIT", "SOS_WAIT_SEND_DATA",
                         "SOS_WAIT_SEND_SMS", "SOS_INIT", "SOS_WAIT_INIT"} \cup WaitCalling
    => userList[callingNumberIndex] # NoNumber \/ uploaded

\* The SOS is to Sms_Task what the module Emergency says, on which SmsTask builds:
\* it starts in no call, its messages come before it dials, the contacts are told
\* that it was responded to in a call that is up, and a call given up half-way does
\* not take an answered one with it.
ImplementsEmergency == Seen!EmergencySpec


\* If calls stop getting through, an SOS ends: the numbers are not dialed, nor
\* the call waited for, for ever.  It does not hold in FAMILY_VER1, which leaves
\* its last failure through CALL_CENTER_SOS_END and has no case for it.
SosGivesUp ==
  <>[](voiceCall_TaskPhase \notin {"IN_CALLING", "INCOMING_CALL"})
    => []<>(sosPhase = "SOS_END")

\* But the number of attempts is bounded in every mode: if calls stop getting
\* through and nobody uploads for ever, there comes a turn at which Sos_Task has
\* nothing to do, or the search that an upload has left without an end.
SosComesToRest ==
  /\ <>[](voiceCall_TaskPhase \notin {"IN_CALLING", "INCOMING_CALL"})
  /\ <>[][sosPhase # "SOS_END" => UNCHANGED cfgVars]_vars
  => []<>(AtRest \/ pc = "spin")

\* As long as an SOS keeps dialing, every configured number is dialed again and
\* again: no number is skipped for ever, also when an upload has put
\* nextNumberIndex behind the list.
EveryNumberTried ==
  \A i \in UserIndex :
    /\ <>[](sosPhase # "SOS_END" /\ i \in Index /\ userList[i] # NoNumber)
    /\ []<>(sosPhase = "SOS_CHECK") /\ []<>(sosPhase \in WaitCalling)
    => []<>(callingNumberIndex = i /\ sosPhase \in WaitCalling)
=============================================================================
