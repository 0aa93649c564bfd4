--------------------------- MODULE SosTaskProofs ---------------------------
(***************************************************************************)
(* Sos_Task and the keys: the requests they make keep the call service's   *)
(* invariant, the numbers they dial are configured, and an SOS that ends   *)
(* leaves no request to dial; for every mode, list of numbers, number of   *)
(* retries and configuration uploaded meanwhile.                           *)
(***************************************************************************)
EXTENDS SosTask, CallServiceProofs

USE SosAssumption DEF Phase, EndStatus, Setup, HangingUp, VoiceCallTask_IsIdle

\* The typed part of the state that Sos_Task and Io_Task own.
SosType ==
  /\ pc \in {"sos", "spin", "io", "keys", "voice", "sms"} /\ uploaded \in BOOLEAN
  /\ familyPalMode \in Mode
  /\ userList \in [UserIndex -> Number \cup {NoNumber}]
  /\ sosPhase \in SosPhase /\ sosStart \in BOOLEAN
  /\ callingNumberIndex \in UserIndex /\ nextNumberIndex \in UserIndex
  /\ sosPhase # "SOS_END" => InList \/ uploaded
  /\ sosStartCallRetry \in 0 .. MaxStartCallRetry
  /\ familyVer2Retry \in 0 .. MaxVer2Retry
  /\ sosSendSmsRetry \in 0 .. MaxSmsRetry + 1
  /\ dtmfKeyPressed \in BOOLEAN /\ dtmfPromptRetry \in 0 .. MaxPromptRetry

\* From the start of an SOS to its message, and from there to the call.
Starting == {"SOS_START", "SOS_WAIT_MODEM_INIT", "SOS_WAIT_SEND_DATA"}
Chosen == Starting \cup {"SOS_WAIT_SEND_SMS", "SOS_INIT", "SOS_WAIT_INIT"} \cup WaitCalling
Ver2Phase == {"FAMILY_VER2_WAIT_CALLING", "FAMILY_VER2_CHECK_PHONE_CALL",
              "FAMILY_VER2_WAIT_ANSWER_CALL", "FAMILY_VER2_WAIT_END_CALL",
              "FAMILY_VER2_SOS_END"}

DialingPhase ==
  {"SOS_WAIT_INIT", "FAMILY_VER1_NOT_PRESS_KEY"} \cup WaitCalling \cup InCallingPhase

\* But for an upload the mode changes only between two emergencies, so that the
\* phases are those of the mode.  Only behind the list does the search not end.
ModeInv ==
  /\ pc = "sms" => sosPhase = "SOS_END"
  /\ pc = "spin" => sosPhase = "SOS_CHECK" /\ uploaded
  /\ sosPhase \in Ver2Phase => ~Dials \/ uploaded
  /\ sosPhase \in DialingPhase => Dials \/ uploaded

\* A new SOS is noticed at once; its message is counted from there.
StartInv ==
  /\ sosStart => sosPhase \in {"SOS_CHECK", "SOS_END"} /\ sosSendSmsRetry = 0
  /\ sosPhase \in Starting => sosSendSmsRetry = 0
  /\ sosPhase = "SOS_WAIT_SEND_SMS" => sosSendSmsRetry <= MaxSmsRetry

CallingConfigured ==
  callingNumberIndex \in Index /\ userList[callingNumberIndex] # NoNumber

\* A number waits to be dialed only in an SOS that has not just been started.  If
\* it is the one it has chosen there is one to choose again.
PendingInv ==
  startCall /\ sosPhase # "SOS_END"
    => /\ sosPhase \notin Starting \cup {"SOS_WAIT_SEND_SMS"}
       /\ sosPhase = "SOS_CHECK" => ~sosStart
       /\ ~uploaded => /\ Dials => CallingConfigured
                       /\ sosPhase = "SOS_CHECK" => Dials

ChosenInv == Dials /\ sosPhase \in Chosen /\ ~uploaded => CallingConfigured

SosInv == CallInv /\ SosType /\ ModeInv /\ StartInv /\ PendingInv /\ ChosenInv

-----------------------------------------------------------------------------
\* The requests.

\* A step of Sos_Task makes at most one request of the service.
LEMMA ProgressKeepsCallInv == CallInv /\ SosType /\ Progress => CallInv'
<1> SUFFICES ASSUME CallInv, SosType, Progress PROVE CallInv'
  OBVIOUS
<1> USE DEF Only, Silent, Wait
<1>1. CASE Request
  BY <1>1, RequestKeepsCallInv
<1>2. CASE UNCHANGED callVars
  BY <1>2, ServiceKeepsCallInv
<1>3. CASE SosCheck \/ SosStart \/ SosWaitModemInit \/ SosWaitSendData
           \/ SosWaitSendSms \/ SosInit
  BY <1>2, <1>3 DEF SosCheck, SosStart, SosWaitModemInit, SosWaitSendData,
                    SosWaitSendSms, SosInit
<1>4. CASE SosWaitInit
  <2>1. userList[callingNumberIndex] \in Number \cup {NoNumber}
    BY DEF SosType
  <2> QED
    BY <1>1, <1>2, <1>4, <2>1 DEF SosWaitInit, Request
<1>5. CASE SosWaitCalling \/ CallCenterInCalling
  BY <1>1, <1>2, <1>5 DEF SosWaitCalling, CallCenterInCalling, NextNumberOnFailure,
                          Request
<1>6. CASE FamilyVer1InCalling \/ FamilyVer1NotPressKey \/ DialingSosEnd
  BY <1>1, <1>2, <1>6 DEF FamilyVer1InCalling, FamilyVer1NotPressKey, DialingSosEnd,
                          NextNumberOnFailure, Request
<1>7. CASE Ver2WaitCalling \/ Ver2CheckPhoneCall \/ Ver2WaitAnswerCall
           \/ Ver2WaitEndCall \/ Ver2SosEnd
  BY <1>1, <1>2, <1>7 DEF Ver2WaitCalling, Ver2CheckPhoneCall, Ver2WaitAnswerCall,
                          Ver2WaitEndCall, Ver2SosEnd, Request
<1> QED
  BY <1>3, <1>4, <1>5, <1>6, <1>7 DEF Progress

\* The keys, which may make two, and the voice task.
LEMMA NextKeepsCallInv == CallInv /\ SosType /\ [Next]_vars => CallInv'
<1> SUFFICES ASSUME CallInv, SosType, [Next]_vars PROVE CallInv'
  OBVIOUS
<1>1. CASE Request
  BY <1>1, RequestKeepsCallInv
<1>2. CASE UNCHANGED callVars
  BY <1>2, ServiceKeepsCallInv
<1>3. CASE Sos_Task
  BY <1>2, <1>3, ProgressKeepsCallInv DEF Sos_Task, Wait
<1>4. CASE Io_Power
  <2>1. CASE PowerKey
    <3>1. CASE Requests(FALSE, FALSE, FALSE) /\ To("END_CALL")
                 /\ UNCHANGED dialingPhoneNumber
      BY <3>1 DEF CallInv, CallTypeOK, OneRequest, DialHasNoRequest,
                  RequestsWaitOutsideCalls, Requests, To
    <3> QED
      BY <1>1, <2>1, <3>1 DEF PowerKey, Request
  <2> QED
    BY <1>1, <1>2, <1>4, <2>1 DEF Io_Power, PowerOn, Wait, Request
<1>5. CASE Io_Keys
  BY <1>1, <1>2, <1>5 DEF Io_Keys, StartKey, SosTask_Start, Only, Wait, Request
<1>6. CASE VoiceCall_Task
  <2>1. CASE TaskStep
    BY <2>1, TaskStepKeepsCallInv
  <2>2. CASE /\ voiceCall_TaskPhase = "INCOMING_CALL"
             /\ To("HANG_UP_CALL") \/ To("MISS_CALL")
             /\ KeepRequests /\ UNCHANGED dialingPhoneNumber
    BY <2>2 DEF CallInv, CallTypeOK, OneRequest, DialHasNoRequest,
                RequestsWaitOutsideCalls, KeepRequests, To
  <2> QED
    BY <1>2, <1>6, <2>1, <2>2 DEF VoiceCall_Task
<1>7. CASE SMS_Manage \/ SosCheckSpins \/ SosCheckFinds \/ Upload
  BY <1>2, <1>7 DEF SMS_Manage, SosCheckSpins, SosCheckFinds, Upload
<1>8. CASE UNCHANGED vars
  BY <1>2, <1>8 DEF vars
<1> QED
  BY <1>3, <1>4, <1>5, <1>6, <1>7, <1>8 DEF Next, Loop

-----------------------------------------------------------------------------
\* The choice of the next number.

\* Every number is looked at, wherever in the list the search begins.
LEMMA SearchFindsAll ==
  ASSUME SosType, NEW i \in Index, userList[i] # NoNumber, InList
  PROVE  Candidates # {}
<1> DEFINE k == IF i >= nextNumberIndex THEN i - nextNumberIndex
                ELSE i + MaxNumber - nextNumberIndex
<1>1. k \in Looks /\ Look(k) = i
  BY DEF Index, MaxNumber, InList, Looks, Look
<1> QED
  BY <1>1 DEF Candidates

\* The number found is configured, and one of the list if the search began there.
LEMMA SearchFindsConfigured ==
  ASSUME SosType, Candidates # {}
  PROVE  /\ Look(First) \in UserIndex
         /\ InList => Look(First) \in Index
         /\ userList[Look(First)] # NoNumber
<1>0. Looks \subseteq {0, 1, 2} /\ \A k \in Looks : Look(k) \in UserIndex
  BY DEF SosType, Looks, Look, InList, Index, MaxNumber, UserIndex
<1>1. \E k \in Candidates : \A j \in Candidates : k <= j
  <2>1. Candidates \subseteq {0, 1, 2}
    BY <1>0 DEF Candidates
  <2>2. PICK m \in Candidates : TRUE
    OBVIOUS
  <2>3. CASE 0 \in Candidates
    BY <2>1, <2>3
  <2>4. CASE 0 \notin Candidates /\ 1 \in Candidates
    BY <2>1, <2>4
  <2>5. CASE 0 \notin Candidates /\ 1 \notin Candidates
    BY <2>1, <2>2, <2>5
  <2> QED
    BY <2>3, <2>4, <2>5
<1>2. First \in Candidates
  BY <1>1 DEF First
<1>3. InList => Look(First) \in Index
  BY <1>0, <1>2 DEF Candidates, Looks, Look, InList, Index, MaxNumber
<1> QED
  BY <1>0, <1>2, <1>3 DEF Candidates

\* The index after it is one of the list.
LEMMA SuccessorInIndex ==
  ASSUME NEW i \in UserIndex PROVE Successor(i, MaxNumber) \in Index
  BY DEF Successor, UserIndex, Index, MaxNumber

-----------------------------------------------------------------------------
\* What a step of Sos_Task keeps.

\* The turn of Sos_Task around the step: a choice settles an upload.
Turn ==
  /\ pc' = "io" /\ UNCHANGED cfgVars
  /\ uploaded' = (uploaded /\ ~(sosPhase = "SOS_CHECK" /\ callingNumberIndex' \in Index))

LEMMA TurnUploaded ==
  SosType /\ Turn => /\ uploaded' \in BOOLEAN
                     /\ sosPhase # "SOS_CHECK" => UNCHANGED uploaded
BY DEF SosType, Turn

\* Sos_Task keeps the types of its state.
LEMMA ProgressKeepsSosType == SosType /\ StartInv /\ Progress /\ Turn => SosType'
<1> SUFFICES ASSUME SosType, StartInv, Progress, Turn PROVE SosType'
  OBVIOUS
<1> USE DEF Only, Silent, Wait, Goto, sosVars, indexVars, sosRetryVars, dtmfVars,
            cfgVars, SosPhase, WaitCalling, InCallingPhase, InList, Phase_Of
<1>0. /\ Index' = Index /\ Index \subseteq UserIndex /\ 0 \in Index
      /\ ~Dials => Index = UserIndex
      /\ pc' = "io" /\ UNCHANGED cfgVars /\ uploaded' \in BOOLEAN
      /\ sosPhase # "SOS_CHECK" => UNCHANGED uploaded
  BY TurnUploaded DEF Turn, Index, MaxNumber, UserIndex, Dials
<1>1. CASE SosCheck
  <2>1. CASE Dials /\ Candidates # {}
    <3>1. callingNumberIndex' \in UserIndex /\ nextNumberIndex' \in Index
      BY <1>1, <2>1, SearchFindsConfigured, SuccessorInIndex DEF SosCheck, Chooses
    <3> QED
      BY <1>0, <1>1, <2>1, <3>1 DEF SosCheck, Chooses, Begins, SosType
  <2>2. CASE ~(Candidates # {} /\ Dials)
    BY <1>0, <1>1, <2>2 DEF SosCheck, Begins, SosType
  <2> QED
    BY <2>1, <2>2
<1>2. CASE SosStart \/ SosWaitModemInit \/ SosWaitSendData \/ SosInit
  BY <1>0, <1>2 DEF SosStart, SosWaitModemInit, SosWaitSendData, SosInit, SosType
<1>3. CASE SosWaitSendSms
  BY <1>0, <1>3 DEF SosWaitSendSms, SosType, StartInv
<1>4. CASE SosWaitInit
  <2>1. dtmfKeyPressed' \in BOOLEAN
    BY <1>4 DEF SosWaitInit, SosType
  <2>2. dtmfPromptRetry' \in 0 .. MaxPromptRetry
    BY <1>4 DEF SosWaitInit, SosType
  <2>3. /\ UNCHANGED <<sosStart, indexVars, sosRetryVars>>
        /\ sosPhase' \in SosPhase /\ sosPhase \notin {"SOS_END", "SOS_CHECK"}
    BY <1>4 DEF SosWaitInit, WaitCallingPhase
  <2> QED
    BY <1>0, <2>1, <2>2, <2>3 DEF SosType
<1>5. CASE SosWaitCalling
  BY <1>0, <1>5 DEF SosWaitCalling, CallingPhase, WaitCallingPhase, SosType
<1>6. CASE CallCenterInCalling
  BY <1>0, <1>6 DEF CallCenterInCalling, NextNumberOnFailure, SosType
<1>7. CASE FamilyVer1InCalling
  <2>1. dtmfKeyPressed' \in BOOLEAN
    BY <1>7 DEF FamilyVer1InCalling, NextNumberOnFailure, SosType
  <2>2. dtmfPromptRetry' \in 0 .. MaxPromptRetry
    BY <1>7 DEF FamilyVer1InCalling, NextNumberOnFailure, SosType
  <2>3. /\ UNCHANGED <<sosStart, indexVars, sosRetryVars>>
        /\ sosPhase' \in SosPhase /\ sosPhase \notin {"SOS_END", "SOS_CHECK"}
    BY <1>7 DEF FamilyVer1InCalling, NextNumberOnFailure
  <2> QED
    BY <1>0, <2>1, <2>2, <2>3 DEF SosType
<1>8. CASE FamilyVer1NotPressKey \/ DialingSosEnd
  BY <1>0, <1>8 DEF FamilyVer1NotPressKey, DialingSosEnd, SosType
<1>9. CASE Ver2WaitCalling
  BY <1>0, <1>9 DEF Ver2WaitCalling, SosType
<1>10. CASE Ver2CheckPhoneCall \/ Ver2WaitAnswerCall \/ Ver2WaitEndCall \/ Ver2SosEnd
  BY <1>0, <1>10 DEF Ver2CheckPhoneCall, Ver2WaitAnswerCall, Ver2WaitEndCall,
                     Ver2SosEnd, SosType
<1> QED
  BY <1>1, <1>2, <1>3, <1>4, <1>5, <1>6, <1>7, <1>8, <1>9, <1>10 DEF Progress

\* Sos_Task keeps to the phases of the mode, and the count of its message.
LEMMA ProgressKeepsModeAndStart ==
  SosType /\ ModeInv /\ StartInv /\ Progress /\ Turn => ModeInv' /\ StartInv'
<1> SUFFICES ASSUME SosType, ModeInv, StartInv, Progress, Turn
             PROVE  ModeInv' /\ StartInv'
  OBVIOUS
<1>0. /\ pc' = "io" /\ UNCHANGED cfgVars
      /\ sosPhase # "SOS_CHECK" => UNCHANGED uploaded
  BY TurnUploaded DEF Turn
<1> USE <1>0
<1> USE DEF Only, Silent, Wait, Goto, sosVars, indexVars, sosRetryVars, dtmfVars,
            cfgVars, Dials, Starting, Ver2Phase, DialingPhase, WaitCalling,
            InCallingPhase, ModeInv, StartInv, Phase_Of
<1>1. CASE SosCheck
  BY <1>1 DEF SosCheck, Chooses, Begins
<1>2. CASE SosStart \/ SosWaitModemInit \/ SosWaitSendData \/ SosInit
  BY <1>2 DEF SosStart, SosWaitModemInit, SosWaitSendData, SosInit
<1>3. CASE SosWaitSendSms
  BY <1>3 DEF SosWaitSendSms, SosType
<1>4. CASE SosWaitInit
  BY <1>4 DEF SosWaitInit, WaitCallingPhase
<1>5. CASE SosWaitCalling
  BY <1>5 DEF SosWaitCalling, CallingPhase, WaitCallingPhase
<1>6. CASE CallCenterInCalling
  BY <1>6 DEF CallCenterInCalling, NextNumberOnFailure
<1>7. CASE FamilyVer1InCalling
  BY <1>7 DEF FamilyVer1InCalling, NextNumberOnFailure
<1>8. CASE FamilyVer1NotPressKey \/ DialingSosEnd
  BY <1>8 DEF FamilyVer1NotPressKey, DialingSosEnd
<1>9. CASE Ver2WaitCalling
  BY <1>9 DEF Ver2WaitCalling
<1>10. CASE Ver2CheckPhoneCall \/ Ver2WaitAnswerCall \/ Ver2WaitEndCall \/ Ver2SosEnd
  BY <1>10 DEF Ver2CheckPhoneCall, Ver2WaitAnswerCall, Ver2WaitEndCall, Ver2SosEnd
<1> QED
  BY <1>1, <1>2, <1>3, <1>4, <1>5, <1>6, <1>7, <1>8, <1>9, <1>10 DEF Progress

\* No request but StartCall leaves a number to be dialed that was not there.
LEMMA OnlyStartCallDials ==
  VoiceCallTask_AnswerCall \/ VoiceCallTask_EndCall \/ VoiceCallTask_Init
    \/ VoiceCallTask_ClearEndCallStatus \/ VoiceCallTask_ClearCallAction
    \/ UNCHANGED callVars
  => ~startCall' \/ startCall' = startCall
BY DEF VoiceCallTask_AnswerCall, VoiceCallTask_EndCall, VoiceCallTask_Init,
       VoiceCallTask_ClearEndCallStatus, VoiceCallTask_ClearCallAction, Requests,
       callVars

\* Leaving the SOS, a step leaves no request to dial.
LeavesNoRequest ==
  sosPhase # "SOS_END" /\ sosPhase' = "SOS_END" => uploaded \/ ~startCall'

\* Sos_Task has a number to dial only if it chose it.
LEMMA ProgressKeepsPending ==
  SosInv /\ Progress /\ Turn => PendingInv' /\ ChosenInv' /\ LeavesNoRequest
<1> SUFFICES ASSUME SosInv, Progress, Turn
             PROVE  PendingInv' /\ ChosenInv' /\ LeavesNoRequest
  OBVIOUS
<1> USE DEF Only, Silent, Wait, Goto, sosVars, indexVars, sosRetryVars, dtmfVars,
            cfgVars, Dials, Starting, Chosen, Ver2Phase, DialingPhase, WaitCalling,
            InCallingPhase, SosInv, ModeInv, StartInv, PendingInv, ChosenInv,
            LeavesNoRequest, CallingConfigured, Phase_Of
<1>0. /\ Index' = Index /\ UNCHANGED cfgVars
      /\ sosPhase # "SOS_CHECK" => UNCHANGED uploaded
  BY TurnUploaded DEF Turn, Index, MaxNumber
<1>1. CASE SosCheck
  <2>1. UNCHANGED startCall
    BY <1>1 DEF SosCheck, callVars
  <2>2. CASE Dials /\ Candidates # {}
    <3>1. callingNumberIndex' = Look(First)
      BY <1>1, <2>2 DEF SosCheck, Chooses
    <3>2. userList'[callingNumberIndex'] # NoNumber
      BY <1>0, <2>2, <3>1, SearchFindsConfigured DEF SosType
    <3>3. ~uploaded' => callingNumberIndex' \in Index'
      <4>1. CASE uploaded
        BY <1>0, <1>1, <4>1 DEF Turn, SosCheck
      <4>2. CASE ~uploaded
        BY <1>0, <1>1, <2>2, <3>1, <4>2, SearchFindsConfigured DEF SosType, SosCheck
      <4> QED
        BY <4>1, <4>2
    <3>4. sosPhase' = IF sosStart THEN "SOS_START" ELSE "SOS_INIT"
      BY <1>1, <2>2 DEF SosCheck, Chooses, Begins
    <3> QED
      BY <1>0, <1>1, <2>1, <3>2, <3>3, <3>4 DEF SosCheck
  <2>3. CASE Dials /\ Candidates = {}
    <3>1. sosPhase = "SOS_CHECK" /\ sosPhase' = "SOS_END" /\ InList
      BY <1>1, <2>3 DEF SosCheck
    <3>2. ~CallingConfigured
      BY <2>3, <3>1, SearchFindsAll DEF SosType
    <3> QED
      BY <2>1, <2>3, <3>1, <3>2
  <2>4. CASE ~Dials
    <3>1. startCall => uploaded
      BY <1>1, <2>4 DEF SosCheck
    <3>2. ~Dials' /\ sosPhase' = (IF sosPhase' = "SOS_END" THEN "SOS_END"
                                  ELSE IF sosStart THEN "SOS_START" ELSE "SOS_INIT")
      BY <1>0, <1>1, <2>4 DEF SosCheck, Begins
    <3> QED
      BY <1>1, <2>1, <3>1, <3>2 DEF SosCheck
  <2> QED
    BY <2>2, <2>3, <2>4
<1>2. CASE SosStart \/ SosWaitModemInit \/ SosWaitSendData \/ SosInit
  BY <1>0, <1>2 DEF SosStart, SosWaitModemInit, SosWaitSendData, SosInit, callVars
<1>3. CASE SosWaitSendSms
  BY <1>0, <1>3 DEF SosWaitSendSms, callVars
<1>4. CASE SosWaitInit
  BY <1>0, <1>4 DEF SosWaitInit, WaitCallingPhase, callVars
<1>5. CASE SosWaitCalling
  BY <1>0, <1>5, OnlyStartCallDials DEF SosWaitCalling, CallingPhase, WaitCallingPhase,
                                        callVars
<1>6. CASE CallCenterInCalling
  BY <1>0, <1>6, OnlyStartCallDials DEF CallCenterInCalling, NextNumberOnFailure
<1>7. CASE FamilyVer1InCalling
  BY <1>0, <1>7, OnlyStartCallDials DEF FamilyVer1InCalling, NextNumberOnFailure
<1>8. CASE FamilyVer1NotPressKey
  BY <1>0, <1>8, OnlyStartCallDials DEF FamilyVer1NotPressKey
<1>9. CASE DialingSosEnd
  BY <1>9 DEF DialingSosEnd, VoiceCallTask_ClearCallAction, Requests
<1>10. CASE Ver2WaitCalling
  BY <1>0, <1>10, OnlyStartCallDials DEF Ver2WaitCalling
<1>11. CASE Ver2CheckPhoneCall \/ Ver2WaitAnswerCall \/ Ver2WaitEndCall
  BY <1>0, <1>11, OnlyStartCallDials
     DEF Ver2CheckPhoneCall, Ver2WaitAnswerCall, Ver2WaitEndCall
<1>12. CASE Ver2SosEnd
  BY <1>12 DEF Ver2SosEnd, VoiceCallTask_ClearCallAction, Requests
<1> QED
  BY <1>1, <1>2, <1>3, <1>4, <1>5, <1>6, <1>7, <1>8, <1>9, <1>10, <1>11, <1>12
     DEF Progress

-----------------------------------------------------------------------------
\* The invariant, and the theorems.

\* Initially there is no SOS and no request.
LEMMA InitSosInv == Init => SosInv
<1> SUFFICES ASSUME Init PROVE SosInv
  OBVIOUS
<1>1. CallInv
  BY CallInit DEF Init
<1>2. SosType
  <2>1. sosStart \in BOOLEAN /\ dtmfKeyPressed \in BOOLEAN /\ uploaded \in BOOLEAN
    BY DEF Init
  <2>2. userList \in [UserIndex -> Number \cup {NoNumber}]
    BY DEF Init, List
  <2> QED
    BY <2>1, <2>2 DEF Init, SosType, SosPhase, UserIndex
<1>3. ModeInv /\ StartInv /\ PendingInv /\ ChosenInv
  BY DEF Init, ModeInv, StartInv, PendingInv, ChosenInv, Ver2Phase, DialingPhase,
         Starting, Chosen, WaitCalling, InCallingPhase
<1> QED
  BY <1>1, <1>2, <1>3 DEF SosInv

\* The keys, the power and the start of an SOS.
LEMMA IoKeepsSosInv ==
  SosInv /\ (Io_Power \/ Io_Keys) => SosInv' /\ (LeavesNoRequest \/ PowerOn)
<1> SUFFICES ASSUME SosInv, Io_Power \/ Io_Keys
             PROVE  SosInv' /\ (LeavesNoRequest \/ PowerOn)
  OBVIOUS
<1> USE DEF Only, Wait, Goto, sosVars, indexVars, sosRetryVars, dtmfVars, cfgVars,
            Dials, Starting, Chosen, Ver2Phase, DialingPhase, WaitCalling,
            InCallingPhase, LeavesNoRequest, CallingConfigured, InList
<1>0. Index' = Index /\ 0 \in Index /\ 0 \in UserIndex
  BY DEF Io_Power, Io_Keys, Index, MaxNumber, UserIndex
<1>1. CallInv'
  BY NextKeepsCallInv DEF Next, Loop, SosInv
<1>2. CASE PowerOn \/ PowerKey
  <2>1. /\ pc' \in {"keys", "voice"} /\ UNCHANGED cfgVars /\ sosPhase' = "SOS_END"
        /\ uploaded' \in BOOLEAN
    BY <1>2 DEF Io_Power, Io_Keys, PowerOn, PowerKey, SosInv, SosType
  <2>2. SosType'
    BY <1>0, <1>2, <2>1 DEF SosInv, SosType, SosPhase, PowerOn, PowerKey
  <2>3. StartInv'
    <3>1. UNCHANGED <<sosStart, sosSendSmsRetry>>
      BY <1>2 DEF PowerOn, PowerKey
    <3>2. sosStart => sosSendSmsRetry = 0
      BY DEF SosInv, StartInv
    <3> QED
      BY <2>1, <3>1, <3>2 DEF StartInv
  <2>4. PowerKey => LeavesNoRequest
    BY DEF PowerKey, Requests, VoiceCallTask_EndCall
  <2> QED
    BY <1>1, <1>2, <2>1, <2>2, <2>3, <2>4 DEF SosInv, ModeInv, PendingInv, ChosenInv
<1>3. CASE StartKey /\ SosTask_Start
  <2>1. /\ pc' = "voice" \/ pc' = "keys"
        /\ UNCHANGED cfgVars /\ sosPhase = "SOS_END" /\ sosPhase' = "SOS_CHECK"
        /\ uploaded' \in BOOLEAN
    BY <1>3 DEF Io_Power, Io_Keys, StartKey, SosTask_Start, SosInv, SosType
  <2>2. SosType'
    BY <1>0, <1>3, <2>1 DEF SosInv, SosType, SosPhase, SosTask_Start
  <2>3. StartInv' /\ ~startCall'
    BY <1>3, <2>1 DEF StartInv, SosTask_Start, VoiceCallTask_ClearCallAction, Requests
  <2> QED
    BY <1>1, <2>1, <2>2, <2>3 DEF SosInv, ModeInv, PendingInv, ChosenInv
<1>4. CASE Wait \/ (StartKey /\ ~SosTask_Start)
  <2>1. pc' \in {"keys", "voice"} /\ UNCHANGED <<cfgVars, sosVars, uploaded>>
    BY <1>4 DEF Io_Power, Io_Keys, StartKey, PowerOn, PowerKey, SosInv, SosType
  <2>2. ~startCall' \/ startCall' = startCall
    BY <1>4, OnlyStartCallDials DEF StartKey
  <2>3. SosType'
    BY <1>0, <2>1 DEF SosInv, SosType
  <2> QED
    BY <1>0, <1>1, <2>1, <2>2, <2>3
       DEF SosInv, ModeInv, StartInv, PendingInv, ChosenInv
<1> QED
  BY <1>2, <1>3, <1>4 DEF Io_Power, Io_Keys

\* An upload, and the search it may leave without an end.
LEMMA UploadKeepsSosInv ==
  SosInv /\ (SosCheckSpins \/ SosCheckFinds \/ Upload) => SosInv' /\ LeavesNoRequest
<1> SUFFICES ASSUME SosInv, SosCheckSpins \/ SosCheckFinds \/ Upload
             PROVE  SosInv' /\ LeavesNoRequest
  OBVIOUS
<1> USE DEF Goto, sosVars, indexVars, sosRetryVars, dtmfVars, cfgVars, Starting,
            Ver2Phase, DialingPhase, WaitCalling, InCallingPhase, LeavesNoRequest
<1>1. CallInv'
  BY NextKeepsCallInv DEF Next, Loop, SosInv
<1>2. CASE SosCheckSpins
  <2>1. /\ uploaded /\ uploaded' /\ sosPhase = "SOS_CHECK" /\ UNCHANGED startCall
        /\ UNCHANGED sosVars /\ pc' = "spin"
    BY <1>2 DEF SosCheckSpins, SosInv, SosType, callVars
  <2>2. SosType'
    BY <1>2 DEF SosCheckSpins, SosInv, SosType, InList, Index, MaxNumber
  <2> QED
    BY <1>1, <2>1, <2>2 DEF SosInv, ModeInv, StartInv, PendingInv, ChosenInv
<1>3. CASE SosCheckFinds
  <2>1. /\ sosPhase = "SOS_CHECK" /\ uploaded /\ uploaded' = FALSE /\ pc' = "io"
        /\ sosPhase' \in {"SOS_START", "SOS_INIT"} /\ sosStart' = FALSE
        /\ sosPhase' = "SOS_START" => sosStart
    BY <1>3 DEF SosCheckFinds, Chooses, Begins, SosInv, ModeInv
  <2>2. /\ callingNumberIndex' \in 0 .. 1 /\ nextNumberIndex' \in 0 .. 1
        /\ userList'[callingNumberIndex'] # NoNumber
        /\ 0 .. 1 \subseteq Index' /\ 0 .. 1 \subseteq UserIndex /\ UNCHANGED startCall
    BY <1>3 DEF SosCheckFinds, Chooses, Successor, UserIndex, Index, MaxNumber, callVars
  <2>3. SosType'
    BY <1>3, <2>1, <2>2 DEF SosCheckFinds, SosInv, SosType, SosPhase, InList
  <2>4. StartInv'
    BY <1>3, <2>1 DEF SosCheckFinds, SosInv, StartInv
  <2> QED
    BY <1>1, <2>1, <2>2, <2>3, <2>4
       DEF SosInv, ModeInv, PendingInv, ChosenInv, CallingConfigured
<1>4. CASE Upload
  <2>1. /\ UNCHANGED <<sosVars, pc>> /\ uploaded' \in BOOLEAN
        /\ sosPhase # "SOS_END" => uploaded'
        /\ UNCHANGED startCall
        /\ familyPalMode' \in Mode /\ userList' \in [UserIndex -> Number \cup {NoNumber}]
    BY <1>4 DEF Upload, List, SosInv, SosType, callVars
  <2>2. SosType'
    BY <2>1 DEF SosInv, SosType
  <2>3. StartInv'
    BY <2>1 DEF SosInv, StartInv
  <2>4. ModeInv'
    BY <2>1 DEF SosInv, ModeInv
  <2> QED
    BY <1>1, <2>1, <2>2, <2>3, <2>4 DEF SosInv, PendingInv, ChosenInv, Chosen
<1> QED
  BY <1>2, <1>3, <1>4

\* Every step keeps the invariant; all but a power cycle, and an SOS that was sent
\* another configuration, leave no request to dial behind.
LEMMA NextSosInv == SosInv /\ [Next]_vars => SosInv' /\ (LeavesNoRequest \/ PowerOn)
<1> SUFFICES ASSUME SosInv, [Next]_vars PROVE SosInv' /\ (LeavesNoRequest \/ PowerOn)
  OBVIOUS
<1> USE DEF sosVars, indexVars, sosRetryVars, dtmfVars, cfgVars, Dials,
            LeavesNoRequest, CallingConfigured, InList
<1>1. CallInv'
  BY NextKeepsCallInv DEF SosInv
<1>2. CASE Sos_Task
  <2>1. CASE Progress
    BY <1>1, <1>2, <2>1, ProgressKeepsSosType, ProgressKeepsModeAndStart,
       ProgressKeepsPending DEF Sos_Task, Turn, SosInv
  <2>2. CASE AtRest /\ Wait
    <3>1. UNCHANGED <<sosVars, cfgVars, startCall, uploaded>> /\ pc' = "io" /\ Index' = Index
      BY <1>2, <2>2, TurnUploaded
         DEF Sos_Task, AtRest, Wait, Turn, SosInv, callVars, Index, MaxNumber
    <3>2. SosType'
      BY <3>1 DEF SosInv, SosType
    <3> QED
      BY <1>1, <3>1, <3>2 DEF SosInv, ModeInv, StartInv, PendingInv, ChosenInv
  <2> QED
    BY <1>2, <2>1, <2>2 DEF Sos_Task
<1>3. CASE Io_Power \/ Io_Keys
  BY <1>3, IoKeepsSosInv
<1>4. CASE VoiceCall_Task
  <2>1. ~startCall' \/ startCall' = startCall
    <3>1. CASE TaskStep
      BY <3>1 DEF TaskStep, BeginDial, BeginAnswer, ObeyEnd, Dial, Answer, FarEnd,
                  HangUp, Incoming, Settle, KeepRequests, Requests
    <3> QED
      BY <1>4, <3>1 DEF VoiceCall_Task, KeepRequests, callVars
  <2>2. UNCHANGED <<sosVars, cfgVars, uploaded>> /\ Index' = Index
    BY <1>4 DEF VoiceCall_Task, Index, MaxNumber
  <2>3. pc' \in {"sms", "sos"} /\ (pc' = "sms" => sosPhase = "SOS_END")
    BY <1>4 DEF VoiceCall_Task
  <2>4. SosType'
    BY <2>2, <2>3 DEF SosInv, SosType
  <2> QED
    BY <1>1, <2>1, <2>2, <2>3, <2>4
       DEF SosInv, ModeInv, StartInv, PendingInv, ChosenInv
<1>5. CASE SMS_Manage
  <2>1. /\ sosPhase = "SOS_END" /\ UNCHANGED <<sosVars, startCall, uploaded>> /\ pc' = "sos"
        /\ familyPalMode' \in Mode
        /\ userList' \in [UserIndex -> Number \cup {NoNumber}]
    BY <1>5 DEF SMS_Manage, List, SosInv, SosType, ModeInv, callVars
  <2>2. SosType'
    BY <2>1 DEF SosInv, SosType
  <2> QED
    BY <1>1, <2>1, <2>2 DEF SosInv, ModeInv, StartInv, PendingInv, ChosenInv,
       Ver2Phase, DialingPhase, Starting, Chosen, WaitCalling, InCallingPhase
<1>6. CASE UNCHANGED vars
  <2>1. UNCHANGED <<sosVars, cfgVars, startCall, uploaded, pc>> /\ Index' = Index
    BY <1>6 DEF vars, callVars, Index, MaxNumber
  <2>2. SosType'
    BY <2>1 DEF SosInv, SosType
  <2> QED
    BY <1>1, <2>1, <2>2 DEF SosInv, ModeInv, StartInv, PendingInv, ChosenInv
<1>7. CASE SosCheckSpins \/ SosCheckFinds \/ Upload
  BY <1>7, UploadKeepsSosInv
<1> QED
  BY <1>2, <1>3, <1>4, <1>5, <1>6, <1>7 DEF Next, Loop

\* The phases of an SOS are those of its mode and the number it has chosen, waiting
\* to be dialed or not, is a configured one, in every state of Sos_Task, but for
\* what an upload (CfgProcessData) since the last choice has changed under it.
THEOREM SosInvariant == Spec => []SosInv
<1>1. SosInv /\ [Next]_vars => SosInv'
  BY NextSosInv
<1> QED
  BY InitSosInv, <1>1, PTL DEF Spec

\* Phases, indexes and counters stay in their ranges, whatever is uploaded; the index
\* of the next number (nextNumberIndex) stays below MAX_CALLING_NUMBER of the mode in
\* an SOS whose configuration is left alone.
THEOREM SosTyped == Spec => []TypeOK
<1>1. SosInv => TypeOK
  BY DEF SosInv, CallInv, SosType, TypeOK
<1> QED
  BY SosInvariant, <1>1, PTL

\* Whatever the list and the retries, an SOS calls configured numbers, unless an
\* upload (CfgProcessData, opcode 0x0D) takes away the one it has chosen.
THEOREM SosCallsConfigured == Spec => []CallsConfigured
<1>1. SosInv => CallsConfigured
  BY DEF SosInv, ChosenInv, CallingConfigured, CallsConfigured, Chosen, Starting
<1> QED
  BY SosInvariant, <1>1, PTL

\* With Sos_Task and the keys as its clients the call service keeps its promises.
THEOREM SosKeepsRequests == Spec => [](OneRequest /\ DialHasNoRequest)
<1>1. SosInv => OneRequest /\ DialHasNoRequest
  BY DEF SosInv, CallInv
<1> QED
  BY SosInvariant, <1>1, PTL

\* An SOS that ends or is cancelled (SosTask_End, VoiceCallTask_ClearCallAction)
\* leaves no request to dial one, unless the power was switched off and on or the
\* configuration was uploaded meanwhile.
THEOREM SosClearsRequests == Spec => SosLeavesNoRequest
<1>1. SosInv /\ [Next]_vars
        => [sosPhase # "SOS_END" /\ sosPhase' = "SOS_END"
              => PowerOn \/ uploaded \/ ~startCall']_vars
  BY NextSosInv DEF LeavesNoRequest
<1> QED
  BY SosInvariant, <1>1, PTL DEF Spec, SosLeavesNoRequest

-----------------------------------------------------------------------------
\* What Sms_Task sees of the SOS: the refinement of Emergency.

\* The requests, seen from there.
LEMMA RequestsSeen ==
  /\ \/ \E n \in Number \cup {NoNumber} : VoiceCallTask_StartCall(n)
     \/ VoiceCallTask_AnswerCall \/ VoiceCallTask_ClearEndCallStatus
     \/ VoiceCallTask_ClearCallAction \/ UNCHANGED callVars
     => UNCHANGED VoiceSeen
  /\ VoiceCallTask_EndCall => Seen!VoiceCallTask_EndCall
  /\ VoiceCallTask_Init => VoiceSeen' = "idle"
BY DEF VoiceCallTask_StartCall, VoiceCallTask_AnswerCall, VoiceCallTask_ClearEndCallStatus,
       VoiceCallTask_ClearCallAction, VoiceCallTask_Init, VoiceCallTask_EndCall, callVars,
       To, VoiceSeen, Seen!VoiceCallTask_EndCall

\* A turn of Sos_Task, phase by phase.
LEMMA ProgressIsSosTurn == SosInv /\ Progress /\ UNCHANGED cfgVars => Seen!SosTurn
<1> SUFFICES ASSUME SosInv, Progress, UNCHANGED cfgVars PROVE Seen!SosTurn
  OBVIOUS
<1>0. UNCHANGED familyPalMode /\ (Dials <=> familyPalMode # "FAMILY_VER2")
  BY DEF cfgVars, Dials, SosInv, SosType
<1>a. sosStart => sosPhase \in {"SOS_CHECK", "SOS_END"}
  BY DEF SosInv, StartInv
<1> USE <1>0, <1>a, RequestsSeen DEF Only, Silent, Wait, Goto, sosVars, SosSeen,
        WaitCalling, InCallingPhase, Phase_Of, Seen!SosTurn, Seen!Goes
<1>1. CASE SosCheck
  BY <1>1 DEF SosCheck, Chooses, Begins
<1>2. CASE SosStart \/ SosWaitModemInit \/ SosWaitSendData \/ SosInit
  BY <1>2 DEF SosStart, SosWaitModemInit, SosWaitSendData, SosInit
<1>3. CASE SosWaitSendSms
  BY <1>3 DEF SosWaitSendSms
<1>4. CASE SosWaitInit
  <2>1. userList[callingNumberIndex] \in Number \cup {NoNumber}
    BY DEF SosInv, SosType
  <2> QED
    BY <1>4, <2>1 DEF SosWaitInit, WaitCallingPhase
<1>5. CASE SosWaitCalling
  BY <1>5 DEF SosWaitCalling, WaitCallingPhase, CallingPhase
<1>6. CASE CallCenterInCalling
  BY <1>6 DEF CallCenterInCalling, NextNumberOnFailure
<1>7. CASE FamilyVer1InCalling
  <2>1. UNCHANGED sosStart /\ sosPhase = "FAMILY_VER1_IN_CALLING"
    BY <1>7 DEF FamilyVer1InCalling, NextNumberOnFailure
  <2>2. sosPhase' \in {"SOS_CHECK", "FAMILY_VER1_SOS_END", "FAMILY_VER1_NOT_PRESS_KEY",
                      sosPhase}
    BY <1>7 DEF FamilyVer1InCalling, NextNumberOnFailure
  <2>3. SosSeen = "CALLING" /\ SosSeen' = "CALLING"
    BY <2>1, <2>2
  <2>4. \/ VoiceCallTask_ClearEndCallStatus \/ UNCHANGED callVars
        \/ VoiceCallTask_EndCall /\ voiceCall_TaskPhase = "IN_CALLING"
    BY <1>7 DEF FamilyVer1InCalling, NextNumberOnFailure
  <2>5. UNCHANGED VoiceSeen
    BY <2>4 DEF VoiceSeen, Seen!VoiceCallTask_EndCall
  <2> QED
    BY <2>3, <2>5
<1>8. CASE FamilyVer1NotPressKey \/ DialingSosEnd
  BY <1>8 DEF FamilyVer1NotPressKey, DialingSosEnd
<1>9. CASE Ver2WaitCalling
  BY <1>9 DEF Ver2WaitCalling
<1>10. CASE Ver2CheckPhoneCall
  BY <1>10 DEF Ver2CheckPhoneCall
<1>11. CASE Ver2WaitAnswerCall
  BY <1>11 DEF Ver2WaitAnswerCall, VoiceSeen
<1>12. CASE Ver2WaitEndCall \/ Ver2SosEnd
  BY <1>12 DEF Ver2WaitEndCall, Ver2SosEnd
<1> QED
  BY <1>1, <1>2, <1>3, <1>4, <1>5, <1>6, <1>7, <1>8, <1>9, <1>10, <1>11, <1>12 DEF Progress

\* Every step is one of Emergency, or not seen.
LEMMA NextIsEmergency ==
  SosInv /\ [Next]_vars => [Seen!EmergencyNext]_(Seen!emergencyVars)
<1> SUFFICES ASSUME SosInv, [Next]_vars
             PROVE  Seen!EmergencyNext \/ UNCHANGED <<SosSeen, VoiceSeen, familyPalMode>>
  BY DEF Seen!emergencyVars
<1>1. CASE Sos_Task
  BY <1>1, ProgressIsSosTurn
     DEF Sos_Task, Wait, SosSeen, VoiceSeen, callVars, sosVars, cfgVars, Seen!EmergencyNext
<1>2. CASE Io_Power
  <2>1. CASE PowerKey
    <3>1. SosSeen' = "SOS_END"
      BY <2>1 DEF PowerKey, SosSeen
    <3>2. Seen!VoiceCallTask_EndCall
      <4>1. CASE VoiceCallTask_EndCall
        BY <4>1, RequestsSeen
      <4>2. CASE /\ To("END_CALL")
                 /\ voiceCall_TaskPhase # "IN_CALLING"
        BY <4>2 DEF To, VoiceSeen, Seen!VoiceCallTask_EndCall
      <4> QED
        BY <2>1, <4>1, <4>2 DEF PowerKey
    <3> QED
      BY <1>2, <3>1, <3>2 DEF Io_Power, cfgVars, Seen!PowerKey, Seen!EmergencyNext
  <2>2. CASE PowerOn
    BY <1>2, <2>2, RequestsSeen
       DEF Io_Power, PowerOn, SosSeen, cfgVars, Seen!PowerOn, Seen!EmergencyNext
  <2> QED
    BY <1>2, <2>1, <2>2 DEF Io_Power, Wait, SosSeen, VoiceSeen, callVars, sosVars, cfgVars
<1>3. CASE Io_Keys
  <2>1. UNCHANGED familyPalMode
    BY <1>3 DEF Io_Keys, cfgVars
  <2>2. CASE StartKey /\ SosTask_Start
    BY <2>1, <2>2, RequestsSeen
       DEF StartKey, SosTask_Start, SosSeen, VoiceSeen, Seen!StartKey, Seen!Goes,
           Seen!EmergencyNext
  <2>3. CASE StartKey /\ ~SosTask_Start
    BY <2>1, <2>3, RequestsSeen DEF StartKey, Only, Goto, SosSeen
  <2> QED
    BY <1>3, <2>1, <2>2, <2>3 DEF Io_Keys, Wait, SosSeen, VoiceSeen, callVars, sosVars
<1>4. CASE VoiceCall_Task
  <2>1. UNCHANGED <<SosSeen, familyPalMode>>
    BY <1>4 DEF VoiceCall_Task, SosSeen, sosVars, cfgVars
  <2>2. VoiceSeen' \in {"idle", "inCall", "busy"}
    BY DEF VoiceSeen
  <2>3. VoiceSeen = "idle" => VoiceSeen' # "inCall"
    <3>1. voiceCall_TaskPhase' = "IN_CALLING"
            => voiceCall_TaskPhase \in {"WAIT_START_CALL", "WAIT_ANSWER_CALL", "IN_CALLING"}
      <4>1. TaskStep /\ voiceCall_TaskPhase' = "IN_CALLING"
              => voiceCall_TaskPhase \in {"WAIT_START_CALL", "WAIT_ANSWER_CALL"}
        BY DEF TaskStep, Move, BeginDial, BeginAnswer, ObeyEnd, Dial, Answer, FarEnd, HangUp,
               Incoming, Settle
      <4> QED
        BY <1>4, <4>1 DEF VoiceCall_Task, To, callVars
    <3> QED
      BY <3>1 DEF VoiceSeen
  <2> QED
    BY <2>1, <2>2, <2>3 DEF Seen!VoiceTurn, Seen!VoicePhase, Seen!EmergencyNext
<1>5. CASE SMS_Manage \/ Upload
  <2>1. UNCHANGED <<SosSeen, VoiceSeen>>
    BY <1>5 DEF SMS_Manage, Upload, SosSeen, VoiceSeen, sosVars, callVars
  <2> QED
    BY <2>1 DEF Seen!SetMode, Seen!EmergencyNext
<1>6. CASE SosCheckFinds
  <2>1. UNCHANGED <<VoiceSeen, familyPalMode>> /\ sosPhase = "SOS_CHECK"
    BY <1>6 DEF SosCheckFinds, VoiceSeen, callVars, cfgVars, SosInv, ModeInv
  <2>2. SosSeen = (IF sosStart THEN "SOS_CHECK" ELSE "CALLING")
    BY <2>1 DEF SosSeen
  <2>3. SosSeen' = (IF sosStart THEN "SOS_START" ELSE "SOS_INIT")
    BY <1>6 DEF SosCheckFinds, Chooses, Begins, Goto, SosSeen
  <2> QED
    BY <2>1, <2>2, <2>3 DEF Seen!SosTurn, Seen!Goes, Seen!EmergencyNext
<1>7. CASE UNCHANGED vars \/ SosCheckSpins
  BY <1>7 DEF vars, SosCheckSpins, SosSeen, VoiceSeen, sosVars, callVars, cfgVars
<1> QED
  BY <1>1, <1>2, <1>3, <1>4, <1>5, <1>6, <1>7 DEF Next, Loop

\* Sos_Task, the keys and the voice task are to Sms_Task what SmsTask assumes of
\* them, in every mode, with every list of numbers and number of retries: what is
\* proved there of the messages holds beside this SOS.
THEOREM SosImplementsEmergency == Spec => ImplementsEmergency
<1>1. Init => Seen!EmergencyInit
  BY DEF Init, ServiceInit, SosSeen, VoiceSeen, Seen!EmergencyInit
<1>2. SosInv /\ [Next]_vars => [Seen!EmergencyNext]_(Seen!emergencyVars)
  BY NextIsEmergency
<1> QED
  BY <1>1, <1>2, SosInvariant, PTL DEF Spec, ImplementsEmergency, Seen!EmergencySpec

-----------------------------------------------------------------------------
\* How far an SOS has run down: the attempts left, and in each the phases left and
\* the messages that may still be repeated.

Ending == {"CALL_CENTER_SOS_END", "FAMILY_VER1_SOS_END", "FAMILY_VER2_SOS_END"}

\* After a call that was up all attempts are made again.
AttemptsLeft ==
  CASE sosPhase \in Ending \cup {"SOS_END"} -> 0
    [] sosPhase \in InCallingPhase \cup {"FAMILY_VER1_NOT_PRESS_KEY"} -> MaxStartCallRetry + 1
    [] OTHER -> IF Dials THEN MaxStartCallRetry - sosStartCallRetry
                ELSE MaxVer2Retry - familyVer2Retry

PhasesLeft ==
  CASE sosPhase \in InCallingPhase -> 12
    [] sosPhase = "SOS_CHECK" -> 11
    [] sosPhase = "SOS_START" -> 10
    [] sosPhase = "SOS_WAIT_MODEM_INIT" -> 9
    [] sosPhase = "SOS_WAIT_SEND_DATA" -> 8
    [] sosPhase = "SOS_WAIT_SEND_SMS" -> 7
    [] sosPhase = "SOS_INIT" -> 6
    [] sosPhase \in {"SOS_WAIT_INIT", "FAMILY_VER2_CHECK_PHONE_CALL"} -> 5
    [] sosPhase = "FAMILY_VER2_WAIT_ANSWER_CALL" -> 4
    [] sosPhase = "FAMILY_VER2_WAIT_END_CALL" -> 3
    [] sosPhase \in WaitCalling \cup {"FAMILY_VER2_WAIT_CALLING",
                                      "FAMILY_VER1_NOT_PRESS_KEY"} -> 2
    [] sosPhase \in Ending -> 1
    [] OTHER -> 0

MessagesLeft == MaxSmsRetry + 1 - sosSendSmsRetry

RunsDown ==
  \/ AttemptsLeft' < AttemptsLeft
  \/ AttemptsLeft' = AttemptsLeft /\ PhasesLeft' < PhasesLeft
  \/ /\ AttemptsLeft' = AttemptsLeft /\ PhasesLeft' = PhasesLeft
     /\ MessagesLeft' < MessagesLeft

NoCallUp == voiceCall_TaskPhase \notin {"IN_CALLING", "INCOMING_CALL"}

SosRest == UNCHANGED <<sosPhase, sosRetryVars>>

\* They are counts, so that they cannot fall for ever.
LEMMA LeftIsNat ==
  SosInv => AttemptsLeft \in Nat /\ PhasesLeft \in Nat /\ MessagesLeft \in Nat
<1> SUFFICES ASSUME SosInv
             PROVE  AttemptsLeft \in Nat /\ PhasesLeft \in Nat /\ MessagesLeft \in Nat
  OBVIOUS
<1>1. /\ sosStartCallRetry \in 0 .. MaxStartCallRetry
      /\ familyVer2Retry \in 0 .. MaxVer2Retry
      /\ sosSendSmsRetry \in 0 .. MaxSmsRetry + 1
  BY DEF SosInv, SosType
<1> QED
  BY <1>1 DEF AttemptsLeft, PhasesLeft, MessagesLeft

\* A step of Sos_Task, phase by phase.
LEMMA ProgressRunsDown ==
  SosInv /\ Progress /\ UNCHANGED cfgVars /\ NoCallUp => RunsDown \/ SosRest
<1> SUFFICES ASSUME SosInv, Progress, UNCHANGED cfgVars, NoCallUp
             PROVE  RunsDown \/ SosRest
  OBVIOUS
<1>0. /\ sosStartCallRetry \in 0 .. MaxStartCallRetry
      /\ familyVer2Retry \in 0 .. MaxVer2Retry
      /\ sosSendSmsRetry \in 0 .. MaxSmsRetry + 1
      /\ Dials' = Dials
  BY DEF SosInv, SosType, cfgVars, Dials
<1> USE <1>0 DEF Only, Wait, Goto, sosVars, sosRetryVars, WaitCalling, InCallingPhase,
        Ending, Phase_Of, RunsDown, SosRest, AttemptsLeft, PhasesLeft,
        MessagesLeft, NoCallUp
<1>1. CASE SosCheck
  BY <1>1 DEF SosCheck, Chooses, Begins
<1>2. CASE SosStart \/ SosWaitModemInit \/ SosWaitSendData \/ SosInit
  BY <1>2 DEF SosStart, SosWaitModemInit, SosWaitSendData, SosInit
<1>3. CASE SosWaitSendSms
  BY <1>3 DEF SosWaitSendSms
<1>4. CASE SosWaitInit
  BY <1>4 DEF SosWaitInit, WaitCallingPhase
<1>5. CASE SosWaitCalling
  BY <1>5 DEF SosWaitCalling, WaitCallingPhase, CallingPhase
<1>6. CASE CallCenterInCalling
  BY <1>6 DEF CallCenterInCalling, NextNumberOnFailure, Dials
<1>7. CASE FamilyVer1InCalling
  BY <1>7 DEF FamilyVer1InCalling, NextNumberOnFailure, Dials
<1>8. CASE FamilyVer1NotPressKey
  BY <1>8 DEF FamilyVer1NotPressKey, Dials
<1>9. CASE DialingSosEnd
  BY <1>9 DEF DialingSosEnd
<1>10. CASE Ver2WaitCalling
  BY <1>10 DEF Ver2WaitCalling
<1>11. CASE Ver2CheckPhoneCall \/ Ver2WaitAnswerCall
  BY <1>11 DEF Ver2CheckPhoneCall, Ver2WaitAnswerCall
<1>12. CASE Ver2WaitEndCall \/ Ver2SosEnd
  BY <1>12 DEF Ver2WaitEndCall, Ver2SosEnd
<1> QED
  BY <1>1, <1>2, <1>3, <1>4, <1>5, <1>6, <1>7, <1>8, <1>9, <1>10, <1>11, <1>12 DEF Progress

\* The numbers are not dialed, nor a call waited for, for ever: as long as no call
\* is up, an SOS that has begun makes no step, of whatever task, but to fewer
\* attempts, phases or messages left (sosStartCallRetry, familyVer2Retry and
\* sosSendSmsRetry are counted where they must be, and reset nowhere else).  Only an
\* upload, which may change the mode, gives some back.
THEOREM SosRunsDown ==
  Spec => /\ [](AttemptsLeft \in Nat /\ PhasesLeft \in Nat /\ MessagesLeft \in Nat)
          /\ [][sosPhase # "SOS_END" /\ NoCallUp /\ UNCHANGED cfgVars
                => RunsDown \/ SosRest]_vars
<1>1. SosInv /\ [Next]_vars
        => [sosPhase # "SOS_END" /\ NoCallUp /\ UNCHANGED cfgVars
              => RunsDown \/ SosRest]_vars
  <2> SUFFICES ASSUME SosInv, [Next]_vars, sosPhase # "SOS_END", NoCallUp,
                      UNCHANGED cfgVars
               PROVE  RunsDown \/ SosRest
    OBVIOUS
  <2>1. CASE Sos_Task
    BY <2>1, ProgressRunsDown DEF Sos_Task, Wait, sosVars, SosRest
  <2>2. CASE PowerOn \/ PowerKey
    <3>1. sosPhase' = "SOS_END" /\ sosPhase # "SOS_END"
      BY <2>2 DEF PowerOn, PowerKey
    <3>2. AttemptsLeft \in Nat /\ AttemptsLeft' = 0 /\ PhasesLeft' = 0
      BY <3>1, LeftIsNat DEF AttemptsLeft, PhasesLeft, Ending, WaitCalling, InCallingPhase
    <3>3. PhasesLeft \in Nat \ {0}
      BY <3>1 DEF PhasesLeft, SosInv, SosType, SosPhase, Ending
    <3> QED
      BY <3>2, <3>3 DEF RunsDown
  <2>3. CASE VoiceCall_Task \/ SMS_Manage \/ Upload \/ SosCheckSpins \/ Wait
             \/ UNCHANGED vars
    BY <2>3 DEF VoiceCall_Task, SMS_Manage, Upload, SosCheckSpins, Wait, vars, sosVars,
                SosRest
  <2>4. CASE SosCheckFinds
    <3>1. /\ sosPhase = "SOS_CHECK" /\ sosPhase' \in {"SOS_START", "SOS_INIT"}
          /\ UNCHANGED <<sosRetryVars, familyPalMode>>
      BY <2>4 DEF SosCheckFinds, Chooses, Begins, Goto, SosInv, ModeInv, cfgVars
    <3>2. AttemptsLeft' = AttemptsLeft
      BY <3>1 DEF AttemptsLeft, Dials, Ending, WaitCalling, InCallingPhase, sosRetryVars
    <3> QED
      BY <3>1, <3>2 DEF RunsDown, PhasesLeft, Ending, WaitCalling, InCallingPhase
  <2> QED
    BY <2>1, <2>2, <2>3, <2>4 DEF Next, Loop, Io_Power, Io_Keys, StartKey
<1> QED
  BY SosInvariant, LeftIsNat, <1>1, PTL DEF Spec
=============================================================================
