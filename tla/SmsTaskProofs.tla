--------------------------- MODULE SmsTaskProofs ---------------------------
(***************************************************************************)
(* Sms_Task sends every recipient the message meant for him, counts his    *)
(* failures from nothing, and ends a message only when all were served;    *)
(* the cancellation of an SOS is the last that is told of it.  For queues  *)
(* of any length, any contacts and any number of retries.                  *)
(***************************************************************************)
EXTENDS SmsTask, TLAPS

\* The queue: everything that SendTo, Sms_Task and SmsTask_Pause touch.
QueueType ==
  /\ smsPhase \in SmsPhase /\ smsPausedPhase \in SmsPhase \ {"SMS_PAUSED"}
  /\ offset \in Slot
  /\ number \in [Slot -> {"none", "contact", "white"}]
  /\ tryNum \in [Slot -> 0 .. SMS_RESEND_CNT_MAX]
  /\ data \in Message

\* FreshCount alone is not inductive: a failure is counted for the recipient being
\* served, who has to be there.
QueueInv == QueueType /\ MessageMeetsRecipients /\ FreshCount /\ ServesARecipient

\* The SOS and the messages it wants.
FlagType ==
  /\ sendCallMeSms \in BOOLEAN /\ sendSosAddressSms \in BOOLEAN
  /\ sendSosEndAddressSms \in BOOLEAN /\ sendSosCancelSms \in BOOLEAN
  /\ sosSmsSent \in BOOLEAN /\ sosAction \in BOOLEAN /\ ver2 \in BOOLEAN

BeforeSms == {"SOS_CHECK", "SOS_START", "SOS_WAIT_MODEM_INIT", "SOS_WAIT_SEND_DATA"}

PhaseType ==
  /\ pc \in {"sos", "power", "keys", "voice", "sms", "manage"} /\ voice \in VoicePhase
  /\ sosPhase \in SosPhase
  /\ sosSendSmsRetry \in 0 .. MaxSosSmsRetry + 1
  /\ sosPhase \in BeforeSms => sosSendSmsRetry = 0
  /\ sosPhase = "SOS_WAIT_SEND_SMS" => sosSendSmsRetry <= MaxSosSmsRetry

SmsInv == QueueInv /\ FlagType /\ PhaseType /\ CancelIsLast

USE SmsAssumption

-----------------------------------------------------------------------------
\* The queue.

\* The places of the queue.
LEMMA WrapInSlot ==
  ASSUME NEW i \in Slot, NEW k \in Looks PROVE Wrap(i + k) \in Slot
  BY DEF Wrap, Slot, Looks

\* The next place of the queue.
LEMMA NextInSlot == ASSUME NEW i \in Slot PROVE NextSlot(i) \in Slot
  BY DEF NextSlot, Wrap, Slot

\* The loop of SMS_CHECK misses no slot, wherever it begins.
LEMMA LooksEverywhere ==
  ASSUME offset \in Slot, NEW i \in Slot, number[i] # "none" PROVE Found # {}
<1> DEFINE k == IF i >= offset THEN i - offset ELSE i + SMS_MAX_NUMBER - offset
<1>1. k \in Looks /\ Wrap(offset + k) = i
  BY DEF Slot, Looks, Wrap
<1> QED
  BY <1>1 DEF Found

\* A new message replaces the recipients, their counts and the text together.
LEMMA SendToKeepsQueue ==
  ASSUME QueueInv,
         \/ \E m \in ForContacts : SendToContacts(m)
         \/ SendToWhiteCaller
  PROVE  QueueInv'
<1>1. /\ smsPhase' = "SMS_CHECK" /\ smsPausedPhase' = "SMS_IDLE"
      /\ offset' = 0 /\ tryNum' = [i \in Slot |-> 0]
  BY DEF SendToContacts, SendToWhiteCaller, SendTo, To
<1>2. /\ data' \in Message
      /\ \/ /\ \E filled \in Places : number' = AllContacts(filled)
            /\ data' \in ForContacts
         \/ (\E given \in BOOLEAN : number' = WhiteCaller(given)) /\ data' = "sosData"
  BY DEF SendToContacts, SendToWhiteCaller, SendTo, Message, ForContacts
<1>3. QueueType'
  BY <1>1, <1>2 DEF QueueType, SmsPhase, Slot, AllContacts, WhiteCaller
<1>4. MessageMeetsRecipients'
  BY <1>2 DEF MessageMeetsRecipients, AllContacts, WhiteCaller, ForContacts
<1>5. FreshCount' /\ ServesARecipient'
  BY <1>1 DEF FreshCount, ServesARecipient
<1> QED
  BY <1>3, <1>4, <1>5 DEF QueueInv

\* To stop, to pause and to leave Sms_Task alone change the phase only.
LEMMA StopAndPauseKeepQueue ==
  QueueInv /\ (SmsTask_Stop \/ SmsTask_Pause \/ UNCHANGED smsVars) => QueueInv'
<1> SUFFICES ASSUME QueueInv, SmsTask_Stop \/ SmsTask_Pause \/ UNCHANGED smsVars
             PROVE  QueueInv'
  OBVIOUS
<1>1. UNCHANGED <<offset, number, tryNum, data>>
  BY DEF SmsTask_Stop, SmsTask_Pause, smsVars, queueVars
<1>2. /\ smsPhase' \in SmsPhase /\ smsPausedPhase' \in SmsPhase \ {"SMS_PAUSED"}
      /\ ServesARecipient'
  BY <1>1 DEF QueueInv, QueueType, ServesARecipient, SmsTask_Stop, SmsTask_Pause,
              smsVars, SmsPhase, SmsTask_IsIdle, To
<1> QED
  BY <1>1, <1>2 DEF QueueInv, QueueType, MessageMeetsRecipients, FreshCount

\* Sms_Task itself.
LEMMA SmsKeepsQueue == QueueInv /\ Sms_Task => QueueInv'
<1> SUFFICES ASSUME QueueInv, Sms_Task PROVE QueueInv'
  OBVIOUS
<1> USE DEF QueueInv, QueueType, SmsPhase, To, Keep, queueVars
<1>1. CASE SmsCheck
  <2>1. offset' \in Slot
    BY <1>1, WrapInSlot, NextInSlot DEF SmsCheck, Found
  <2>2. /\ smsPhase' \in {"SMS_CHECK", "SMS_DELAY_START_SEND", "SMS_IDLE"}
        /\ smsPausedPhase' = "SMS_IDLE" /\ UNCHANGED <<number, tryNum, data>>
    BY <1>1 DEF SmsCheck
  <2> QED
    BY <2>1, <2>2 DEF MessageMeetsRecipients, FreshCount, ServesARecipient
<1>2. CASE SmsStart \/ SmsWaitModem \/ SmsFinishSend
  <2>1. UNCHANGED <<offset, number, tryNum, data>> /\ smsPausedPhase' = "SMS_IDLE"
    BY <1>2 DEF SmsStart, SmsWaitModem, SmsFinishSend
  <2>2. smsPhase' \in SmsPhase /\ ServesARecipient'
    BY <1>2, <2>1 DEF SmsStart, SmsWaitModem, SmsFinishSend, ServesARecipient
  <2> QED
    BY <2>1, <2>2 DEF MessageMeetsRecipients, FreshCount
<1>3. CASE SmsSent
  <2>1. offset' \in Slot
    BY <1>3, NextInSlot DEF SmsSent
  <2>2. /\ number' = [number EXCEPT ![offset] = "none"]
        /\ tryNum' = [tryNum EXCEPT ![offset] = 0]
        /\ UNCHANGED data /\ smsPhase' = "SMS_FINISH_SEND" /\ smsPausedPhase' = "SMS_IDLE"
    BY <1>3 DEF SmsSent
  <2> QED
    BY <2>1, <2>2 DEF MessageMeetsRecipients, FreshCount, ServesARecipient
<1>4. CASE SmsSendFail
  <2>1. offset' \in Slot
    BY <1>4, NextInSlot DEF SmsSendFail
  <2>2. UNCHANGED data /\ smsPhase' = "SMS_CHECK" /\ smsPausedPhase' = "SMS_IDLE"
    BY <1>4 DEF SmsSendFail
  <2>3. CASE tryNum[offset] >= SMS_RESEND_CNT_MAX
    <3>1. /\ number' = [number EXCEPT ![offset] = "none"]
          /\ tryNum' = [tryNum EXCEPT ![offset] = 0]
      BY <1>4, <2>3 DEF SmsSendFail
    <3> QED
      BY <2>1, <2>2, <3>1 DEF MessageMeetsRecipients, FreshCount, ServesARecipient
  <2>4. CASE ~(tryNum[offset] >= SMS_RESEND_CNT_MAX)
    <3>1. UNCHANGED number /\ tryNum' = [tryNum EXCEPT ![offset] = tryNum[offset] + 1]
      BY <1>4, <2>4 DEF SmsSendFail
    <3>2. tryNum' \in [Slot -> 0 .. SMS_RESEND_CNT_MAX]
      BY <2>4, <3>1
    <3>3. number[offset] # "none"
      BY <1>4 DEF SmsSendFail, ServesARecipient
    <3>4. FreshCount'
      BY <3>1, <3>3 DEF FreshCount
    <3> QED
      BY <2>1, <2>2, <3>1, <3>2, <3>4 DEF MessageMeetsRecipients, ServesARecipient
  <2> QED
    BY <2>3, <2>4
<1>5. CASE SmsIdle
  BY <1>5, SendToKeepsQueue, StopAndPauseKeepQueue DEF SmsIdle, ForContacts
<1>6. CASE SmsPaused
  <2>1. UNCHANGED <<offset, number, tryNum, data>>
    BY <1>6 DEF SmsPaused
  <2>2. /\ smsPhase' \in SmsPhase /\ smsPausedPhase' \in SmsPhase \ {"SMS_PAUSED"}
        /\ ServesARecipient'
    BY <1>6, <2>1 DEF SmsPaused, ServesARecipient
  <2> QED
    BY <2>1, <2>2 DEF MessageMeetsRecipients, FreshCount
<1> QED
  BY <1>1, <1>2, <1>3, <1>4, <1>5, <1>6 DEF Sms_Task

-----------------------------------------------------------------------------
\* The SOS and the flags.

\* The tasks that replace, stop and pause messages leave the queue in order.
LEMMA NextKeepsQueue == QueueInv /\ [Next]_vars => QueueInv'
<1> SUFFICES ASSUME QueueInv, [Next]_vars PROVE QueueInv'
  OBVIOUS
<1>1. CASE Sos_Task
  BY <1>1, SendToKeepsQueue, StopAndPauseKeepQueue
     DEF Sos_Task, SosEnd, SosStart, SosWaitSendData, SosWaitSendSms, SosInit, SosCalling,
         SosQuiet, ForContacts
<1>2. CASE Io_Power \/ Io_Keys
  BY <1>2, StopAndPauseKeepQueue DEF Io_Power, Io_Keys, SosTask_Start, SosTask_End
<1>3. CASE VoiceCall_Task
  BY <1>3, StopAndPauseKeepQueue DEF VoiceCall_Task
<1>4. CASE Sms_Task
  BY <1>4, SmsKeepsQueue
<1>5. CASE SMS_Manage \/ Upload \/ UNCHANGED vars
  BY <1>5, StopAndPauseKeepQueue DEF SMS_Manage, Upload, vars
<1> QED
  BY <1>1, <1>2, <1>3, <1>4, <1>5 DEF Next, Loop

\* The flags stay flags.
LEMMA NextKeepsFlags == FlagType /\ [Next]_vars => FlagType'
<1> SUFFICES ASSUME FlagType, [Next]_vars PROVE FlagType'
  OBVIOUS
<1> USE DEF FlagType, Flags, Keep, flagVars, emergencyVars
<1>1. CASE Sos_Task
  <2>1. UNCHANGED ver2
    BY <1>1 DEF Sos_Task, SosTurn
  <2> QED
    BY <1>1, <2>1 DEF Sos_Task, SosEnd, SosStart, SosWaitSendData, SosWaitSendSms, SosInit,
                      SosCalling, SosQuiet, sosVars
<1>2. CASE Io_Power \/ Io_Keys
  <2>1. UNCHANGED ver2
    BY <1>2 DEF Io_Power, Io_Keys, PowerKey, PowerOn, SosTask_Start, StartKey
  <2> QED
    BY <1>2, <2>1 DEF Io_Power, Io_Keys, SosTask_Start, SosTask_End, sosVars
<1>3. CASE VoiceCall_Task
  BY <1>3 DEF VoiceCall_Task, VoiceTurn, sosVars
<1>4. CASE Sms_Task
  BY <1>4 DEF Sms_Task, SmsCheck, SmsStart, SmsWaitModem, SmsSent, SmsFinishSend,
              SmsSendFail, SmsIdle, SmsPaused, sosVars
<1>5. CASE SMS_Manage \/ Upload \/ UNCHANGED vars
  BY <1>5 DEF SMS_Manage, Upload, SetMode, vars, sosVars
<1> QED
  BY <1>1, <1>2, <1>3, <1>4, <1>5 DEF Next, Loop

\* The phases of the SOS and its count of messages to the white-list number.
LEMMA NextKeepsPhases == PhaseType /\ [Next]_vars => PhaseType'
<1> SUFFICES ASSUME PhaseType, [Next]_vars PROVE PhaseType'
  OBVIOUS
<1> USE DEF PhaseType, BeforeSms, SosPhase, Goes, VoiceCallTask_EndCall, emergencyVars
<1>1. CASE Sos_Task
  <2>1. pc' = "power" /\ voice' \in VoicePhase
    BY <1>1 DEF Sos_Task, SosTurn, VoicePhase
  <2>2. /\ sosPhase' \in SosPhase
        /\ sosPhase' \in BeforeSms => sosPhase \in BeforeSms
        /\ sosPhase' = "SOS_WAIT_SEND_SMS"
             => sosPhase \in {"SOS_WAIT_SEND_DATA", "SOS_WAIT_SEND_SMS"}
    BY <1>1 DEF Sos_Task, SosTurn
  <2>3. CASE SosWaitSendSms
    <3>1. sosPhase = "SOS_WAIT_SEND_SMS" /\ sosPhase' \in {"SOS_WAIT_SEND_SMS", "SOS_INIT"}
      BY <2>3 DEF SosWaitSendSms
    <3>2. CASE UNCHANGED sosSendSmsRetry
      BY <2>1, <3>1, <3>2
    <3>3. CASE sosSendSmsRetry' = sosSendSmsRetry + 1
      <4>1. sosPhase' = "SOS_WAIT_SEND_SMS" => sosSendSmsRetry < MaxSosSmsRetry
        BY <2>3, <3>1, <3>3 DEF SosWaitSendSms
      <4> QED
        BY <2>1, <3>1, <3>3, <4>1
    <3> QED
      BY <2>3, <3>2, <3>3 DEF SosWaitSendSms
  <2>4. CASE ~SosWaitSendSms
    <3>1. UNCHANGED sosSendSmsRetry /\ sosPhase # "SOS_WAIT_SEND_SMS"
      BY <1>1, <2>4 DEF Sos_Task, SosEnd, SosStart, SosWaitSendData, SosInit, SosCalling,
                        SosQuiet, sosVars
    <3> QED
      BY <2>1, <2>2, <3>1
  <2> QED
    BY <2>3, <2>4
<1>2. CASE Io_Power \/ Io_Keys
  <2>1. pc' \in {"keys", "voice"} /\ voice' \in VoicePhase
    BY <1>2 DEF Io_Power, Io_Keys, PowerKey, PowerOn, SosTask_Start, StartKey, VoicePhase
  <2>2. \/ UNCHANGED <<sosPhase, sosSendSmsRetry>>
        \/ sosPhase' = "SOS_CHECK" /\ sosSendSmsRetry' = 0
        \/ sosPhase' = "SOS_END" /\ UNCHANGED sosSendSmsRetry
    BY <1>2 DEF Io_Power, Io_Keys, PowerKey, PowerOn, SosTask_Start, StartKey, SosTask_End,
                sosVars
  <2> QED
    BY <2>1, <2>2
<1>3. CASE VoiceCall_Task
  BY <1>3 DEF VoiceCall_Task, VoiceTurn, sosVars
<1>4. CASE Sms_Task
  BY <1>4 DEF Sms_Task, sosVars
<1>5. CASE SMS_Manage \/ Upload \/ UNCHANGED vars
  BY <1>5 DEF SMS_Manage, Upload, SetMode, vars, sosVars
<1> QED
  BY <1>1, <1>2, <1>3, <1>4, <1>5 DEF Next, Loop

\* Only an SOS that was cancelled wants to tell so, and the next one forgets it.
LEMMA NextKeepsCancelLast == FlagType /\ CancelIsLast /\ [Next]_vars => CancelIsLast'
<1> SUFFICES ASSUME FlagType, CancelIsLast, [Next]_vars PROVE CancelIsLast'
  OBVIOUS
<1> USE DEF CancelIsLast, Flags, Keep, flagVars, emergencyVars
<1>1. CASE Sos_Task
  <2>1. sosPhase = "SOS_END" => sosPhase' = "SOS_END"
    BY <1>1 DEF Sos_Task, SosTurn, Goes
  <2> QED
    BY <1>1, <2>1 DEF Sos_Task, SosEnd, SosStart, SosWaitSendData, SosWaitSendSms, SosInit,
                      SosCalling, SosQuiet, sosVars
<1>2. CASE Io_Power \/ Io_Keys
  BY <1>2 DEF Io_Power, Io_Keys, PowerKey, PowerOn, SosTask_Start, SosTask_End, sosVars
<1>3. CASE VoiceCall_Task
  BY <1>3 DEF VoiceCall_Task, VoiceTurn, sosVars
<1>4. CASE Sms_Task
  BY <1>4 DEF Sms_Task, SmsCheck, SmsStart, SmsWaitModem, SmsSent, SmsFinishSend,
              SmsSendFail, SmsIdle, SmsPaused, sosVars
<1>5. CASE SMS_Manage \/ Upload \/ UNCHANGED vars
  BY <1>5 DEF SMS_Manage, Upload, SetMode, vars, sosVars
<1> QED
  BY <1>1, <1>2, <1>3, <1>4, <1>5 DEF Next, Loop

-----------------------------------------------------------------------------
\* Initially nothing is wanted and nobody is in the queue.
LEMMA InitSmsInv == Init => SmsInv
<1> SUFFICES ASSUME Init PROVE SmsInv
  OBVIOUS
<1>1. QueueType
  BY DEF Init, QueueType, SmsPhase, Slot, Message
<1>2. MessageMeetsRecipients /\ FreshCount /\ ServesARecipient
  BY DEF Init, MessageMeetsRecipients, FreshCount, ServesARecipient
<1>3. FlagType
  BY DEF Init, EmergencyInit, FlagType
<1>4. PhaseType
  BY DEF Init, EmergencyInit, PhaseType, BeforeSms, SosPhase, VoicePhase
<1>5. CancelIsLast
  BY DEF Init, CancelIsLast
<1> QED
  BY <1>1, <1>2, <1>3, <1>4, <1>5 DEF SmsInv, QueueInv

\* The invariant of the messages, for every queue and every list of contacts.
THEOREM SmsInvariant == Spec => []SmsInv
<1>1. SmsInv /\ [Next]_vars => SmsInv'
  BY NextKeepsQueue, NextKeepsFlags, NextKeepsPhases, NextKeepsCancelLast DEF SmsInv
<1> QED
  BY InitSmsInv, <1>1, PTL DEF Spec

\* Phases, flags, the place in the queue and the counts stay in their ranges:
\* offset and tryNum never leave smsSend's arrays.
THEOREM SmsTyped == Spec => []TypeOK
<1>1. SmsInv => TypeOK
  BY DEF SmsInv, QueueInv, QueueType, FlagType, PhaseType, TypeOK
<1> QED
  BY SmsInvariant, <1>1, PTL

\* A message replaced, stopped or paused (SmsTask_ClearAllSms, SmsTask_Stop,
\* SmsTask_Pause) never reaches the recipients of another one.
THEOREM RightMessage == Spec => []MessageMeetsRecipients
<1>1. SmsInv => MessageMeetsRecipients
  BY DEF SmsInv, QueueInv
<1> QED
  BY SmsInvariant, <1>1, PTL

\* SMS_SENT and SMS_SEND_FAIL settle the account of a recipient who is in the
\* queue, also after a pause or a message that replaced the one under way.
THEOREM ServedAreInQueue == Spec => []ServesARecipient
<1>1. SmsInv => ServesARecipient
  BY DEF SmsInv, QueueInv
<1> QED
  BY SmsInvariant, <1>1, PTL

\* Whoever enters the queue starts with no failures of an earlier message.
THEOREM CountsStartFresh == Spec => []FreshCount
<1>1. SmsInv => FreshCount
  BY DEF SmsInv, QueueInv
<1> QED
  BY SmsInvariant, <1>1, PTL

\* Once SosTask_End has asked for the cancellation to be told, nothing else of that
\* SOS is told.
THEOREM CancellationIsLast == Spec => []CancelIsLast
<1>1. SmsInv => CancelIsLast
  BY DEF SmsInv
<1> QED
  BY SmsInvariant, <1>1, PTL

\* The loop of SMS_CHECK ends a message only with the queue empty, for queues of
\* any length.
THEOREM NobodyIsForgotten == Spec => EveryRecipientServed
<1>1. SmsInv /\ [Next]_vars
        => [smsPhase = "SMS_CHECK" /\ smsPhase' = "SMS_IDLE" /\ pc = "sms"
              => \A i \in Slot : number[i] = "none"]_vars
  <2> SUFFICES ASSUME SmsInv, [Next]_vars,
                      smsPhase = "SMS_CHECK", smsPhase' = "SMS_IDLE", pc = "sms",
                      NEW i \in Slot, number[i] # "none"
               PROVE  FALSE
    OBVIOUS
  <2>1. Found # {}
    BY LooksEverywhere DEF SmsInv, QueueInv, QueueType
  <2>2. data # "none"
    BY DEF SmsInv, QueueInv, QueueType, MessageMeetsRecipients, ForContacts
  <2>3. SmsCheck
    BY DEF Next, Loop, Upload, Sos_Task, Io_Power, Io_Keys, VoiceCall_Task, SMS_Manage,
           Sms_Task, SmsStart, SmsWaitModem, SmsSent, SmsFinishSend, SmsSendFail, SmsIdle,
           SmsPaused, vars, smsVars
  <2> QED
    BY <2>1, <2>2, <2>3 DEF SmsCheck, To
<1> QED
  BY SmsInvariant, <1>1, PTL DEF Spec, EveryRecipientServed

-----------------------------------------------------------------------------
\* How often a recipient may still be tried.
Left(i) == IF number[i] = "none" THEN 0 ELSE SMS_RESEND_CNT_MAX + 1 - tryNum[i]

\* A turn of Sms_Task gives nobody an attempt back.
NoneRegained == \A i \in Slot : Left(i)' <= Left(i)
OneSpent == \E i \in Slot : Left(i)' < Left(i)

\* What a turn does to the attempts, until the message is done.
LEMMA SmsSpendsAttempts ==
  QueueInv /\ Sms_Task /\ smsPhase # "SMS_IDLE"
    => NoneRegained /\ (smsPhase \in {"SMS_SENT", "SMS_SEND_FAIL"} => OneSpent)
<1> SUFFICES ASSUME QueueInv, Sms_Task, smsPhase # "SMS_IDLE"
             PROVE  NoneRegained /\ (smsPhase \in {"SMS_SENT", "SMS_SEND_FAIL"} => OneSpent)
  OBVIOUS
<1>1. /\ number \in [Slot -> {"none", "contact", "white"}]
      /\ tryNum \in [Slot -> 0 .. SMS_RESEND_CNT_MAX]
      /\ offset \in Slot
      /\ smsPhase \in {"SMS_SENT", "SMS_SEND_FAIL"} => number[offset] # "none"
  BY DEF QueueInv, QueueType, ServesARecipient
<1> USE <1>1 DEF NoneRegained, OneSpent, Left
<1>2. CASE SmsSent
  <2>1. /\ number' = [number EXCEPT ![offset] = "none"]
        /\ tryNum' = [tryNum EXCEPT ![offset] = 0]
        /\ smsPhase = "SMS_SENT"
    BY <1>2 DEF SmsSent
  <2> QED
    BY <2>1
<1>3. CASE SmsSendFail
  <2>1. smsPhase = "SMS_SEND_FAIL"
    BY <1>3 DEF SmsSendFail
  <2>2. \/ /\ number' = [number EXCEPT ![offset] = "none"]
           /\ tryNum' = [tryNum EXCEPT ![offset] = 0]
        \/ tryNum' = [tryNum EXCEPT ![offset] = tryNum[offset] + 1] /\ UNCHANGED number
    BY <1>3 DEF SmsSendFail
  <2> QED
    BY <2>1, <2>2
<1>4. CASE SmsCheck \/ SmsStart \/ SmsWaitModem \/ SmsFinishSend \/ SmsPaused
  <2>1. UNCHANGED <<number, tryNum>> /\ smsPhase \notin {"SMS_SENT", "SMS_SEND_FAIL"}
    BY <1>4 DEF SmsCheck, SmsStart, SmsWaitModem, SmsFinishSend, SmsPaused, Keep, queueVars
  <2> QED
    BY <2>1
<1> QED
  BY <1>2, <1>3, <1>4 DEF Sms_Task, SmsIdle

\* A message does not go on for ever: every success and every failure takes an
\* attempt from a recipient who has one left, and until the message is done or
\* replaced no turn gives one back; also when it was paused half-way, and for any
\* number of recipients and retries.
THEOREM MessageRunsOut ==
  Spec => /\ [](\A i \in Slot : Left(i) \in Nat)
          /\ [][Sms_Task /\ smsPhase # "SMS_IDLE"
                  => /\ NoneRegained
                     /\ smsPhase \in {"SMS_SENT", "SMS_SEND_FAIL"} => OneSpent]_vars
<1>1. SmsInv => \A i \in Slot : Left(i) \in Nat
  <2> SUFFICES ASSUME SmsInv, NEW i \in Slot PROVE Left(i) \in Nat
    OBVIOUS
  <2>1. tryNum[i] \in 0 .. SMS_RESEND_CNT_MAX
    BY DEF SmsInv, QueueInv, QueueType
  <2> QED
    BY <2>1 DEF Left
<1>2. SmsInv /\ [Next]_vars
        => [Sms_Task /\ smsPhase # "SMS_IDLE"
              => /\ NoneRegained
                 /\ smsPhase \in {"SMS_SENT", "SMS_SEND_FAIL"} => OneSpent]_vars
  BY SmsSpendsAttempts DEF SmsInv
<1> QED
  BY SmsInvariant, <1>1, <1>2, PTL DEF Spec
=============================================================================
