------------------------------ MODULE SmsTask ------------------------------
(***************************************************************************)
(* Sms_Task (io_tasks.c), which sends one message at a time to a queue of  *)
(* recipients, between the two tasks that interfere with it: the SOS,      *)
(* which asks for messages, replaces and stops them and does not dial      *)
(* before the task is idle, and the voice task, which pauses it.           *)
(*                                                                         *)
(* AppRun's loop runs sos, io (power key, then the others), voice and sms  *)
(* in this order, and SMS_Manage when all are at rest; pc names the task   *)
(* whose turn it is.  What the SOS and the voice task do is Emergency's:   *)
(* here is what they do to the messages meanwhile.                         *)
(*                                                                         *)
(* A message is its kind, a recipient the slot of the queue it stands in   *)
(* or, in its place, the white-list number ("white").  The numbers are     *)
(* copied when a message is begun; which there are at that moment is open, *)
(* since an upload in the USB interrupt may write them at any time.        *)
(*                                                                         *)
(* Free choices: whether a timer has expired, the modem has coverage, is   *)
(* idle, accepts the message, answers OK.                                  *)
(***************************************************************************)
EXTENDS Naturals, Emergency

CONSTANTS
  SMS_MAX_NUMBER,       \* slots of the queue, 6
  Places,               \* bound: the slots of userList that are filled together
  white,                \* whether sysCfg.whiteCallerNo may have one
  SMS_RESEND_CNT_MAX,   \* 2
  MaxSosSmsRetry        \* 2

Slot == 0 .. SMS_MAX_NUMBER - 1

ASSUME SmsAssumption ==
  /\ SMS_MAX_NUMBER \in Nat \ {0}
  /\ Places \subseteq SUBSET Slot
  /\ white \in BOOLEAN
  /\ SMS_RESEND_CNT_MAX \in Nat /\ MaxSosSmsRetry \in Nat

VARIABLES
  pc,
  sosAction,                    \* the SOS is not yet known to be over
  sosSendSmsRetry,
  sendCallMeSms, sendSosAddressSms, sendSosEndAddressSms, sendSosCancelSms,
  sosSmsSent,
  smsPhase, smsPausedPhase,
  offset, number, tryNum, data  \* smsSend

sosVars == <<sosAction, sosSendSmsRetry>>
flagVars == <<sendCallMeSms, sendSosAddressSms, sendSosEndAddressSms, sendSosCancelSms>>
queueVars == <<offset, number, tryNum, data>>
smsVars == <<smsPhase, smsPausedPhase, queueVars>>
vars == <<pc, emergencyVars, sosVars, flagVars, sosSmsSent, smsVars>>

SmsPhase ==
  {"SMS_IDLE", "SMS_FINISH_SEND", "SMS_CHECK", "SMS_DELAY_START_SEND",
   "SMS_START_SEND", "SMS_WAIT_MODEM_INIT", "SMS_WAIT_MODEM_ANSWER",
   "SMS_WAIT_SEND", "SMS_SENT", "SMS_SEND_FAIL", "SMS_PAUSED"}

\* What data holds: nothing yet, the message of an SOS to the contacts, that it is
\* over, cancelled or answered, the request to call back, the data for the centre.
ForContacts == {"address", "end", "cancel", "responded", "callMe"}
Message == {"none", "sosData"} \cup ForContacts

SmsTask_IsIdle == smsPhase \in {"SMS_IDLE", "SMS_PAUSED"}

-----------------------------------------------------------------------------
Init ==
  /\ EmergencyInit
  /\ pc = "sos" /\ sosAction = FALSE /\ sosSendSmsRetry = 0
  /\ sendCallMeSms = FALSE /\ sendSosAddressSms = FALSE
  /\ sendSosEndAddressSms = FALSE /\ sendSosCancelSms = FALSE
  /\ sosSmsSent = FALSE
  /\ smsPhase = "SMS_IDLE" /\ smsPausedPhase = "SMS_IDLE"
  /\ offset = 0 /\ data = "none"
  /\ number = [i \in Slot |-> "none"] /\ tryNum = [i \in Slot |-> 0]

-----------------------------------------------------------------------------
\* What the other tasks do to Sms_Task.

\* A step to a phase other than SMS_PAUSED.  The phase to return to is not read
\* again before the next pause; the model forgets it.
To(p) == smsPhase' = p /\ smsPausedPhase' = "SMS_IDLE"

Flags(callMe, address, end, cancel) ==
  /\ sendCallMeSms' = callMe /\ sendSosAddressSms' = address
  /\ sendSosEndAddressSms' = end /\ sendSosCancelSms' = cancel

\* Mutant: recipients of the last message are left in the queue.
SendToKeepsOthers(recipients, message) ==
  /\ number' = [i \in Slot |-> IF recipients[i] = "none" THEN number[i] ELSE recipients[i]]
  /\ tryNum' = [i \in Slot |-> 0]
  /\ data' = message /\ offset' = 0
  /\ To("SMS_CHECK")

\* Mutant: the counts of failures are left as they were.
SendToKeepsCounts(recipients, message) ==
  /\ number' = recipients /\ UNCHANGED tryNum
  /\ data' = message /\ offset' = 0
  /\ To("SMS_CHECK")

\* Mutant: a message under way goes on with the new recipients.
SendToGoesOn(recipients, message) ==
  /\ number' = recipients /\ tryNum' = [i \in Slot |-> 0]
  /\ data' = message /\ UNCHANGED offset
  /\ IF smsPhase = "SMS_IDLE" THEN To("SMS_CHECK")
     ELSE UNCHANGED <<smsPhase, smsPausedPhase>>

\* SmsTask_ClearAllSms, the recipients, SmsTask_SetMessage and SmsTask_SendSms:
\* always these four together, so that the message starts whatever was under way.
SendTo(recipients, message) ==
  /\ number' = recipients /\ tryNum' = [i \in Slot |-> 0]
  /\ data' = message /\ offset' = 0
  /\ To("SMS_CHECK")

\* SmsTask_AddAllContactPhoneNo; SmsTask_AddPhoneNo on the empty queue.
AllContacts(filled) == [i \in Slot |-> IF i \in filled THEN "contact" ELSE "none"]
WhiteCaller(given) == [i \in Slot |-> IF i = 0 /\ given THEN "white" ELSE "none"]

SendToContacts(message) ==
  \E filled \in Places : SendTo(AllContacts(filled), message)
SendToWhiteCaller == \E given \in {FALSE, white} : SendTo(WhiteCaller(given), "sosData")

SmsTask_Stop == To("SMS_IDLE") /\ UNCHANGED queueVars

\* A message handed to the modem is waited for up to 10 s, in a nested loop that
\* runs ModemCmd_Task and Sms_Task and gives up the attempt unless it is SMS_SENT.
\* (smsPauseRequest is read in SMS_SEND_FAIL only, which that loop never runs.)
SmsTask_Pause ==
  IF SmsTask_IsIdle
  THEN UNCHANGED smsVars
  ELSE /\ smsPausedPhase' \in
            IF smsPhase \in {"SMS_WAIT_MODEM_ANSWER", "SMS_WAIT_SEND"}
            THEN {"SMS_SENT", "SMS_CHECK"} ELSE {smsPhase}
       /\ smsPhase' = "SMS_PAUSED"
       /\ UNCHANGED queueVars

-----------------------------------------------------------------------------
\* Sos_Task: what its turn, Emergency's SosTurn, does to the messages.

\* The end of an SOS is told to the contacts, unless it was cancelled.
SosEnd ==
  /\ sosPhase = "SOS_END"
  /\ IF sosAction
     THEN Flags(sendCallMeSms, sendSosAddressSms, TRUE, sendSosCancelSms)
     ELSE UNCHANGED flagVars
  /\ sosAction' = FALSE
  /\ UNCHANGED <<sosSendSmsRetry, smsVars>>

\* With coverage; or it is waited for, which does not stop the message under way.
SosStart ==
  /\ sosPhase = "SOS_START"
  /\ IF sosPhase' = "SOS_WAIT_SEND_DATA" THEN SmsTask_Stop ELSE UNCHANGED smsVars
  /\ UNCHANGED <<sosVars, flagVars>>

SosWaitSendData ==
  /\ sosPhase = "SOS_WAIT_SEND_DATA"
  /\ Flags(sendCallMeSms, TRUE, sendSosEndAddressSms, sendSosCancelSms)
  /\ UNCHANGED <<sosVars, smsVars>>

\* When the time is over the message is replaced by one to the white-list number.
SosWaitSendSms ==
  /\ sosPhase = "SOS_WAIT_SEND_SMS"
  /\ \/ /\ sosPhase' = IF smsPhase = "SMS_IDLE" THEN "SOS_INIT" ELSE sosPhase
        /\ UNCHANGED <<sosSendSmsRetry, smsVars>>
     \/ /\ smsPhase # "SMS_IDLE"
        /\ sosSendSmsRetry' = sosSendSmsRetry + 1
        /\ IF sosSendSmsRetry < MaxSosSmsRetry
           THEN sosPhase' = sosPhase /\ SendToWhiteCaller
           ELSE sosPhase' = "SOS_INIT" /\ SmsTask_Stop
  /\ UNCHANGED <<sosAction, flagVars>>

\* In FAMILY_VER2 the contacts are asked to call back.
SosInit ==
  /\ sosPhase = "SOS_INIT"
  /\ Flags(ver2 \/ sendCallMeSms, sendSosAddressSms, sendSosEndAddressSms, sendSosCancelSms)
  /\ UNCHANGED <<sosVars, smsVars>>

\* An answered call is told to the contacts, replacing the message under way.
SosCalling ==
  /\ sosPhase = "CALLING"
  /\ IF sosPhase' = "FAMILY_VER2_WAIT_END_CALL"
     THEN SendToContacts("responded") ELSE UNCHANGED smsVars
  /\ UNCHANGED <<sosVars, flagVars>>

\* It dials when 3 s are over and Sms_Task is idle.
SosQuiet ==
  /\ sosPhase \in {"SOS_CHECK", "SOS_WAIT_MODEM_INIT", "SOS_WAIT_INIT",
                   "FAMILY_VER2_WAIT_END_CALL"}
  /\ sosPhase = "SOS_WAIT_INIT" /\ sosPhase' = "CALLING" => SmsTask_IsIdle
  /\ UNCHANGED <<sosVars, flagVars, smsVars>>

Sos_Task ==
  /\ pc = "sos"
  /\ SosTurn
  /\ \/ SosEnd \/ SosStart \/ SosWaitSendData \/ SosWaitSendSms \/ SosInit
     \/ SosCalling \/ SosQuiet
  /\ pc' = "power"
  /\ UNCHANGED sosSmsSent

-----------------------------------------------------------------------------
\* Io_Task: the keys.

\* Mutant: messages of the last SOS stay wanted.
SosTask_StartKeepsFlags ==
  /\ StartKey
  /\ sosAction' = TRUE /\ sosSendSmsRetry' = 0
  /\ sosSmsSent' = FALSE
  /\ UNCHANGED <<flagVars, smsVars>>

\* The message under way goes on; those still wanted are forgotten.
SosTask_Start ==
  /\ StartKey
  /\ sosAction' = TRUE /\ sosSendSmsRetry' = 0
  /\ Flags(FALSE, FALSE, FALSE, FALSE)
  /\ sosSmsSent' = FALSE
  /\ UNCHANGED smsVars

\* The power key.  In a call (IN_CALLING, WAIT_START_CALL, WAIT_ANSWER_CALL) it
\* ends the SOS; otherwise the SOS is cancelled, which is told to the contacts if
\* a message was sent.
SosTask_End ==
  /\ sosPhase # "SOS_END"
  /\ \/ /\ ~VoiceCallTask_IsIdle /\ UNCHANGED voice
        /\ UNCHANGED <<sosAction, flagVars, sosSmsSent, smsVars>>
     \/ /\ voice # "inCall"
        /\ sosAction' = FALSE
        /\ IF sosSmsSent THEN Flags(FALSE, FALSE, FALSE, TRUE) ELSE UNCHANGED flagVars
        /\ sosSmsSent' = FALSE
        /\ SmsTask_Stop
  /\ UNCHANGED sosSendSmsRetry

\* The two keys may both be pressed in one turn, the power key is looked at first.
Io_Power ==
  /\ pc = "power"
  /\ \/ PowerKey /\ SosTask_End
     \/ /\ \/ PowerKey /\ sosPhase = "SOS_END"
           \/ PowerOn
           \/ UNCHANGED emergencyVars
        /\ UNCHANGED <<sosVars, flagVars, sosSmsSent, smsVars>>
  /\ pc' = "keys"

Io_Keys ==
  /\ pc = "keys"
  /\ SosTask_Start \/ UNCHANGED <<emergencyVars, sosVars, flagVars, sosSmsSent, smsVars>>
  /\ pc' = "voice"

-----------------------------------------------------------------------------
\* The voice task pauses the messages while it is busy with a call: when it sets
\* one up, which may fail at once, when one comes in, when it hangs up.

VoiceCall_Task ==
  /\ pc = "voice"
  /\ VoiceTurn
  /\ UNCHANGED smsVars \/ (voice = "busy" /\ voice' # "inCall" /\ SmsTask_Pause)
  /\ pc' = "sms"
  /\ UNCHANGED <<sosVars, flagVars, sosSmsSent>>

-----------------------------------------------------------------------------
\* Sms_Task, phase by phase.

Keep == UNCHANGED <<queueVars, flagVars, sosSmsSent>>
\* The slots are taken round the queue.
Wrap(i) == IF i >= SMS_MAX_NUMBER THEN i - SMS_MAX_NUMBER ELSE i

\* Mutant: the last slot is followed by the end of the array.
NextSlotNoWrap(i) == i + 1

NextSlot(i) == Wrap(i + 1)

\* Mutant: one slot less is looked at.
LooksTooFew == 0 .. SMS_MAX_NUMBER - 2

\* The loop of SMS_CHECK looks seven times, from offset on, round the queue.
Looks == 0 .. SMS_MAX_NUMBER
Found == {k \in Looks : number[Wrap(offset + k)] # "none"}

\* The next recipient; with none left the message is done.  Without coverage the
\* phase waits, for as long as it takes.
SmsCheck ==
  /\ smsPhase = "SMS_CHECK"
  /\ \/ To(smsPhase) /\ UNCHANGED offset
     \/ /\ Found # {} /\ data # "none"
        /\ \E k \in Found : /\ \A j \in Found : k <= j
                            /\ offset' = Wrap(offset + k)
        /\ To("SMS_DELAY_START_SEND")
     \/ /\ ~(Found # {} /\ data # "none")
        /\ offset' = NextSlot(offset)
        /\ To("SMS_IDLE")
  /\ UNCHANGED <<number, tryNum, data, flagVars, sosSmsSent>>

\* The recipient's message up to the modem's prompt.
SmsStart ==
  /\ \/ smsPhase = "SMS_DELAY_START_SEND" /\ To("SMS_START_SEND")
     \/ /\ smsPhase = "SMS_START_SEND"
        /\ To(IF number[offset] # "none" /\ data # "none"
              THEN "SMS_WAIT_MODEM_INIT" ELSE "SMS_CHECK")
     \/ smsPhase = "SMS_WAIT_MODEM_INIT" /\ To("SMS_WAIT_MODEM_ANSWER")
     \/ smsPhase \in {"SMS_DELAY_START_SEND", "SMS_START_SEND", "SMS_WAIT_MODEM_INIT"}
          /\ To(smsPhase)
  /\ Keep

\* The modem takes the message or not, and answers OK or not, in time.
SmsWaitModem ==
  /\ \/ /\ smsPhase = "SMS_WAIT_MODEM_ANSWER"
        /\ \E p \in {"SMS_WAIT_SEND", "SMS_SEND_FAIL", smsPhase} : To(p)
     \/ /\ smsPhase = "SMS_WAIT_SEND"
        /\ \E p \in {"SMS_SENT", "SMS_SEND_FAIL", smsPhase} : To(p)
  /\ Keep

\* sosSmsSent: a message of the SOS has been sent.
SmsSent ==
  /\ smsPhase = "SMS_SENT"
  /\ number' = [number EXCEPT ![offset] = "none"]
  /\ tryNum' = [tryNum EXCEPT ![offset] = 0]
  /\ offset' = NextSlot(offset)
  /\ sosSmsSent' = (sosSmsSent \/ ~sendSosAddressSms \/ sosPhase # "SOS_END")
  /\ To("SMS_FINISH_SEND")
  /\ UNCHANGED <<data, flagVars>>

SmsFinishSend ==
  /\ smsPhase = "SMS_FINISH_SEND"
  /\ To("SMS_CHECK") \/ To(smsPhase)
  /\ Keep

\* Mutant: failures are not counted.
SmsSendFailForEver ==
  /\ smsPhase = "SMS_SEND_FAIL"
  /\ offset' = NextSlot(offset)
  /\ To("SMS_CHECK")
  /\ UNCHANGED <<number, tryNum, data, flagVars, sosSmsSent>>

\* The other recipients come first; after SMS_RESEND_CNT_MAX more attempts a
\* recipient is given up.
SmsSendFail ==
  /\ smsPhase = "SMS_SEND_FAIL"
  /\ IF tryNum[offset] >= SMS_RESEND_CNT_MAX
     THEN /\ number' = [number EXCEPT ![offset] = "none"]
          /\ tryNum' = [tryNum EXCEPT ![offset] = 0]
     ELSE /\ tryNum' = [tryNum EXCEPT ![offset] = tryNum[offset] + 1]
          /\ UNCHANGED number
  /\ offset' = NextSlot(offset)
  /\ To("SMS_CHECK")
  /\ UNCHANGED <<data, flagVars, sosSmsSent>>

\* Mutant: the end is told before the message of the SOS itself.
SmsIdleEndFirst ==
  /\ smsPhase = "SMS_IDLE"
  /\ IF voice # "busy" /\ sendSosEndAddressSms
     THEN /\ Flags(sendCallMeSms, sendSosAddressSms, FALSE, sendSosCancelSms)
          /\ SendToContacts("end")
     ELSE UNCHANGED <<flagVars, smsVars>>
  /\ UNCHANGED sosSmsSent

\* The message wanted most, once no call is being set up: call me, the SOS, its
\* end, its cancellation.
SmsIdle ==
  /\ smsPhase = "SMS_IDLE"
  /\ IF voice # "busy" /\ sendCallMeSms
     THEN /\ Flags(FALSE, sendSosAddressSms, sendSosEndAddressSms, sendSosCancelSms)
          /\ SendToContacts("callMe")
     ELSE IF voice # "busy" /\ sendSosAddressSms /\ ~(ver2 /\ sosPhase = "SOS_INIT")
     THEN /\ Flags(FALSE, FALSE, sendSosEndAddressSms, sendSosCancelSms)
          /\ SendToContacts("address")
     ELSE IF voice # "busy" /\ ~sendSosAddressSms /\ sendSosEndAddressSms
     THEN /\ Flags(FALSE, FALSE, FALSE, sendSosCancelSms)
          /\ SendToContacts("end")
     ELSE IF voice # "busy" /\ ~sendSosAddressSms /\ sendSosCancelSms
     THEN /\ Flags(FALSE, FALSE, FALSE, FALSE)
          /\ SendToContacts("cancel")
     ELSE UNCHANGED <<flagVars, smsVars>>
  /\ UNCHANGED sosSmsSent

SmsPaused ==
  /\ smsPhase = "SMS_PAUSED"
  /\ IF voice # "busy" THEN To(smsPausedPhase)
     ELSE UNCHANGED <<smsPhase, smsPausedPhase>>
  /\ Keep

Sms_Task ==
  /\ pc = "sms"
  /\ \/ SmsCheck \/ SmsStart \/ SmsWaitModem \/ SmsSent \/ SmsFinishSend
     \/ SmsSendFail \/ SmsIdle \/ SmsPaused
  /\ pc' = IF sosPhase = "SOS_END" THEN "manage" ELSE "sos"
  /\ UNCHANGED <<emergencyVars, sosVars>>

\* With no SOS, no call and no message under way a message received may change
\* the mode.
SMS_Manage ==
  /\ pc = "manage"
  /\ \/ /\ sosPhase = "SOS_END" /\ VoiceCallTask_IsIdle /\ smsPhase = "SMS_IDLE"
        /\ SetMode
     \/ UNCHANGED emergencyVars
  /\ pc' = "sos"
  /\ UNCHANGED <<sosVars, flagVars, sosSmsSent, smsVars>>

\* An upload may, whatever the loop is doing.  Only Sos_Task and Sms_Task read the
\* mode: an upload at another time counts as one before the next of these.
Upload ==
  /\ pc \in {"sos", "sms"}
  /\ SetMode /\ ver2' # ver2
  /\ UNCHANGED <<pc, sosVars, flagVars, sosSmsSent, smsVars>>

Loop == Sos_Task \/ Io_Power \/ Io_Keys \/ VoiceCall_Task \/ Sms_Task \/ SMS_Manage

Next == Loop \/ Upload

Spec == Init /\ [][Next]_vars

\* The loop keeps running; a phase of Sms_Task or of the SOS that can be left
\* again and again is left: timers expire, coverage returns for long enough.
Fairness ==
  /\ WF_vars(Loop)
  /\ SF_vars(Sms_Task /\ smsPhase' # smsPhase)
  /\ SF_vars(Sos_Task /\ sosPhase' # sosPhase)

FairSpec == Spec /\ Fairness

-----------------------------------------------------------------------------
(***************************************************************************)
(* Properties.                                                             *)
(***************************************************************************)

TypeOK ==
  /\ pc \in {"sos", "power", "keys", "voice", "sms", "manage"} /\ ver2 \in BOOLEAN
  /\ voice \in VoicePhase
  /\ sosPhase \in SosPhase /\ sosAction \in BOOLEAN
  /\ sosSendSmsRetry \in 0 .. MaxSosSmsRetry + 1
  /\ sendCallMeSms \in BOOLEAN /\ sendSosAddressSms \in BOOLEAN
  /\ sendSosEndAddressSms \in BOOLEAN /\ sendSosCancelSms \in BOOLEAN
  /\ sosSmsSent \in BOOLEAN
  /\ smsPhase \in SmsPhase /\ smsPausedPhase \in SmsPhase \ {"SMS_PAUSED"}
  /\ offset \in Slot
  /\ number \in [Slot -> {"none", "contact", "white"}]
  /\ tryNum \in [Slot -> 0 .. SMS_RESEND_CNT_MAX]
  /\ data \in Message

\* Whoever stands in the queue gets the message meant for him, whichever task
\* replaced, stopped or paused the one before: the data of the SOS go to the
\* white-list number only, the other messages to contacts only.
MessageMeetsRecipients ==
  \A i \in Slot :
    /\ number[i] = "white" => data = "sosData"
    /\ number[i] = "contact" => i \in UNION Places /\ data \in ForContacts

\* A slot of the queue starts with no failures counted, also after a message that
\* was stopped or replaced half-way.
FreshCount == \A i \in Slot : number[i] = "none" => tryNum[i] = 0

\* A recipient is being served while he stands in the queue.
ServesARecipient ==
  LET phase == IF smsPhase = "SMS_PAUSED" THEN smsPausedPhase ELSE smsPhase
  IN  phase \in {"SMS_WAIT_MODEM_INIT", "SMS_WAIT_MODEM_ANSWER", "SMS_WAIT_SEND",
                 "SMS_SENT", "SMS_SEND_FAIL"}
        => number[offset] # "none"

\* That an SOS was cancelled is the last that is told of it: no message of it, nor
\* that it is over, is wanted any more, and none of the next SOS is before it
\* starts.
CancelIsLast ==
  sendSosCancelSms
    => ~sendCallMeSms /\ ~sendSosAddressSms /\ ~sendSosEndAddressSms /\ ~sosAction
       /\ sosPhase = "SOS_END"

\* Sms_Task falls idle by itself only when every recipient was served or given up.
EveryRecipientServed ==
  [][smsPhase = "SMS_CHECK" /\ smsPhase' = "SMS_IDLE" /\ pc = "sms"
       => \A i \in Slot : number[i] = "none"]_vars

CallsCease == <>[](voice # "busy")

\* The SOS does not dial before Sms_Task is idle: if no other calls interfere, the
\* messages, however often they fail, do not hold up the emergency call for ever.
\* (An upload of FAMILY_VER2 does: there the phase has no case.)
MessagesHoldNoCall ==
  CallsCease => (sosPhase = "SOS_WAIT_INIT" ~> sosPhase # "SOS_WAIT_INIT" \/ ver2)

\* If calls cease, what is wanted at the end of an SOS is sent, unless the next one
\* starts.
PendingIsSent ==
  CallsCease
    => (sendSosEndAddressSms \/ sendSosCancelSms
          ~> ~sendSosEndAddressSms /\ ~sendSosCancelSms)
=============================================================================
