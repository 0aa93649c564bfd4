-------------------------- MODULE VoiceCallProofs --------------------------
(***************************************************************************)
(* VoiceCall_Task, together with the other users of the modem, implements  *)
(* the call service, and so keeps what the service promises, for every     *)
(* number of retries, every traffic and every set of phone numbers.        *)
(***************************************************************************)
EXTENDS VoiceCall, CallServiceProofs

USE DEF To, Requests, KeepRequests, Stay, Move

-----------------------------------------------------------------------------
\* The clients make no request but those of the service.
LEMMA ClientIsRequest == Client => [ServiceNext]_callVars
<1> SUFFICES ASSUME Client PROVE [ServiceNext]_callVars
  OBVIOUS
<1>1. ASSUME NEW n \in Number \cup {NoNumber}, StartCall(n)
      PROVE  ServiceNext
  BY <1>1 DEF StartCall, ServiceNext, Request
<1>2. CASE AnswerCall
  BY <1>2 DEF AnswerCall, ServiceNext, Request
<1>3. CASE EndCall
  BY <1>3 DEF EndCall, ServiceNext, Request
<1>4. CASE ClearStatus
  BY <1>4 DEF ClearStatus, ServiceNext, Request
<1>5. CASE NoRequest
  BY <1>5 DEF NoRequest
<1>6. CASE PowerOn
  BY <1>6 DEF PowerOn, ServiceNext, Request
<1> QED
  BY <1>1, <1>2, <1>3, <1>4, <1>5, <1>6 DEF Client

\* Every phase of the task moves as the service does.  That a dial that goes on
\* is not to be ended (Dial, FarEnd) is DialHasNoRequest.
LEMMA TaskIsService ==
  CallInv /\ VoiceCall_Task => [ServiceNext]_callVars
<1> SUFFICES ASSUME CallInv, VoiceCall_Task PROVE [TaskStep]_callVars
  BY DEF ServiceNext
<1> USE DEF CallInv, CallTypeOK, DialHasNoRequest
<1>0. UNCHANGED dialingPhoneNumber
  BY DEF VoiceCall_Task
<1>1. CASE NoCall
  BY <1>0, <1>1 DEF NoCall, WhenModemFree, TaskStep, BeginDial, Incoming, callVars
<1>2. CASE SetupStartCall
  BY <1>0, <1>2 DEF SetupStartCall, TaskStep, Dial, callVars
<1>3. CASE StartCallCmd
  BY <1>0, <1>3 DEF StartCallCmd, TaskStep, Dial
<1>4. CASE WaitStartCall
  BY <1>0, <1>4 DEF WaitStartCall, TaskStep, Dial, ObeyEnd, callVars
<1>5. CASE IncomingCall
  BY <1>0, <1>5 DEF IncomingCall, WhenModemFree, TaskStep, BeginAnswer, ObeyEnd,
                    Incoming, OneRequest, callVars
<1>6. CASE SetupAnswerCall
  BY <1>0, <1>6 DEF SetupAnswerCall, TaskStep, Answer, callVars
<1>7. CASE AnswerCallCmd
  BY <1>0, <1>7 DEF AnswerCallCmd, TaskStep, Answer, callVars
<1>8. CASE WaitAnswerCall
  BY <1>0, <1>8 DEF WaitAnswerCall, TaskStep, Answer, ObeyEnd, callVars
<1>9. CASE InCalling
  BY <1>0, <1>9 DEF InCalling, TaskStep, FarEnd, ObeyEnd, callVars
<1>10. CASE CheckEndCall
  BY <1>0, <1>10 DEF CheckEndCall, TaskStep, FarEnd, callVars
<1>11. CASE HangUpCall
  BY <1>0, <1>11 DEF HangUpCall, TaskStep, HangUp
<1>12. CASE WaitHangUpCall
  BY <1>0, <1>12 DEF WaitHangUpCall, TaskStep, HangUp, callVars
<1>13. CASE EnsureHangUpCall
  BY <1>0, <1>13 DEF EnsureHangUpCall, TaskStep, HangUp, callVars
<1>14. CASE EndStatusPhase
  BY <1>0, <1>14 DEF EndStatusPhase, TaskStep, Incoming, Settle, callVars
<1> QED
  BY <1>1, <1>2, <1>3, <1>4, <1>5, <1>6, <1>7, <1>8, <1>9, <1>10, <1>11, <1>12,
     <1>13, <1>14 DEF VoiceCall_Task

\* A step of the whole is a step of the service or leaves it alone.
LEMMA StepIsService == CallInv /\ [Next]_vars => [ServiceNext]_callVars
<1> SUFFICES ASSUME CallInv, [Next]_vars PROVE [ServiceNext]_callVars
  OBVIOUS
<1>1. CASE ModemCmd_Task
  BY <1>1 DEF ModemCmd_Task
<1>2. CASE Gsm_Task
  BY <1>2 DEF Gsm_Task
<1>3. CASE Client
  BY <1>3, ClientIsRequest
<1>4. CASE VoiceCall_Task
  BY <1>4, TaskIsService
<1>5. CASE Sms_Task
  BY <1>5 DEF Sms_Task
<1>6. CASE Interrupt
  BY <1>6 DEF Interrupt
<1>7. CASE UNCHANGED vars
  BY <1>7 DEF vars, callVars
<1> QED
  BY <1>1, <1>2, <1>3, <1>4, <1>5, <1>6, <1>7 DEF Next, AppRun

-----------------------------------------------------------------------------
\* The invariant of the service is one of the whole.
LEMMA KeepsCallInv == Spec => []CallInv
<1>1. Init => CallInv
  BY CallInit DEF Init
<1>2. CallInv /\ [Next]_vars => CallInv'
  BY StepIsService, ServiceKeepsCallInv
<1> QED
  BY <1>1, <1>2, PTL DEF Spec

\* VoiceCall_Task implements the call service: whatever the modem, the network
\* and the other tasks do, no phase is entered and no request consumed but as
\* CallService says.
THEOREM VoiceCallImplementsService == Spec => ImplementsService
<1>1. Init => ServiceInit
  BY DEF Init
<1>2. CallInv /\ [Next]_vars => [ServiceNext]_callVars
  BY StepIsService
<1> QED
  BY <1>1, <1>2, KeepsCallInv, PTL DEF Spec, ImplementsService, ServiceSpec

\* At no time are two requests pending: a later one replaces an earlier one.
THEOREM NeverTwoRequests == Spec => []OneRequest
<1>1. CallInv => OneRequest
  BY DEF CallInv
<1> QED
  BY <1>1, KeepsCallInv, PTL

\* A dial under way, which may still send or repeat ATD, has no request against it.
THEOREM DialNotContradicted == Spec => []DialHasNoRequest
<1>1. CallInv => DialHasNoRequest
  BY DEF CallInv
<1> QED
  BY <1>1, KeepsCallInv, PTL

-----------------------------------------------------------------------------
\* The modem's triples, and what the calls of ModemCmd_Task make of them.
ModemState == ({"SEND", "WAIT"} \cup Idle) \X Command \X Line

\* SendCmd and SetWait take a command of the alphabet, or leave the modem alone.
LEMMA SendCmdType ==
  ASSUME NEW m \in ModemState, NEW c \in Command
  PROVE  /\ ModemCmdTask_SendCmd(m, c) \in ModemState
         /\ ModemCmdTask_SetWait(m) \in ModemState
  BY DEF ModemState, ModemCmdTask_SendCmd, ModemCmdTask_SetWait, Command

\* An answer is one of a modem, too.
LEMMA AnsweredType ==
  ASSUME NEW m \in ModemState
  PROVE  Answered(m) \subseteq ModemState
<1>1. ASSUME NEW c \in Command, NEW l \in Line PROVE Executed(c, l) \in Line
  BY <1>1 DEF Executed, Line
<1> QED
  BY <1>1 DEF Answered, ModemState, Idle, Command

\* A call of ModemCmd_Task, one that cancels, and those nested in SmsTask_Pause.
LEMMA CallsType ==
  ASSUME NEW m \in ModemState
  PROVE  /\ ModemCmd_Calls(m) \subseteq ModemState
         /\ GprsTask_Stop(m) \subseteq ModemState
         /\ SmsTask_Pause(m) \subseteq ModemState
<1>1. ASSUME NEW n \in ModemState
      PROVE  ModemCmd_Calls(n) \subseteq ModemState
  BY AnsweredType DEF ModemCmd_Calls, ModemState
<1>2. GprsTask_Stop(m) \subseteq ModemState
  BY AnsweredType DEF GprsTask_Stop, ModemState, Idle
<1>3. SmsTask_Pause(m) \subseteq ModemState
  <2>1. NestedCalls(m) \subseteq ModemState
    <3>1. SUFFICES ASSUME NEW n \in ModemCmd_Calls(m), NEW x \in ModemCmd_Calls(n)
                   PROVE  x \in ModemState
      BY DEF NestedCalls
    <3> QED
      BY <1>1
  <2>2. ModemCmdTask_SetWait(m) \in ModemState
    BY SendCmdType DEF Command
  <2> QED
    BY <2>1, <2>2 DEF SmsTask_Pause
<1> QED
  BY <1>1, <1>2, <1>3

\* The part of TypeOK that SetModem writes.
ModemType ==
  /\ modemCmd_TaskPhase \in {"SEND", "WAIT"} \cup Idle
  /\ modemAtCmdBuf \in Command
  /\ line \in Line

\* SetModem of a triple is typed, and the triple of a typed modem is one.
LEMMA ModemTypeState ==
  /\ ModemType => Modem \in ModemState
  /\ \A m \in ModemState : SetModem(m) => ModemType'
  /\ ModemType /\ UNCHANGED modemVars => ModemType'
  BY DEF ModemType, Modem, ModemState, SetModem, modemVars

\* The turn and the counters of retries.
CounterType ==
  /\ pc \in {"modem", "gsm", "client", "voice", "sms"}
  /\ startCallRetry \in 0 .. MaxStartRetry
  /\ answerCallRetry \in 0 .. MaxAnswerRetry
  /\ hangUpCallRetry \in 0 .. MaxHangUpRetry

\* The flags.
FlagType ==
  /\ incomingCall \in BOOLEAN /\ callReport \subseteq Report
  /\ gsmInit \in BOOLEAN /\ smsActive \in BOOLEAN

\* The modem stays typed: whoever writes it does so through the calls above.
LEMMA NextModemType ==
  ASSUME ModemType, [Next]_vars
  PROVE  ModemType'
<1>0. Modem \in ModemState
  BY ModemTypeState
<1>1. \A m \in ModemState : SetModem(m) => ModemType'
  BY ModemTypeState
<1>2. UNCHANGED modemVars => ModemType'
  BY ModemTypeState
<1>3. {"ATD", "ATA", "ATH", "CEER", "other"} \subseteq Command
  BY DEF Command
<1>4. \A m \in ModemState, c \in Command : ModemCmdTask_SendCmd(m, c) \in ModemState
  BY SendCmdType
<1>5. \A m \in GprsTask_Stop(Modem) \cup SmsTask_Pause(Modem) \cup ModemCmd_Calls(Modem)
           \cup {Modem, ModemCmdTask_SetWait(Modem)} : m \in ModemState
  BY <1>0, CallsType, SendCmdType, <1>3
<1>6. CASE ModemCmd_Task
  BY <1>6, <1>1, <1>5 DEF ModemCmd_Task
<1>7. CASE Gsm_Task
  <2>1. ASSUME NEW l \in {line, "none"}
        PROVE  ModemCmdTask_SendCmd(<<Modem[1], Modem[2], l>>, "other") \in ModemState
    <3>1. <<Modem[1], Modem[2], l>> \in ModemState
      BY <1>0 DEF Modem, modemVars, ModemState, ModemType, Line
    <3> QED
      BY <3>1, <1>3, <1>4
  <2> QED
    BY <1>7, <2>1, <1>1, <1>2 DEF Gsm_Task
<1>8. CASE Client
  BY <1>8, <1>1, <1>2, <1>5 DEF Client, StartCall, AnswerCall, EndCall, ClearStatus,
                               PowerOn, NoRequest
<1>9. CASE VoiceCall_Task
  <2>1. CASE NoCall \/ SetupStartCall \/ IncomingCall \/ SetupAnswerCall \/ EndStatusPhase
    BY <2>1, <1>1, <1>2, <1>5 DEF NoCall, SetupStartCall, IncomingCall, SetupAnswerCall,
                                  EndStatusPhase, WhenModemFree
  <2>2. CASE StartCallCmd \/ AnswerCallCmd
    BY <2>2, <1>0, <1>1, <1>3, <1>4 DEF StartCallCmd, AnswerCallCmd
  <2>3. CASE InCalling
    BY <2>3, <1>0, <1>1, <1>2, <1>3, <1>4, <1>5 DEF InCalling
  <2>4. CASE HangUpCall
    BY <2>4, <1>1, <1>3, <1>4, <1>5 DEF HangUpCall
  <2>5. CASE WaitStartCall \/ WaitAnswerCall \/ CheckEndCall \/ WaitHangUpCall
               \/ EnsureHangUpCall
    BY <2>5, <1>2 DEF WaitStartCall, WaitAnswerCall, CheckEndCall, WaitHangUpCall,
                      EnsureHangUpCall
  <2> QED
    BY <1>9, <2>1, <2>2, <2>3, <2>4, <2>5 DEF VoiceCall_Task
<1>10. CASE Sms_Task
  BY <1>10, <1>1, <1>2, <1>5 DEF Sms_Task
<1>11. CASE Interrupt
  BY <1>11 DEF Interrupt, ModemType, Network, RingCallProcess, CallerGivesUp,
               FarEndAnswers, CallCancel, CallBusy, CallNoAnswer, CallErrorReport, Line
<1>12. CASE UNCHANGED vars
  BY <1>12, <1>2 DEF vars
<1> QED
  BY <1>6, <1>7, <1>8, <1>9, <1>10, <1>11, <1>12 DEF Next, AppRun

\* No counter passes its bound.
LEMMA NextCounterType ==
  ASSUME CounterType, [Next]_vars
  PROVE  CounterType'
<1> USE VoiceCallAssumption DEF CounterType, retryVars
<1>1. CASE ModemCmd_Task \/ Gsm_Task \/ Sms_Task \/ Interrupt
  BY <1>1 DEF ModemCmd_Task, Gsm_Task, Sms_Task, Interrupt
<1>2. CASE Client
  BY <1>2 DEF Client, StartCall, AnswerCall, EndCall, ClearStatus, PowerOn, NoRequest
<1>3. CASE VoiceCall_Task
  <2>1. CASE NoCall \/ SetupStartCall \/ StartCallCmd \/ WaitStartCall
    BY <1>3, <2>1 DEF VoiceCall_Task, NoCall, SetupStartCall, StartCallCmd, WaitStartCall
  <2>2. CASE IncomingCall \/ SetupAnswerCall \/ AnswerCallCmd \/ WaitAnswerCall
    BY <1>3, <2>2 DEF VoiceCall_Task, IncomingCall, SetupAnswerCall, AnswerCallCmd,
                      WaitAnswerCall
  <2>3. CASE InCalling \/ CheckEndCall
    BY <1>3, <2>3 DEF VoiceCall_Task, InCalling, CheckEndCall
  <2>4. CASE HangUpCall \/ WaitHangUpCall \/ EnsureHangUpCall \/ EndStatusPhase
    BY <1>3, <2>4 DEF VoiceCall_Task, HangUpCall, WaitHangUpCall, EnsureHangUpCall,
                      EndStatusPhase
  <2> QED
    BY <1>3, <2>1, <2>2, <2>3, <2>4 DEF VoiceCall_Task
<1>4. CASE UNCHANGED vars
  BY <1>4 DEF vars
<1> QED
  BY <1>1, <1>2, <1>3, <1>4 DEF Next, AppRun

\* Whether Gsm_Task uses the modem is a truth value.
LEMMA TrafficBoolean == ("gsm" \in Traffic) \in BOOLEAN
<1>1. CASE "gsm" \in Traffic
  BY <1>1
<1>2. CASE "gsm" \notin Traffic
  BY <1>2
<1> QED
  BY <1>1, <1>2

\* GsmTask_Init keeps gsmInit a flag.
LEMMA GsmInitType ==
  ASSUME gsmInit \in BOOLEAN, GsmTask_Init
  PROVE  gsmInit' \in BOOLEAN
  BY TrafficBoolean, Zenon DEF GsmTask_Init

\* The flags stay flags.
LEMMA NextFlagType ==
  ASSUME FlagType, [Next]_vars
  PROVE  FlagType'
<1>1. CASE UNCHANGED <<urcVars, gsmInit, smsActive>>
  BY <1>1 DEF FlagType, urcVars
<1>2. CASE ModemCmd_Task \/ Gsm_Task
  <2>1. gsmInit' \in BOOLEAN
    BY <1>2, GsmInitType DEF ModemCmd_Task, Gsm_Task, FlagType
  <2> QED
    BY <1>2, <2>1 DEF ModemCmd_Task, Gsm_Task, FlagType, urcVars
<1>3. CASE Client
  <2>1. gsmInit' \in BOOLEAN
    BY <1>3, GsmInitType DEF Client, PowerOn, FlagType
  <2>2. incomingCall' \in BOOLEAN /\ callReport' \subseteq Report
    BY <1>3 DEF Client, PowerOn, FlagType, urcVars
  <2>3. smsActive' \in BOOLEAN
    BY <1>3 DEF Client, FlagType
  <2> QED
    BY <2>1, <2>2, <2>3 DEF FlagType
<1>4. CASE VoiceCall_Task
  <2>1. gsmInit' \in BOOLEAN
    BY <1>4 DEF VoiceCall_Task, FlagType
  <2>2. incomingCall' \in BOOLEAN
    BY <1>4 DEF VoiceCall_Task, NoCall, SetupStartCall, StartCallCmd, WaitStartCall,
                IncomingCall, SetupAnswerCall, AnswerCallCmd, WaitAnswerCall, InCalling,
                CheckEndCall, HangUpCall, WaitHangUpCall, EnsureHangUpCall,
                EndStatusPhase, FlagType, urcVars
  <2>3. callReport' \subseteq Report
    BY <1>4 DEF VoiceCall_Task, NoCall, SetupStartCall, StartCallCmd, WaitStartCall,
                IncomingCall, SetupAnswerCall, AnswerCallCmd, WaitAnswerCall, InCalling,
                CheckEndCall, HangUpCall, WaitHangUpCall, EnsureHangUpCall,
                EndStatusPhase, FlagType, urcVars
  <2>4. smsActive' \in BOOLEAN
    BY <1>4 DEF VoiceCall_Task, NoCall, SetupStartCall, StartCallCmd, WaitStartCall,
                IncomingCall, SetupAnswerCall, AnswerCallCmd, WaitAnswerCall, InCalling,
                CheckEndCall, HangUpCall, WaitHangUpCall, EnsureHangUpCall,
                EndStatusPhase, FlagType
  <2> QED
    BY <2>1, <2>2, <2>3, <2>4 DEF FlagType
<1>5. CASE Sms_Task
  <2>1. gsmInit' \in BOOLEAN
    BY <1>5, GsmInitType DEF Sms_Task, FlagType
  <2>2. smsActive' \in BOOLEAN
    BY <1>5 DEF Sms_Task, FlagType
  <2> QED
    BY <1>5, <2>1, <2>2 DEF Sms_Task, FlagType, urcVars
<1>6. CASE Interrupt
  <2>1. incomingCall' \in BOOLEAN /\ callReport' \subseteq Report
    BY <1>6 DEF Interrupt, RingCallProcess, CallerGivesUp, FarEndAnswers, CallCancel,
                CallBusy, CallNoAnswer, CallErrorReport, SetReport, urcVars, Report,
                FlagType
  <2> QED
    BY <1>6, <2>1 DEF Interrupt, FlagType
<1> QED
  BY <1>1, <1>2, <1>3, <1>4, <1>5, <1>6 DEF Next, AppRun, vars

\* Every variable keeps to its range: above all, no retry counter passes its bound.
THEOREM VoiceCallTyped == Spec => []TypeOK
<1> DEFINE Inv == CallInv /\ ModemType /\ CounterType /\ FlagType
<1>1. Init => Inv
  <2> SUFFICES ASSUME Init PROVE Inv
    OBVIOUS
  <2>1. CallInv /\ ModemType
    BY CallInit DEF Init, ModemType, Idle, Command, Line
  <2>2. CounterType
    BY VoiceCallAssumption DEF Init, CounterType
  <2>3. gsmInit \in BOOLEAN
    BY TrafficBoolean, Zenon DEF Init
  <2>4. FlagType
    BY <2>3 DEF Init, FlagType
  <2> QED
    BY <2>1, <2>2, <2>4
<1>2. Inv /\ [Next]_vars => Inv'
  BY StepIsService, ServiceKeepsCallInv, NextModemType, NextCounterType, NextFlagType
<1>3. Inv => TypeOK
  BY DEF CallInv, ModemType, CounterType, FlagType, TypeOK
<1> QED
  BY <1>1, <1>2, <1>3, PTL DEF Spec
-----------------------------------------------------------------------------
\* How far a dial, an answer or a hang-up still has to go: the stages it has yet
\* to pass, the retries left in this one, the commands until the next retry.
StagesLeft ==
  CASE voiceCall_TaskPhase \in {"SETUP_START_CALL", "SETUP_ANSWER_CALL"} -> 3
    [] voiceCall_TaskPhase \in {"START_CALL", "WAIT_START_CALL", "CHECK_END_CALL",
                                "ANSWER_CALL", "WAIT_ANSWER_CALL"} -> 2
    [] voiceCall_TaskPhase \in {"HANG_UP_CALL", "WAIT_HANG_UP_CALL"} -> 1
    [] OTHER -> 0

RetriesLeft ==
  CASE voiceCall_TaskPhase \in {"SETUP_START_CALL", "START_CALL", "WAIT_START_CALL",
                                "CHECK_END_CALL"} -> MaxStartRetry - startCallRetry
    [] voiceCall_TaskPhase \in {"SETUP_ANSWER_CALL", "ANSWER_CALL", "WAIT_ANSWER_CALL"}
         -> MaxAnswerRetry - answerCallRetry
    [] voiceCall_TaskPhase \in {"HANG_UP_CALL", "WAIT_HANG_UP_CALL"}
         -> MaxHangUpRetry - hangUpCallRetry
    [] OTHER -> 0

CommandsLeft ==
  IF voiceCall_TaskPhase \in {"START_CALL", "ANSWER_CALL", "HANG_UP_CALL"} THEN 1 ELSE 0

RunsDown ==
  \/ StagesLeft' < StagesLeft
  \/ StagesLeft' = StagesLeft /\ RetriesLeft' < RetriesLeft
  \/ /\ StagesLeft' = StagesLeft /\ RetriesLeft' = RetriesLeft
     /\ CommandsLeft' < CommandsLeft

Settles == voiceCall_TaskPhase' \notin Transient
Waits == UNCHANGED <<voiceCall_TaskPhase, RetriesLeft>>

\* A turn of VoiceCall_Task, phase by phase.
LEMMA TaskRunsDown ==
  ASSUME CounterType, VoiceCall_Task, voiceCall_TaskPhase \in Transient
  PROVE  Settles \/ RunsDown \/ Waits
<1> USE VoiceCallAssumption
    DEF CounterType, Settles, RunsDown, Waits, StagesLeft, RetriesLeft, CommandsLeft,
        retryVars
<1>1. /\ {"NO_CALL", "IN_CALLING", "INCOMING_CALL"} \cap Transient = {}
      /\ EndStatus \cap Transient = {}
  BY DEF Transient
<1>2. {"END_CALL", "MISS_CALL", "UNSUCCESS_CALL"} \subseteq EndStatus
  BY DEF EndStatus
<1>3. CASE SetupStartCall
  BY <1>1, <1>2, <1>3 DEF SetupStartCall
<1>4. CASE StartCallCmd
  BY <1>4 DEF StartCallCmd
<1>5. CASE WaitStartCall
  BY <1>1, <1>2, <1>5 DEF WaitStartCall
<1>6. CASE SetupAnswerCall
  BY <1>1, <1>2, <1>6 DEF SetupAnswerCall
<1>7. CASE AnswerCallCmd
  BY <1>7 DEF AnswerCallCmd
<1>8. CASE WaitAnswerCall
  BY <1>1, <1>2, <1>8 DEF WaitAnswerCall
<1>9. CASE CheckEndCall
  BY <1>1, <1>2, <1>9 DEF CheckEndCall
<1>10. CASE HangUpCall
  BY <1>10 DEF HangUpCall
<1>11. CASE WaitHangUpCall
  BY <1>1, <1>2, <1>11 DEF WaitHangUpCall
<1>12. CASE EnsureHangUpCall
  BY <1>1, <1>2, <1>12 DEF EnsureHangUpCall
<1>13. CASE NoCall \/ IncomingCall \/ InCalling \/ EndStatusPhase
  BY <1>1, <1>13 DEF NoCall, IncomingCall, InCalling, EndStatusPhase
<1> QED
  BY <1>3, <1>4, <1>5, <1>6, <1>7, <1>8, <1>9, <1>10, <1>11, <1>12, <1>13
     DEF VoiceCall_Task

\* A request made meanwhile ends the call, or leaves it where it was.
LEMMA ClientRunsDown ==
  ASSUME Client, voiceCall_TaskPhase \in Transient
  PROVE  Settles \/ RunsDown \/ Waits
<1>1. /\ ~VoiceCallTask_IsIdle /\ voiceCall_TaskPhase \notin EndStatus
      /\ voiceCall_TaskPhase \notin {"INCOMING_CALL", "IN_CALLING"}
      /\ {"NO_CALL", "END_CALL"} \cap Transient = {}
  BY DEF Transient, VoiceCallTask_IsIdle, EndStatus
<1>2. UNCHANGED <<voiceCall_TaskPhase, retryVars>> => Waits
  BY DEF Waits, RetriesLeft, retryVars
<1>3. ASSUME NEW n \in Number \cup {NoNumber}, StartCall(n)
      PROVE  Waits
  BY <1>1, <1>2, <1>3 DEF StartCall, VoiceCallTask_StartCall, callVars, retryVars
<1>4. CASE AnswerCall \/ ClearStatus \/ NoRequest
  BY <1>1, <1>2, <1>4 DEF AnswerCall, VoiceCallTask_AnswerCall, ClearStatus, NoRequest,
                          VoiceCallTask_ClearEndCallStatus, VoiceCallTask_ClearCallAction,
                          callVars, retryVars
<1>5. CASE EndCall
  <2>1. CASE voiceCall_TaskPhase \in {"WAIT_START_CALL", "WAIT_ANSWER_CALL"}
    BY <1>5, <2>1 DEF EndCall, VoiceCallTask_EndCall, Waits, RetriesLeft
  <2>2. CASE voiceCall_TaskPhase \in {"SETUP_ANSWER_CALL", "ANSWER_CALL"}
    BY <1>5, <2>2 DEF EndCall, VoiceCallTask_EndCall, RunsDown, StagesLeft
  <2>3. CASE voiceCall_TaskPhase \notin {"WAIT_START_CALL", "WAIT_ANSWER_CALL",
                                         "SETUP_ANSWER_CALL", "ANSWER_CALL"}
    BY <1>1, <1>5, <2>3 DEF EndCall, VoiceCallTask_EndCall, Settles
  <2> QED
    BY <2>1, <2>2, <2>3
<1>6. CASE PowerOn
  BY <1>1, <1>6 DEF PowerOn, VoiceCallTask_Init, Settles
<1> QED
  BY <1>3, <1>4, <1>5, <1>6 DEF Client

\* Dialing, answering and hanging up do not go round for ever: whatever modem,
\* network, interrupts and the other tasks do, every step settles the call, keeps
\* it waiting, or takes one of its stages, retries or commands; no retry counter
\* is reset where the same stage may be entered again.
THEOREM CallRunsDown ==
  Spec => /\ [](StagesLeft \in Nat /\ RetriesLeft \in Nat /\ CommandsLeft \in Nat)
          /\ [][(voiceCall_TaskPhase \in Transient) => Settles \/ RunsDown \/ Waits]_vars
<1>1. TypeOK => /\ CounterType
                /\ StagesLeft \in Nat /\ RetriesLeft \in Nat /\ CommandsLeft \in Nat
  BY VoiceCallAssumption
     DEF TypeOK, CounterType, StagesLeft, RetriesLeft, CommandsLeft
<1>2. CounterType /\ [Next]_vars
        => [(voiceCall_TaskPhase \in Transient) => Settles \/ RunsDown \/ Waits]_vars
  <2> SUFFICES ASSUME CounterType, [Next]_vars, voiceCall_TaskPhase \in Transient
               PROVE  Settles \/ RunsDown \/ Waits
    OBVIOUS
  <2>1. UNCHANGED <<voiceCall_TaskPhase, retryVars>> => Waits
    BY DEF Waits, RetriesLeft, retryVars
  <2>2. CASE ModemCmd_Task \/ Gsm_Task \/ Sms_Task \/ Interrupt \/ UNCHANGED vars
    BY <2>1, <2>2 DEF ModemCmd_Task, Gsm_Task, Sms_Task, Interrupt, vars, callVars
  <2> QED
    BY <2>2, TaskRunsDown, ClientRunsDown DEF Next, AppRun
<1> QED
  BY VoiceCallTyped, <1>1, <1>2, PTL DEF Spec
=============================================================================
