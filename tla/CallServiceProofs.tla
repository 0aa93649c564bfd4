------------------------ MODULE CallServiceProofs ------------------------
(***************************************************************************)
(* The call service keeps its promises about the requests, whatever the    *)
(* numbers and whoever makes the requests.  VoiceCallProofs and            *)
(* SosTaskProofs use the step lemma for their own steps.                   *)
(***************************************************************************)
EXTENDS CallService, TLAPS

\* A request to dial or to answer waits only where it can still be made: idle,
\* with a call coming in, or hanging up.
RequestsWaitOutsideCalls ==
  startCall \/ answerCall
    => VoiceCallTask_IsIdle \/ voiceCall_TaskPhase \in {"INCOMING_CALL"} \cup HangingUp

\* The inductive invariant.  DialHasNoRequest alone is not inductive: that no
\* answer is wanted in a call has to be known already while it is answered.
CallInv == CallTypeOK /\ OneRequest /\ DialHasNoRequest /\ RequestsWaitOutsideCalls

USE DEF Phase, EndStatus, Setup, HangingUp, VoiceCallTask_IsIdle

\* Initially nothing is requested.
LEMMA CallInit == ServiceInit => CallInv
  BY DEF ServiceInit, CallInv, CallTypeOK, OneRequest, DialHasNoRequest,
         RequestsWaitOutsideCalls

\* A request of a client keeps the invariant.
LEMMA RequestKeepsCallInv == CallInv /\ Request => CallInv'
<1> SUFFICES ASSUME CallInv, Request PROVE CallInv'
  OBVIOUS
<1> USE DEF CallInv, CallTypeOK, OneRequest, DialHasNoRequest,
            RequestsWaitOutsideCalls, To, Requests
<1>1. ASSUME NEW n \in Number \cup {NoNumber}, VoiceCallTask_StartCall(n)
      PROVE  CallInv'
  BY <1>1 DEF VoiceCallTask_StartCall, callVars
<1>2. CASE VoiceCallTask_AnswerCall
  BY <1>2 DEF VoiceCallTask_AnswerCall, callVars
<1>3. CASE VoiceCallTask_EndCall
  BY <1>3 DEF VoiceCallTask_EndCall
<1>4. CASE VoiceCallTask_ClearEndCallStatus
  BY <1>4 DEF VoiceCallTask_ClearEndCallStatus
<1>5. CASE VoiceCallTask_ClearCallAction
  BY <1>5 DEF VoiceCallTask_ClearCallAction
<1>6. CASE VoiceCallTask_Init
  BY <1>6 DEF VoiceCallTask_Init
<1> QED
  BY <1>1, <1>2, <1>3, <1>4, <1>5, <1>6 DEF Request

\* A step of the task keeps the invariant.
LEMMA TaskStepKeepsCallInv == CallInv /\ TaskStep => CallInv'
<1> SUFFICES ASSUME CallInv, TaskStep PROVE CallInv'
  OBVIOUS
<1> USE DEF CallInv, CallTypeOK, OneRequest, DialHasNoRequest,
            RequestsWaitOutsideCalls, Move, Requests,
            KeepRequests
<1>0. UNCHANGED dialingPhoneNumber
  BY DEF TaskStep
<1>1. CASE BeginDial
  BY <1>0, <1>1 DEF BeginDial
<1>2. CASE BeginAnswer
  BY <1>0, <1>2 DEF BeginAnswer
<1>3. CASE ObeyEnd
  BY <1>0, <1>3 DEF ObeyEnd
<1>4. CASE Dial
  BY <1>0, <1>4 DEF Dial
<1>5. CASE Answer
  BY <1>0, <1>5 DEF Answer
<1>6. CASE FarEnd
  BY <1>0, <1>6 DEF FarEnd
<1>7. CASE HangUp
  BY <1>0, <1>7 DEF HangUp
<1>8. CASE Incoming
  <2>1. CASE KeepRequests
    BY <1>0, <1>8, <2>1 DEF Incoming
  <2>2. CASE Move(EndStatus \cup {"INCOMING_CALL"}, {"INCOMING_CALL"})
               /\ (Requests(FALSE, FALSE, TRUE) \/ Requests(FALSE, TRUE, FALSE))
    BY <1>0, <2>2
  <2> QED
    BY <1>8, <2>1, <2>2 DEF Incoming
<1>9. CASE Settle
  BY <1>0, <1>9 DEF Settle
<1> QED
  BY <1>1, <1>2, <1>3, <1>4, <1>5, <1>6, <1>7, <1>8, <1>9 DEF TaskStep

\* Any step of the service, or none, keeps the invariant.
LEMMA ServiceKeepsCallInv == CallInv /\ [ServiceNext]_callVars => CallInv'
<1> SUFFICES ASSUME CallInv, [ServiceNext]_callVars PROVE CallInv'
  OBVIOUS
<1>1. CASE ServiceNext
  BY <1>1, RequestKeepsCallInv, TaskStepKeepsCallInv DEF ServiceNext
<1>2. CASE UNCHANGED callVars
  BY <1>2 DEF callVars, CallInv, CallTypeOK, OneRequest, DialHasNoRequest,
         RequestsWaitOutsideCalls
<1> QED
  BY <1>1, <1>2

\* The service never holds two requests, and a dial under way has none: what
\* OneRequest and DialHasNoRequest say of the clients of io_tasks.c.
THEOREM ServiceKeepsRequests == ServiceSpec => [](OneRequest /\ DialHasNoRequest)
<1>1. CallInv => OneRequest /\ DialHasNoRequest
  BY DEF CallInv
<1> QED
  BY CallInit, ServiceKeepsCallInv, <1>1, PTL DEF ServiceSpec
=============================================================================
