----------------------------- MODULE VoiceCall -----------------------------
(***************************************************************************)
(* VoiceCall_Task of io_tasks.c with everything it shares the modem with.  *)
(*                                                                         *)
(* AppRun's loop runs the tasks one after the other, each to completion;   *)
(* pc names the task whose turn it is:                                     *)
(*    modem   ModemCmd_Task, which carries one AT command at a time        *)
(*    gsm     Gsm_Task, which may be (re)initialising the modem            *)
(*    client  Sos_Task and Io_Task, which make the requests of CallService *)
(*    voice   VoiceCall_Task                                               *)
(*    sms     Sms_Task, which talks to the same modem                      *)
(* Interrupt handlers (the unsolicited result codes UART1 receives) run    *)
(* between the tasks.  Sos_Task, Io_Task and Sms_Task read and write       *)
(* nothing the handlers do, so interrupts before "voice" and "modem" stand *)
(* for those before "client" and "sms".                                    *)
(*                                                                         *)
(* What the task only reads is a free choice at every step: whether a      *)
(* timer has expired, missCall, whether an alarm or an SOS refuses calls.  *)
(* An AT command is what it does to the telephone line; a command of       *)
(* another task is "other", and "again" when it is retried.  Audio, LEDs   *)
(* and DTMF detection are left out.                                        *)
(***************************************************************************)
EXTENDS CallService

CONSTANTS
  MaxStartRetry,    \* 3: how often a refused ATD or VoiceSetup is repeated
  MaxAnswerRetry,   \* 3
  MaxHangUpRetry,   \* 5: how often a refused ATH is repeated
  Traffic           \* "gsm", "sms": that task uses the modem, too;
                    \* "incoming": there are incoming calls

ASSUME VoiceCallAssumption ==
  /\ MaxStartRetry \in Nat /\ MaxAnswerRetry \in Nat /\ MaxHangUpRetry \in Nat
  /\ Traffic \subseteq {"gsm", "sms", "incoming"}

VARIABLES
  pc,
  startCallRetry, answerCallRetry, hangUpCallRetry,
  incomingCall,
  callReport,           \* which of the flags of Report are set
  modemCmd_TaskPhase,   \* SEND, WAIT, OK, ERROR or FINISH
  modemAtCmdBuf,        \* the command being sent or answered
  gsmInit,              \* Gsm_Task is not in MODEM_SYS_COVERAGE_OK
  smsActive,            \* smsPhase is neither SMS_IDLE nor SMS_PAUSED
  line                  \* the network: none, ringing (incoming), dialing, up

retryVars == <<startCallRetry, answerCallRetry, hangUpCallRetry>>
urcVars == <<incomingCall, callReport>>
modemVars == <<modemCmd_TaskPhase, modemAtCmdBuf, line>>
vars == <<callVars, retryVars, urcVars, modemVars, pc, gsmInit, smsActive>>

Report == {"farHangUp", "busyFlag", "noAnswerFlag", "callUnsuccess"}
Command == {"ATD", "ATA", "ATH", "CEER", "other", "again"}
Line == {"none", "ringing", "dialing", "up"}
Idle == {"OK", "ERROR", "FINISH"}

-----------------------------------------------------------------------------
\* The modem.  A state of it is a triple: the phase of ModemCmd_Task, the
\* command, the line.

Modem == modemVars
SetModem(m) ==
  modemCmd_TaskPhase' = m[1] /\ modemAtCmdBuf' = m[2] /\ line' = m[3]

ModemCmdTask_IsIdle(m) == m[1] \in Idle

\* Refused, and without a trace, while a command is under way.
ModemCmdTask_SendCmd(m, c) ==
  IF ModemCmdTask_IsIdle(m) THEN <<"SEND", c, m[3]>> ELSE m

ModemCmdTask_SetWait(m) ==
  IF ModemCmdTask_IsIdle(m) THEN <<"WAIT", "other", m[3]>> ELSE m

\* The modem executes command c: may it answer OK, and the line afterwards.
Accepts(c, l) ==
  /\ c = "ATD" => l = "none"
  /\ c = "ATA" => l = "ringing"

Executed(c, l) ==
  IF ~Accepts(c, l) THEN l
  ELSE IF c = "ATD" THEN "dialing"
  ELSE IF c = "ATA" THEN "up"
  ELSE IF c = "ATH" THEN "none" ELSE l

\* One call of ModemCmd_Task with the command in WAIT: no answer yet; OK; ERROR
\* or a timeout, with the command not executed or, its answer late, executed;
\* a retry, which only commands of other tasks ask for (one stands for them all).
Answered(m) ==
  {m, <<"ERROR", m[2], m[3]>>, <<"ERROR", m[2], Executed(m[2], m[3])>>}
  \cup (IF Accepts(m[2], m[3]) THEN {<<"OK", m[2], Executed(m[2], m[3])>>} ELSE {})
  \cup (IF m[2] = "other" THEN {<<"SEND", "again", m[3]>>} ELSE {})

ModemCmd_Calls(m) ==
  IF m[1] = "SEND" THEN {m, <<"WAIT", m[2], m[3]>>}
  ELSE IF m[1] = "WAIT" THEN Answered(m)
  ELSE {m}

\* GprsTask_Stop: no GPRS task ever runs, what remains is ModemCmdTask_Cancel,
\* which calls ModemCmd_Task until the command is answered, its ESC is echoed
\* (FINISH) or 10 s are over.
GprsTask_Stop(m) ==
  IF m[1] = "WAIT" THEN Answered(m) \cup {<<"FINISH", m[2], m[3]>>} ELSE {m}

NestedCalls(m) == UNION {ModemCmd_Calls(n) : n \in ModemCmd_Calls(m)}

\* SmsTask_Pause: for up to 10 s the nested loop lets ModemCmd_Task and Sms_Task
\* finish the message under way; it does nothing to an idle or paused Sms_Task.
SmsTask_Pause(m) ==
  IF smsActive THEN NestedCalls(m) \cup {ModemCmdTask_SetWait(m)} ELSE {m}

-----------------------------------------------------------------------------
Init ==
  /\ ServiceInit
  /\ pc = "modem"
  /\ startCallRetry = 0 /\ answerCallRetry = 0 /\ hangUpCallRetry = 0
  /\ incomingCall = FALSE /\ callReport = {}
  /\ modemCmd_TaskPhase = "FINISH" /\ modemAtCmdBuf = "other"
  /\ gsmInit = ("gsm" \in Traffic)
  /\ smsActive = FALSE
  /\ line = "none"

\* A free choice wherever the code calls it: it does so after a count of failures.
GsmTask_Init == UNCHANGED gsmInit \/ gsmInit' = ("gsm" \in Traffic)

\* After too many timeouts, ERROR here, it calls GsmTask_Init.
ModemCmd_Task ==
  /\ pc = "modem"
  /\ \E m \in ModemCmd_Calls(Modem) : SetModem(m)
  /\ IF modemCmd_TaskPhase' = "ERROR" THEN GsmTask_Init ELSE UNCHANGED gsmInit
  /\ pc' = "gsm"
  /\ UNCHANGED <<callVars, retryVars, urcVars, smsActive>>

\* Gsm_Task runs only if no call is coming in and no command is under way.
\* MODEM_TURN_ON resets the modem, which drops the line.
Gsm_Task ==
  /\ pc = "gsm"
  /\ IF gsmInit /\ ~incomingCall /\ ModemCmdTask_IsIdle(Modem)
     THEN \/ /\ \E l \in {line, "none"} :
                  SetModem(ModemCmdTask_SendCmd(<<Modem[1], Modem[2], l>>, "other"))
             /\ UNCHANGED gsmInit
          \/ gsmInit' \in BOOLEAN /\ UNCHANGED modemVars
     ELSE UNCHANGED <<modemVars, gsmInit>>
  /\ pc' = "client"
  /\ UNCHANGED <<callVars, retryVars, urcVars, smsActive>>

-----------------------------------------------------------------------------
\* The clients: at most one request a turn, and any progress of the SOS.

StartCall(n) ==
  /\ VoiceCallTask_StartCall(n)
  /\ startCallRetry' =
       IF VoiceCallTask_IsIdle /\ n # NoNumber THEN 0 ELSE startCallRetry
  /\ UNCHANGED <<answerCallRetry, hangUpCallRetry, modemVars>>

AnswerCall ==
  /\ VoiceCallTask_AnswerCall
  /\ answerCallRetry' =
       IF voiceCall_TaskPhase = "INCOMING_CALL" THEN 0 ELSE answerCallRetry
  /\ UNCHANGED <<startCallRetry, hangUpCallRetry, modemVars>>

EndCall ==
  /\ VoiceCallTask_EndCall
  /\ hangUpCallRetry' =
       IF voiceCall_TaskPhase' = "END_CALL" THEN hangUpCallRetry ELSE 0
  /\ \E m \in IF voiceCall_TaskPhase' = "HANG_UP_CALL"
              THEN GprsTask_Stop(Modem) ELSE {Modem} : SetModem(m)
  /\ UNCHANGED <<startCallRetry, answerCallRetry>>

\* SosTask_Start and SosTask_End also stop the GPRS task.
ClearStatus ==
  /\ VoiceCallTask_ClearEndCallStatus \/ VoiceCallTask_ClearCallAction
  /\ \E m \in {Modem} \cup GprsTask_Stop(Modem) : SetModem(m)
  /\ UNCHANGED retryVars

\* Power on, which Io_Task allows in any phase once the power is off.
PowerOn ==
  /\ VoiceCallTask_Init
  /\ startCallRetry' = 0 /\ answerCallRetry' = 0 /\ hangUpCallRetry' = 0
  /\ incomingCall' = FALSE /\ callReport' = {}
  /\ GsmTask_Init
  /\ UNCHANGED modemVars

NoRequest == UNCHANGED <<callVars, retryVars, modemVars>>

\* SosTask_End also stops the message being sent.
Client ==
  /\ pc = "client"
  /\ \/ /\ \/ \E n \in Number \cup {NoNumber} : StartCall(n)
           \/ AnswerCall
           \/ EndCall
           \/ ClearStatus
           \/ NoRequest
        /\ UNCHANGED <<urcVars, gsmInit>>
     \/ PowerOn
  /\ smsActive' \in {smsActive, FALSE}
  /\ pc' = "voice"

-----------------------------------------------------------------------------
\* VoiceCall_Task, phase by phase.  "refuse" is the condition the code writes
\* three times: SosTask_IsAlarmActivated() || ((SosTask_GetPhase() != SOS_END)
\* && (SosTask_IsWaititngForCall() == 0)).

Stay == UNCHANGED voiceCall_TaskPhase

\* A request is consumed once the modem is free, or given up after 30 s; until
\* then ESC is sent at every turn.
WhenModemFree(p, gaveUp, consumed) ==
  \E m \in GprsTask_Stop(Modem) :
    /\ SetModem(m)
    /\ IF ModemCmdTask_IsIdle(m)
       THEN To(p) /\ consumed
       ELSE \/ To(gaveUp) /\ consumed
            \/ Stay /\ KeepRequests

NoCall ==
  /\ voiceCall_TaskPhase = "NO_CALL"
  /\ IF incomingCall
     THEN /\ \E m \in GprsTask_Stop(Modem) : SetModem(m)
          /\ \E refuse \in BOOLEAN :
               /\ To(IF refuse THEN "HANG_UP_CALL" ELSE "INCOMING_CALL")
               /\ incomingCall' = refuse
          /\ KeepRequests
     ELSE /\ UNCHANGED incomingCall
          /\ IF startCall
             THEN WhenModemFree("SETUP_START_CALL", "UNSUCCESS_CALL",
                                Requests(FALSE, answerCall, endCall))
             ELSE Stay /\ KeepRequests /\ UNCHANGED modemVars
  /\ UNCHANGED <<retryVars, callReport, smsActive>>

\* VoiceSetup succeeds, or fails: with the 5 s timer running the call is given
\* up at once, after it the setup is repeated.
SetupStartCall ==
  /\ voiceCall_TaskPhase = "SETUP_START_CALL"
  /\ \E m \in SmsTask_Pause(Modem) : SetModem(m)
  /\ \/ To("START_CALL") /\ startCallRetry' = 0
     \/ To("UNSUCCESS_CALL") /\ UNCHANGED startCallRetry
     \/ IF startCallRetry < MaxStartRetry
        THEN Stay /\ startCallRetry' = startCallRetry + 1
        ELSE To("UNSUCCESS_CALL") /\ startCallRetry' = 0
  /\ smsActive' = FALSE
  /\ KeepRequests
  /\ UNCHANGED <<answerCallRetry, hangUpCallRetry, urcVars>>

\* The result of SendCmd is not looked at.
StartCallCmd ==
  /\ voiceCall_TaskPhase = "START_CALL"
  /\ SetModem(ModemCmdTask_SendCmd(Modem, "ATD"))
  /\ To("WAIT_START_CALL")
  /\ KeepRequests
  /\ UNCHANGED <<retryVars, urcVars, smsActive>>

\* Mutant: the request to end the call is not looked at.
WaitStartCallIgnoresEnd ==
  /\ voiceCall_TaskPhase = "WAIT_START_CALL"
  /\ IF modemCmd_TaskPhase = "OK"
     THEN To("IN_CALLING") /\ incomingCall' = FALSE
     ELSE Stay /\ UNCHANGED incomingCall
  /\ KeepRequests
  /\ UNCHANGED <<modemVars, retryVars, callReport, smsActive>>

\* Mutant: one retry more than the counter's bound.
WaitStartCallRetriesOnceMore ==
  /\ voiceCall_TaskPhase = "WAIT_START_CALL"
  /\ modemCmd_TaskPhase # "OK"
  /\ IF startCallRetry <= MaxStartRetry
     THEN To("START_CALL") /\ startCallRetry' = startCallRetry + 1
     ELSE To("UNSUCCESS_CALL") /\ startCallRetry' = 0
  /\ Requests(startCall, answerCall, FALSE)
  /\ UNCHANGED <<modemVars, incomingCall, answerCallRetry, hangUpCallRetry,
                 callReport, smsActive>>

\* Mutant: a redial starts counting again.
WaitStartCallForgetsRetries ==
  /\ voiceCall_TaskPhase = "WAIT_START_CALL"
  /\ To(IF modemCmd_TaskPhase = "OK" THEN "IN_CALLING" ELSE "START_CALL")
  /\ startCallRetry' = 0
  /\ KeepRequests
  /\ UNCHANGED <<modemVars, incomingCall, answerCallRetry, hangUpCallRetry,
                 callReport, smsActive>>

\* OK: the call is up, or must be hung up.  ERROR or 3 s over: dial again.
WaitStartCall ==
  /\ voiceCall_TaskPhase = "WAIT_START_CALL"
  /\ \/ /\ modemCmd_TaskPhase = "OK" /\ endCall
        /\ To("HANG_UP_CALL")
        /\ Requests(startCall, answerCall, FALSE)
        /\ UNCHANGED <<incomingCall, startCallRetry>>
     \/ /\ modemCmd_TaskPhase = "OK" /\ ~endCall
        /\ To("IN_CALLING")
        /\ incomingCall' = FALSE
        /\ KeepRequests
        /\ UNCHANGED startCallRetry
     \/ /\ modemCmd_TaskPhase # "OK"
        /\ IF endCall
           THEN To("END_CALL") /\ UNCHANGED startCallRetry
           ELSE IF startCallRetry < MaxStartRetry
           THEN To("START_CALL") /\ startCallRetry' = startCallRetry + 1
           ELSE To("UNSUCCESS_CALL") /\ startCallRetry' = 0
        /\ Requests(startCall, answerCall, FALSE)
        /\ UNCHANGED incomingCall
     \/ /\ modemCmd_TaskPhase \notin {"OK", "ERROR"}
        /\ Stay /\ KeepRequests
        /\ UNCHANGED <<incomingCall, startCallRetry>>
  /\ UNCHANGED <<modemVars, answerCallRetry, hangUpCallRetry, callReport, smsActive>>

\* INCOMING_CALL, in the order of the code's tests.
IncomingCall ==
  /\ voiceCall_TaskPhase = "INCOMING_CALL"
  /\ incomingCall' = FALSE
  /\ \/ /\ To("MISS_CALL") \/ To("HANG_UP_CALL")      \* missCall; refused
        /\ KeepRequests
        /\ UNCHANGED <<modemVars, smsActive, answerCallRetry>>
     \/ /\ answerCall
        /\ WhenModemFree("SETUP_ANSWER_CALL", "UNSUCCESS_CALL",
                         Requests(startCall, FALSE, endCall))
        /\ UNCHANGED <<smsActive, answerCallRetry>>
     \/ /\ ~answerCall /\ endCall
        /\ \E m \in GprsTask_Stop(Modem) :
             /\ SetModem(m)
             /\ IF ModemCmdTask_IsIdle(m)
                THEN To("HANG_UP_CALL") /\ Requests(startCall, FALSE, FALSE)
                ELSE Stay /\ KeepRequests
        /\ UNCHANGED <<smsActive, answerCallRetry>>
     \/ /\ ~answerCall /\ ~endCall       \* FEATURE_AUTO_ANSWER, no SOS:
        /\ \/ /\ Requests(FALSE, TRUE, FALSE)     \* a caller of userList
              /\ answerCallRetry' = 0
           \/ KeepRequests /\ UNCHANGED answerCallRetry
        /\ Stay
        /\ UNCHANGED <<modemVars, smsActive>>
     \/ /\ ~answerCall /\ ~endCall       \* no ring for 10 s, or 60 s are over
        /\ To("MISS_CALL")
        /\ KeepRequests
        /\ UNCHANGED <<modemVars, smsActive, answerCallRetry>>
     \/ /\ ~answerCall /\ ~endCall
        /\ \E m \in SmsTask_Pause(Modem) : SetModem(m)
        /\ smsActive' = FALSE
        /\ Stay /\ KeepRequests
        /\ UNCHANGED answerCallRetry
  /\ UNCHANGED <<startCallRetry, hangUpCallRetry, callReport>>

SetupAnswerCall ==
  /\ voiceCall_TaskPhase = "SETUP_ANSWER_CALL"
  /\ \E m \in SmsTask_Pause(Modem) : SetModem(m)
  /\ \/ To("ANSWER_CALL") /\ answerCallRetry' = 0
     \/ To("END_CALL") /\ UNCHANGED answerCallRetry
     \/ IF answerCallRetry < MaxAnswerRetry
        THEN Stay /\ answerCallRetry' = answerCallRetry + 1
        ELSE To("END_CALL") /\ answerCallRetry' = 0
  /\ smsActive' = FALSE
  /\ KeepRequests
  /\ UNCHANGED <<startCallRetry, hangUpCallRetry, urcVars>>

\* Unlike ATD and ATH, ATA is repeated until ModemCmd_Task takes it.
AnswerCallCmd ==
  /\ voiceCall_TaskPhase = "ANSWER_CALL"
  /\ SetModem(ModemCmdTask_SendCmd(Modem, "ATA"))
  /\ IF ModemCmdTask_IsIdle(Modem) THEN To("WAIT_ANSWER_CALL") ELSE Stay
  /\ KeepRequests
  /\ UNCHANGED <<retryVars, urcVars, smsActive>>

WaitAnswerCall ==
  /\ voiceCall_TaskPhase = "WAIT_ANSWER_CALL"
  /\ \/ /\ To("MISS_CALL")                            \* missCall
        /\ KeepRequests
        /\ UNCHANGED incomingCall
     \/ /\ modemCmd_TaskPhase = "OK" /\ endCall
        /\ To("HANG_UP_CALL")
        /\ Requests(startCall, answerCall, FALSE)
        /\ UNCHANGED incomingCall
     \/ /\ modemCmd_TaskPhase = "OK" /\ ~endCall
        /\ To("IN_CALLING")
        /\ incomingCall' = FALSE
        /\ KeepRequests
     \/ /\ modemCmd_TaskPhase # "OK"                  \* ERROR, or 3 s are over
        /\ To("UNSUCCESS_CALL")
        /\ Requests(startCall, answerCall, FALSE)
        /\ UNCHANGED incomingCall
     \/ /\ modemCmd_TaskPhase \notin {"OK", "ERROR"}
        /\ Stay /\ KeepRequests
        /\ UNCHANGED incomingCall
  /\ UNCHANGED <<modemVars, retryVars, callReport, smsActive>>

\* IN_CALLING, in the order of the code's tests.
InCalling ==
  /\ voiceCall_TaskPhase = "IN_CALLING"
  /\ IF endCall
     THEN /\ \E m \in GprsTask_Stop(Modem) :
               /\ SetModem(m)
               /\ IF ModemCmdTask_IsIdle(m)
                  THEN To("HANG_UP_CALL") /\ Requests(startCall, answerCall, FALSE)
                  ELSE Stay /\ KeepRequests
          /\ UNCHANGED callReport
     ELSE /\ KeepRequests
          /\ IF "farHangUp" \in callReport
             THEN /\ SetModem(ModemCmdTask_SendCmd(Modem, "CEER"))
                  /\ callReport' = callReport \ {"farHangUp", "callUnsuccess"}
                  /\ To("CHECK_END_CALL")
             ELSE IF "busyFlag" \in callReport
             THEN /\ callReport' = callReport \ {"busyFlag"}
                  /\ To("BUSY_CALL") /\ UNCHANGED modemVars
             ELSE IF "noAnswerFlag" \in callReport
             THEN /\ callReport' = callReport \ {"noAnswerFlag"}
                  /\ To("NO_ANSWER_CALL") /\ UNCHANGED modemVars
             ELSE IF "callUnsuccess" \in callReport
             THEN /\ callReport' = callReport \ {"callUnsuccess"}
                  /\ To("UNSUCCESS_CALL") /\ UNCHANGED modemVars
             ELSE Stay /\ UNCHANGED <<callReport, modemVars>>
  /\ UNCHANGED <<retryVars, incomingCall, smsActive>>

\* The answer to AT+CEER, or 500 ms.  Error 290 within 10 s of the dial is worth
\* a redial; which error it was, is a free choice.
CheckEndCall ==
  /\ voiceCall_TaskPhase = "CHECK_END_CALL"
  /\ \/ /\ incomingCall' = FALSE
        /\ callReport' = callReport \ {"callUnsuccess"}
        /\ IF "callUnsuccess" \in callReport
           THEN \/ To("UNSUCCESS_CALL") /\ UNCHANGED startCallRetry
                \/ IF startCallRetry < MaxStartRetry
                   THEN To("START_CALL") /\ startCallRetry' = startCallRetry + 1
                   ELSE To("UNSUCCESS_CALL") /\ startCallRetry' = 0
           ELSE To("END_CALL") /\ UNCHANGED startCallRetry
     \/ /\ modemCmd_TaskPhase # "OK"
        /\ Stay /\ UNCHANGED <<urcVars, startCallRetry>>
  /\ KeepRequests
  /\ UNCHANGED <<modemVars, answerCallRetry, hangUpCallRetry, smsActive>>

\* The result of SendCmd is not looked at here either.
HangUpCall ==
  /\ voiceCall_TaskPhase = "HANG_UP_CALL"
  /\ \E m \in SmsTask_Pause(Modem) : SetModem(ModemCmdTask_SendCmd(m, "ATH"))
  /\ smsActive' = FALSE
  /\ To("WAIT_HANG_UP_CALL")
  /\ KeepRequests
  /\ UNCHANGED <<retryVars, urcVars>>

WaitHangUpCall ==
  /\ voiceCall_TaskPhase = "WAIT_HANG_UP_CALL"
  /\ \/ /\ modemCmd_TaskPhase = "OK"
        /\ incomingCall' = FALSE
        /\ To("ENSURE_HANG_UP_CALL")
        /\ UNCHANGED hangUpCallRetry
     \/ /\ modemCmd_TaskPhase # "OK"                  \* ERROR, or 3 s are over
        /\ IF hangUpCallRetry < MaxHangUpRetry
           THEN To("HANG_UP_CALL") /\ hangUpCallRetry' = hangUpCallRetry + 1
           ELSE To("END_CALL") /\ hangUpCallRetry' = 0
        /\ UNCHANGED incomingCall
     \/ /\ modemCmd_TaskPhase \notin {"OK", "ERROR"}
        /\ Stay /\ UNCHANGED <<hangUpCallRetry, incomingCall>>
  /\ KeepRequests
  /\ UNCHANGED <<modemVars, startCallRetry, answerCallRetry, callReport, smsActive>>

EnsureHangUpCall ==
  /\ voiceCall_TaskPhase = "ENSURE_HANG_UP_CALL"
  /\ To("END_CALL") \/ Stay                           \* 3 s are over
  /\ KeepRequests
  /\ UNCHANGED <<modemVars, retryVars, urcVars, smsActive>>

\* END_CALL, MISS_CALL, BUSY_CALL, NO_ANSWER_CALL and UNSUCCESS_CALL: a call is
\* taken, or refused through VoiceCallTask_EndCall; else 10 s are waited.
EndStatusPhase ==
  /\ voiceCall_TaskPhase \in EndStatus
  /\ callReport' = {}
  /\ IF incomingCall
     THEN /\ \E m \in GprsTask_Stop(Modem) : SetModem(m)
          /\ To("INCOMING_CALL")
          /\ \/ /\ Requests(FALSE, FALSE, TRUE) /\ hangUpCallRetry' = 0   \* refuse
                /\ UNCHANGED incomingCall
             \/ /\ KeepRequests /\ UNCHANGED hangUpCallRetry
                /\ incomingCall' = FALSE
     ELSE /\ To("NO_CALL") \/ Stay
          /\ KeepRequests
          /\ UNCHANGED <<modemVars, incomingCall, hangUpCallRetry>>
  /\ UNCHANGED <<startCallRetry, answerCallRetry, smsActive>>

VoiceCall_Task ==
  /\ pc = "voice"
  /\ \/ NoCall
     \/ SetupStartCall \/ StartCallCmd \/ WaitStartCall
     \/ IncomingCall \/ SetupAnswerCall \/ AnswerCallCmd \/ WaitAnswerCall
     \/ InCalling \/ CheckEndCall
     \/ HangUpCall \/ WaitHangUpCall \/ EnsureHangUpCall
     \/ EndStatusPhase
  /\ pc' = "sms"
  /\ UNCHANGED <<dialingPhoneNumber, gsmInit>>

-----------------------------------------------------------------------------
\* Sms_Task starts and resumes only with the voice task idle or in a call.  It
\* waits for the modem's answer through ModemCmdTask_SetWait, and a message that
\* fails outside a call may reinitialise the modem.
Sms_Task ==
  /\ pc = "sms"
  /\ \/ /\ "sms" \in Traffic /\ ~smsActive
        /\ VoiceCallTask_IsIdle \/ voiceCall_TaskPhase = "IN_CALLING"
        /\ smsActive' = TRUE
        /\ UNCHANGED <<modemVars, gsmInit>>
     \/ /\ smsActive
        /\ SetModem(ModemCmdTask_SetWait(Modem))
        /\ UNCHANGED <<smsActive, gsmInit>>
     \/ /\ smsActive
        /\ smsActive' = FALSE
        /\ IF voiceCall_TaskPhase = "IN_CALLING" THEN UNCHANGED gsmInit ELSE GsmTask_Init
        /\ UNCHANGED modemVars
     \/ UNCHANGED <<smsActive, modemVars, gsmInit>>
  /\ pc' = "modem"
  /\ UNCHANGED <<callVars, retryVars, urcVars>>

-----------------------------------------------------------------------------
\* Interrupts: what the network does, and the result codes UART1 makes of it.

Network(from, to) == line \in from /\ line' = to

\* "RING": the first one, and the next ones while nobody answers.
RingCallProcess ==
  /\ "incoming" \in Traffic
  /\ Network({"none", "ringing"}, "ringing")
  /\ incomingCall' = TRUE
  /\ UNCHANGED callReport

CallerGivesUp == Network({"ringing"}, "none") /\ UNCHANGED urcVars

FarEndAnswers == Network({"dialing"}, "up") /\ UNCHANGED urcVars

\* "NO CARRIER", "BUSY", "NO ANSWER".
SetReport(r) == callReport' = callReport \cup {r} /\ UNCHANGED incomingCall

CallCancel == Network({"dialing", "up"}, "none") /\ SetReport("farHangUp")
CallBusy == Network({"dialing"}, "none") /\ SetReport("busyFlag")
CallNoAnswer == Network({"dialing"}, "none") /\ SetReport("noAnswerFlag")

\* "+CEER: " with an error other than 16, the answer to AT+CEER.
CallErrorReport ==
  /\ modemAtCmdBuf = "CEER" /\ modemCmd_TaskPhase = "WAIT"
  /\ SetReport("callUnsuccess")
  /\ UNCHANGED line

Interrupt ==
  /\ pc \in {"modem", "gsm", "voice"}
  /\ \/ RingCallProcess \/ CallerGivesUp \/ FarEndAnswers
     \/ CallCancel \/ CallBusy \/ CallNoAnswer \/ CallErrorReport
  /\ UNCHANGED <<callVars, retryVars, modemCmd_TaskPhase, modemAtCmdBuf,
                 pc, gsmInit, smsActive>>

AppRun == ModemCmd_Task \/ Gsm_Task \/ Client \/ VoiceCall_Task \/ Sms_Task

Next == AppRun \/ Interrupt

Spec == Init /\ [][Next]_vars

\* The loop keeps running.  Timers expire, so that a transient phase is not kept
\* for ever, and a command is sent, and is answered or has no retries left.
Fairness ==
  /\ WF_vars(AppRun)
  /\ SF_vars(VoiceCall_Task /\ voiceCall_TaskPhase \in Transient
              /\ voiceCall_TaskPhase' # voiceCall_TaskPhase)
  /\ SF_vars(ModemCmd_Task /\ modemCmd_TaskPhase' # modemCmd_TaskPhase)

FairSpec == Spec /\ Fairness

-----------------------------------------------------------------------------
(***************************************************************************)
(* Properties.                                                             *)
(***************************************************************************)

TypeOK ==
  /\ CallTypeOK
  /\ pc \in {"modem", "gsm", "client", "voice", "sms"}
  /\ startCallRetry \in 0 .. MaxStartRetry
  /\ answerCallRetry \in 0 .. MaxAnswerRetry
  /\ hangUpCallRetry \in 0 .. MaxHangUpRetry
  /\ incomingCall \in BOOLEAN /\ callReport \subseteq Report
  /\ modemCmd_TaskPhase \in {"SEND", "WAIT"} \cup Idle
  /\ modemAtCmdBuf \in Command
  /\ line \in Line
  /\ gsmInit \in BOOLEAN /\ smsActive \in BOOLEAN

\* Modem, network, retries and the other tasks together do what CallService
\* says: no phase is entered, and no request consumed, that it does not allow.
ImplementsService == ServiceSpec

\* Only the modem's OK to ATD, not its OK to another task's command, makes a dial
\* a call.  It does not hold: START_CALL does not look at the result of SendCmd,
\* and takes the OK to the command in its way for the OK to ATD.
DialIsReal ==
  [][voiceCall_TaskPhase = "WAIT_START_CALL" /\ voiceCall_TaskPhase' = "IN_CALLING"
       => modemAtCmdBuf = "ATD"]_vars

\* VoiceCallTask_EndCall leaves no call behind.  It does not hold: while the call
\* is being hung up it skips what is left of that (the ATH, or its repetition).
EndCallHangsUp ==
  [][pc = "client" /\ voiceCall_TaskPhase \in HangingUp
       /\ voiceCall_TaskPhase' = "END_CALL" => line = "none"]_vars

\* Dialing, answering and hanging up come to an end, one way or the other: the
\* retries are bounded, and what each waits for has a timeout.
CallSettles ==
  voiceCall_TaskPhase \in Transient ~> voiceCall_TaskPhase \notin Transient
=============================================================================
