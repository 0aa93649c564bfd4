---------------------------- MODULE Registration ----------------------------
(***************************************************************************)
(* The command engine of modem.c (ModemCmdTask_SendCmd, ModemCmd_Task) and *)
(* Gsm_Task (gsm_gprs_tasks.c), which brings the modem up with it: from    *)
(* MODEM_TURN_ON through some twenty phases to MODEM_SYS_COVERAGE_OK.      *)
(*                                                                         *)
(* The engine has one command at a time and does not know whose answer it  *)
(* reads: an answer that comes after its command was given up is taken for *)
(* the next one's, and Gsm_Task, which is skipped during a call, takes the *)
(* result of whatever command was last.                                    *)
(*                                                                         *)
(* A timer may have run out whenever it is looked at.  The modem answers   *)
(* the commands in order, each with OK or ERROR, late or never; it may     *)
(* die.  Blocking commands (MODEM_SendCommand, GetIMEI, MODEM_GetCSQ)      *)
(* flush the buffer and may leave their own answer to come.                *)
(***************************************************************************)
EXTENDS Integers, Sequences, FiniteSets

CONSTANTS
  CmdRetries,     \* tryAgainNum of the commands that have one (3)
  MaxTimeouts,    \* cmdTimeoutCount beyond which the modem is restarted (10)
  MaxRegister,    \* attempts to register (15)
  MaxPending,     \* bound on the commands the modem has not answered
  MaxCalls        \* bound on the calls that come in

ASSUME RegistrationAssumption ==
  {CmdRetries, MaxTimeouts, MaxRegister, MaxPending, MaxCalls} \subseteq Nat

VARIABLES
  modemCmd_TaskPhase, cmd, cmdRetry, cmdTimeoutCount,
  commBuf,              \* answers received and not read
  gsm_TaskPhase, registerNetworkRetry,
  call,                 \* none, coming (incomingCall or inCalling) or handled
  calls,
  pending,              \* commands the modem has received and not answered
  accepted,             \* history: of Essential, those accepted since it was
                        \* turned on, until an answer goes astray
  modemDead,
  mixed,                \* history: since turned on, an answer went astray
  loopStep              \* whose turn it is in AppRun

engineVars == <<modemCmd_TaskPhase, cmd, cmdRetry, cmdTimeoutCount, commBuf>>
gsmVars == <<gsm_TaskPhase, registerNetworkRetry>>
modemVars == <<pending, accepted, modemDead, mixed>>
registrationVars ==
  <<modemCmd_TaskPhase, cmd, cmdRetry, cmdTimeoutCount, commBuf,
    gsm_TaskPhase, registerNetworkRetry, call, calls,
    pending, accepted, modemDead, mixed, loopStep>>

\* Flow control, power saving, text mode, network.
Essential == {"AT&K0", "AT+UPSV", "AT+CMGF", "AT+COPS"}

ModemCmdTask_IsIdle == modemCmd_TaskPhase \in {"CMD_ERROR", "CMD_OK", "CMD_FINISH"}

RegistrationInit ==
  /\ modemCmd_TaskPhase = "CMD_FINISH" /\ cmd = "none"
  /\ cmdRetry = 0 /\ cmdTimeoutCount = 0
  /\ commBuf = <<>>
  /\ gsm_TaskPhase = "TURN_ON" /\ registerNetworkRetry = 0
  /\ call = "none" /\ calls = 0
  /\ pending = <<>> /\ accepted = {} /\ modemDead = FALSE /\ mixed = FALSE
  /\ loopStep = "ModemCmd_Task"

-----------------------------------------------------------------------------
\* The engine.

ModemCmdTask_SendCmd(c, retries) ==
  /\ modemCmd_TaskPhase' = "CMD_SEND"
  /\ cmd' = c
  /\ cmdRetry' = retries
  /\ commBuf' = <<>>
  /\ UNCHANGED cmdTimeoutCount

\* The command goes out when its delay is over.
SendPhase ==
  /\ modemCmd_TaskPhase = "CMD_SEND"
  /\ modemCmd_TaskPhase' = "CMD_WAIT"
  /\ commBuf' = <<>>
  /\ pending' = IF Len(pending) < MaxPending THEN Append(pending, cmd) ELSE pending
  /\ UNCHANGED <<cmd, cmdRetry, cmdTimeoutCount, gsmVars, accepted, modemDead, mixed>>

\* While a ring is being timed, a dial or an answer is not sent.
SendHeldBack ==
  /\ modemCmd_TaskPhase = "CMD_SEND" /\ cmd = "other"
  /\ modemCmd_TaskPhase' = "CMD_ERROR"
  /\ UNCHANGED <<cmd, cmdRetry, cmdTimeoutCount, commBuf, gsmVars, modemVars>>

\* Mutant: a command given up is not counted.
WaitTimeoutUncounted ==
  /\ modemCmd_TaskPhase = "CMD_WAIT"
  /\ \/ /\ cmdRetry > 0
        /\ cmdRetry' = cmdRetry - 1
        /\ modemCmd_TaskPhase' = "CMD_SEND"
     \/ /\ cmdRetry = 0
        /\ modemCmd_TaskPhase' = "CMD_ERROR"
        /\ UNCHANGED cmdRetry
  /\ UNCHANGED <<cmd, commBuf, cmdTimeoutCount, gsmVars, modemVars>>

\* No answer in time: send again, or give up; when that has happened too
\* often, start the modem afresh.
WaitTimeout ==
  /\ modemCmd_TaskPhase = "CMD_WAIT"
  /\ \/ /\ cmdRetry > 0
        /\ cmdRetry' = cmdRetry - 1
        /\ modemCmd_TaskPhase' = "CMD_SEND"
        /\ UNCHANGED <<cmdTimeoutCount, gsmVars>>
     \/ /\ cmdRetry = 0
        /\ modemCmd_TaskPhase' = "CMD_ERROR"
        /\ IF cmdTimeoutCount > MaxTimeouts
           THEN cmdTimeoutCount' = 0 /\ gsm_TaskPhase' = "TURN_ON"
           ELSE cmdTimeoutCount' = cmdTimeoutCount + 1 /\ UNCHANGED gsm_TaskPhase
        /\ UNCHANGED <<cmdRetry, registerNetworkRetry>>
  /\ UNCHANGED <<cmd, commBuf, modemVars>>

\* All answers in the buffer are read in one go, also those behind the one
\* that ends the command.  Each ERROR takes one of the retries; the last answer
\* decides: OK, an ERROR that still had a retry to take, or one that had none.
WaitAnswers ==
  /\ modemCmd_TaskPhase = "CMD_WAIT" /\ commBuf # <<>>
  /\ LET errors == Cardinality({n \in DOMAIN commBuf : commBuf[n] = "ERROR"})
     IN  /\ modemCmd_TaskPhase' = CASE commBuf[Len(commBuf)] = "OK" -> "CMD_OK"
                                    [] commBuf[Len(commBuf)] = "ERROR" ->
                                         IF errors <= cmdRetry THEN "CMD_SEND" ELSE "CMD_ERROR"
         /\ cmdRetry' = IF errors <= cmdRetry THEN cmdRetry - errors ELSE 0
  /\ commBuf' = <<>>
  /\ cmdTimeoutCount' = 0
  /\ UNCHANGED <<cmd, gsmVars, modemVars>>

EngineRests ==
  /\ \/ ModemCmdTask_IsIdle
     \/ modemCmd_TaskPhase = "CMD_SEND"
     \/ modemCmd_TaskPhase = "CMD_WAIT" /\ commBuf = <<>>
  /\ UNCHANGED <<engineVars, gsmVars, modemVars>>

ModemCmd_Task ==
  /\ loopStep = "ModemCmd_Task"
  /\ SendPhase \/ SendHeldBack \/ WaitTimeout \/ WaitAnswers \/ EngineRests
  /\ loopStep' = "Gsm_Task"
  /\ UNCHANGED <<call, calls>>

-----------------------------------------------------------------------------
\* Gsm_Task.

Enter(phase) == gsm_TaskPhase' = phase

\* A phase that sends the next command whatever the last one's result, and
\* the phase it goes to.
Step(c, next, retries) == [cmd |-> c, next |-> next, retries |-> retries]
Unconditional ==
  [CONFIG_1         |-> Step("AT+CBC", "CONFIG_2", 0),
   CONFIG_2         |-> Step("AT&K0", "CONFIG_3", 0),
   REGISTER_NETWORK |-> Step("AT+COPS", "SYS_WAIT_COVERAGE", 0),
   DELETE_ALL_SMS   |-> Step("AT+CMGD", "GET_CSQ", 0),
   SET_GPRS_PROFILE |-> Step("AT+UPSD", "SET_GPRS_APN", 0),
   SET_GPRS_APN     |-> Step("AT+UPSD", "SET_GPRS_USER", CmdRetries),
   SET_GPRS_DYNAMIC_IP |-> Step("AT+UPSD", "WAIT_GPRS_PROFILE", CmdRetries)]

\* A phase that needs the last command's OK, and where it goes without.
OnOk(c, next, retries, else) ==
  [cmd |-> c, next |-> next, retries |-> retries, else |-> else]
\* Mutant: the modem is not turned on again when its configuration fails.
ConditionalWaits ==
  [CONFIG_3         |-> OnOk("AT+UPSV", "CONNECT_SIM", 0, "CONFIG_3"),
   CONNECT_SIM      |-> OnOk("AT+CMGF", "WAIT_CONNECT_SIM", 0, "CONNECT_SIM"),
   WAIT_CONNECT_SIM |-> OnOk("AT+CNMI", "DELAY_REGISTER_NETWORK", 0, "WAIT_CONNECT_SIM"),
   SET_GPRS_USER    |-> OnOk("AT+UPSD", "SET_GPRS_PASS", CmdRetries, "WAIT_GPRS_PROFILE"),
   SET_GPRS_PASS    |-> OnOk("AT+UPSD", "SET_GPRS_DYNAMIC_IP", CmdRetries, "WAIT_GPRS_PROFILE")]

Conditional ==
  [CONFIG_3         |-> OnOk("AT+UPSV", "CONNECT_SIM", 0, "TURN_ON"),
   CONNECT_SIM      |-> OnOk("AT+CMGF", "WAIT_CONNECT_SIM", 0, "TURN_ON"),
   WAIT_CONNECT_SIM |-> OnOk("AT+CNMI", "DELAY_REGISTER_NETWORK", 0, "TURN_ON"),
   SET_GPRS_USER    |-> OnOk("AT+UPSD", "SET_GPRS_PASS", CmdRetries, "WAIT_GPRS_PROFILE"),
   SET_GPRS_PASS    |-> OnOk("AT+UPSD", "SET_GPRS_DYNAMIC_IP", CmdRetries, "WAIT_GPRS_PROFILE")]

\* A blocking command in the middle of a phase: its answer may be too late.
Blocking == pending' \in {<<>>, <<"blocking">>}

TurnOn ==
  /\ gsm_TaskPhase = "TURN_ON"
  /\ ModemCmdTask_SendCmd("AT", CmdRetries)
  /\ Enter("INIT_COMM")
  /\ pending' = <<>> /\ accepted' = {} /\ mixed' = FALSE
  /\ modemDead' \in {modemDead, FALSE}
  /\ UNCHANGED registerNetworkRetry

InitComm ==
  /\ gsm_TaskPhase = "INIT_COMM"
  /\ \/ /\ modemCmd_TaskPhase = "CMD_OK"
        /\ ModemCmdTask_SendCmd("AT", CmdRetries)
        /\ Enter("READ_IMEI")
     \/ /\ modemCmd_TaskPhase # "CMD_OK"
        /\ Enter("TURN_ON")
        /\ UNCHANGED engineVars
     \/ /\ modemCmd_TaskPhase # "CMD_OK"
        /\ UNCHANGED <<engineVars, gsm_TaskPhase>>
  /\ UNCHANGED <<registerNetworkRetry, modemVars>>

ReadImei ==
  /\ gsm_TaskPhase = "READ_IMEI"
  /\ \E p \in {"TURN_ON", "CONFIG_1"} :
       /\ modemDead => p = "TURN_ON"
       /\ Enter(p)
  /\ Blocking
  /\ commBuf' = <<>>
  /\ UNCHANGED <<modemCmd_TaskPhase, cmd, cmdRetry, cmdTimeoutCount,
                 registerNetworkRetry, accepted, modemDead, mixed>>

SendsAnyway ==
  /\ gsm_TaskPhase \in DOMAIN Unconditional
  /\ LET s == Unconditional[gsm_TaskPhase]
     IN  ModemCmdTask_SendCmd(s.cmd, s.retries) /\ Enter(s.next)
  /\ UNCHANGED <<registerNetworkRetry, modemVars>>

\* Mutant: the engine only has to be idle.
SendsOnIdle ==
  /\ gsm_TaskPhase \in DOMAIN Conditional
  /\ LET s == Conditional[gsm_TaskPhase]
     IN  ModemCmdTask_SendCmd(s.cmd, s.retries) /\ Enter(s.next)
  /\ IF gsm_TaskPhase = "WAIT_CONNECT_SIM"
     THEN Blocking /\ registerNetworkRetry' = 0
     ELSE UNCHANGED <<pending, registerNetworkRetry>>
  /\ UNCHANGED <<accepted, modemDead, mixed>>

SendsOnOk ==
  /\ gsm_TaskPhase \in DOMAIN Conditional
  /\ LET s == Conditional[gsm_TaskPhase]
     IN  \/ /\ modemCmd_TaskPhase = "CMD_OK"
            /\ ModemCmdTask_SendCmd(s.cmd, s.retries)
            /\ Enter(s.next)
            /\ IF gsm_TaskPhase = "WAIT_CONNECT_SIM"
               THEN Blocking /\ registerNetworkRetry' = 0
               ELSE UNCHANGED <<pending, registerNetworkRetry>>
         \/ /\ modemCmd_TaskPhase # "CMD_OK"
            /\ Enter(s.else)
            /\ UNCHANGED <<engineVars, registerNetworkRetry, pending>>
         \/ /\ modemCmd_TaskPhase = "CMD_FINISH"
            /\ UNCHANGED <<engineVars, gsmVars, pending>>
  /\ UNCHANGED <<accepted, modemDead, mixed>>

DelayRegister ==
  /\ gsm_TaskPhase = "DELAY_REGISTER_NETWORK"
  /\ Enter("REGISTER_NETWORK") \/ UNCHANGED gsm_TaskPhase
  /\ UNCHANGED <<engineVars, registerNetworkRetry, modemVars>>

WaitCoverage ==
  /\ gsm_TaskPhase = "SYS_WAIT_COVERAGE"
  /\ \/ /\ modemCmd_TaskPhase = "CMD_OK"
        /\ Blocking
        /\ ModemCmdTask_SendCmd("AT+CLIP", 0)
        /\ Enter("DELETE_ALL_SMS")
        /\ UNCHANGED registerNetworkRetry
     \/ /\ modemCmd_TaskPhase # "CMD_OK"
        /\ IF registerNetworkRetry < MaxRegister
           THEN Enter("REGISTER_NETWORK") /\ registerNetworkRetry' = registerNetworkRetry + 1
           ELSE Enter("TURN_ON") /\ registerNetworkRetry' = 0
        /\ UNCHANGED <<engineVars, pending>>
     \/ /\ modemCmd_TaskPhase # "CMD_OK"
        /\ UNCHANGED <<engineVars, gsmVars, pending>>
  /\ UNCHANGED <<accepted, modemDead, mixed>>

GetCsq ==
  /\ gsm_TaskPhase = "GET_CSQ"
  /\ Blocking
  /\ commBuf' = <<>>
  /\ Enter("SET_GPRS_PROFILE")
  /\ UNCHANGED <<modemCmd_TaskPhase, cmd, cmdRetry, cmdTimeoutCount,
                 registerNetworkRetry, accepted, modemDead, mixed>>

WaitGprsProfile ==
  /\ gsm_TaskPhase = "WAIT_GPRS_PROFILE"
  /\ Enter("SYS_COVERAGE_OK")
  /\ UNCHANGED <<engineVars, registerNetworkRetry, modemVars>>

\* With the IMEI gone, after a factory reset, the modem is turned on again.
CoverageOk ==
  /\ gsm_TaskPhase = "SYS_COVERAGE_OK"
  /\ gsm_TaskPhase' \in {"SYS_COVERAGE_OK", "TURN_ON"}
  /\ UNCHANGED <<engineVars, registerNetworkRetry, modemVars>>

GsmPhase ==
  \/ TurnOn \/ InitComm \/ ReadImei \/ SendsAnyway \/ SendsOnOk \/ DelayRegister
  \/ WaitCoverage \/ GetCsq \/ WaitGprsProfile \/ CoverageOk

\* AppRun calls it only with the engine idle and no call coming in.
Gsm_Task ==
  /\ loopStep = "Gsm_Task"
  /\ IF ModemCmdTask_IsIdle /\ call # "coming"
     THEN GsmPhase
     ELSE UNCHANGED <<engineVars, gsmVars, modemVars>>
  /\ loopStep' = "others"
  /\ UNCHANGED <<call, calls>>

-----------------------------------------------------------------------------
\* The tasks behind it in the loop: they use the engine for a call (ATD, ATA, ATH,
\* AT+CEER), and with coverage for a message (ModemCmdTask_SetWait), too.
OthersSend ==
  /\ loopStep = "others" /\ ModemCmdTask_IsIdle
  /\ call # "none" \/ gsm_TaskPhase = "SYS_COVERAGE_OK"
  /\ ModemCmdTask_SendCmd("other", 0)
  /\ mixed' = TRUE /\ accepted' = {}
  /\ loopStep' = "ModemCmd_Task"
  /\ UNCHANGED <<gsmVars, call, calls, pending, modemDead>>

\* The SMS check and the clock pass the engine by: blocking commands, whose
\* time-outs nobody counts.
OthersBypass ==
  /\ loopStep = "others" /\ ModemCmdTask_IsIdle
  /\ call = "none" /\ gsm_TaskPhase = "SYS_COVERAGE_OK"
  /\ Blocking
  /\ commBuf' = <<>>
  /\ loopStep' = "ModemCmd_Task"
  /\ UNCHANGED <<modemCmd_TaskPhase, cmd, cmdRetry, cmdTimeoutCount, gsmVars,
                 accepted, modemDead, mixed, call, calls>>

\* ModemCmdTask_Cancel, from GprsTask_Stop when a call is answered or ended:
\* the modem echoes the cancel, and the command is left without a result.
OthersCancel ==
  /\ loopStep = "others" /\ call # "none"
  /\ modemCmd_TaskPhase = "CMD_WAIT" /\ ~modemDead
  /\ modemCmd_TaskPhase' = "CMD_FINISH"
  /\ loopStep' = "ModemCmd_Task"
  /\ UNCHANGED <<cmd, cmdRetry, cmdTimeoutCount, commBuf, gsmVars, modemVars, call, calls>>

OthersIdle ==
  /\ loopStep = "others"
  /\ loopStep' = "ModemCmd_Task"
  /\ UNCHANGED <<engineVars, gsmVars, modemVars, call, calls>>

\* The modem answers its oldest command; an answer that comes when a later
\* command is out already is what the engine cannot tell apart.
ModemAnswers ==
  /\ pending # <<>> /\ ~modemDead /\ Len(commBuf) < MaxPending
  /\ pending' = Tail(pending)
  /\ mixed' = (mixed \/ Len(pending) > 1 \/ Head(pending) # cmd)
  /\ \E answer \in {"OK", "ERROR"} :
       /\ commBuf' = Append(commBuf, answer)
       /\ accepted' = CASE mixed' -> {}
                         [] ~mixed' /\ answer = "OK" ->
                              accepted \union ({Head(pending)} \intersect Essential)
                         [] OTHER -> accepted
  /\ UNCHANGED <<modemCmd_TaskPhase, cmd, cmdRetry, cmdTimeoutCount, gsmVars,
                 modemDead, call, calls, loopStep>>

ModemDies ==
  /\ ~modemDead /\ modemDead' = TRUE
  /\ UNCHANGED <<engineVars, gsmVars, pending, accepted, mixed, call, calls, loopStep>>

CallComesIn ==
  /\ call = "none" /\ calls < MaxCalls
  /\ call' = "coming"
  /\ calls' = calls + 1
  /\ UNCHANGED <<engineVars, gsmVars, modemVars, loopStep>>

\* VoiceCall_Task has taken it up; RING, or the call's being up, shuts the gate
\* again.
CallGoesOn ==
  /\ call' = CASE call = "coming" -> "handled" [] call = "handled" -> "coming"
              [] OTHER -> call
  /\ call # "none"
  /\ UNCHANGED <<engineVars, gsmVars, modemVars, calls, loopStep>>

CallGone ==
  /\ call # "none" /\ call' = "none"
  /\ UNCHANGED <<engineVars, gsmVars, modemVars, calls, loopStep>>

RegistrationNext ==
  \/ ModemCmd_Task \/ Gsm_Task
  \/ OthersSend \/ OthersBypass \/ OthersCancel \/ OthersIdle
  \/ ModemAnswers \/ ModemDies \/ CallComesIn \/ CallGoesOn \/ CallGone

RegistrationSpec == RegistrationInit /\ [][RegistrationNext]_registrationVars

\* The loop goes on, a call ends, and a timer that is looked at again and again
\* has run out in the end.  The modem owes nothing, nor do the other tasks: an
\* idle device sends nothing through the engine.
Advances == gsm_TaskPhase' # gsm_TaskPhase /\ gsm_TaskPhase # "SYS_COVERAGE_OK"

RegistrationFairness ==
  /\ WF_registrationVars(ModemCmd_Task)
  /\ WF_registrationVars(Gsm_Task)
  /\ WF_registrationVars(OthersSend \/ OthersBypass \/ OthersCancel \/ OthersIdle)
  /\ SF_registrationVars(ModemCmd_Task /\ (SendPhase \/ WaitTimeout))
  /\ SF_registrationVars(Gsm_Task /\ Advances)
  /\ WF_registrationVars(CallGone)

-----------------------------------------------------------------------------
\* Bringing the modem up never hangs, whatever the modem answers, and when:
\* coverage is reached, or the modem turned on again, over and over.
RegistrationNeverHangs == []<>(gsm_TaskPhase \in {"TURN_ON", "SYS_COVERAGE_OK"})

\* A modem that has stopped answering is turned on again, also from
\* MODEM_SYS_COVERAGE_OK, where Gsm_Task itself does nothing any more - as long as
\* calls and messages go on being tried.  While they are not, nothing counts the
\* time-outs: the SMS check, which goes on, does not.
OthersKeepSending == []<><<OthersSend>>_registrationVars

DeadModemIsRestarted ==
  OthersKeepSending =>
    (modemDead /\ gsm_TaskPhase = "SYS_COVERAGE_OK"
      ~> gsm_TaskPhase = "TURN_ON" \/ ~modemDead)

\* Coverage means a modem that has accepted flow control, power saving, text
\* mode and the network, unless an answer came late or a call's command was
\* in between: then a phase has taken another command's OK for its own.
CoverageMeansConfigured ==
  gsm_TaskPhase = "SYS_COVERAGE_OK" /\ ~mixed =>
    Essential \subseteq accepted
=============================================================================
