------------------------------- MODULE Wakeup -------------------------------
(***************************************************************************)
(* How an incoming message is noticed and read, awake or asleep: the pulse *)
(* of the modem's ring pin (PORTD_IRQHandler, or the wake-up source in     *)
(* SysSleep), the ring detection and the missed-call count of LPTimerTask  *)
(* (tick.c), and the SMS check and the decision to sleep of AppRun         *)
(* (project_main.c).                                                       *)
(*                                                                         *)
(* The ring pin pulses for a message as for a call.  The detection takes a *)
(* second pulse within its window for a call, and a lone one for a         *)
(* message.  The modem's own +CMTI may be missed: it is asleep too.        *)
(*                                                                         *)
(* The other tasks are one flag, busy.  The phases of a call are NO_CALL   *)
(* and INCOMING_CALL, which nobody answers; the text of messages and the   *)
(* commands in them are left out.                                          *)
(***************************************************************************)
EXTENDS Integers

CONSTANTS
  RingWindow,   \* seconds a pulse is timed (5)
  RingLimit,    \* seconds without a pulse that make a call a missed one (5)
  MaxMessages,  \* bound on the messages that arrive
  MaxRings,     \* bound on the pulses of calls
  MaxBusy       \* bound on the times other tasks get busy

ASSUME WakeupAssumption ==
  {RingWindow, RingLimit, MaxMessages, MaxRings, MaxBusy} \subseteq Nat

VARIABLES
  ringingFlag, ringingDetectFlag, ringingCountDown,
  incomingCall,
  voiceCall,          \* NO_CALL or INCOMING_CALL
  ringingCount, missCall,
  smsNewMessageFlag,
  smsUnread,          \* locations in smsUnreadRingBuff
  toCome,             \* lines of the last listing the modem is still to send
  flagSmsReadFinish,  \* AT+CMGR was answered
  stored,             \* messages the modem holds
  mainStep,           \* where AppRun, SMS_Manage or SysSleep is
  busy,               \* another task keeps the SMS check and sleep away
  messages, rings,    \* arrived so far
  busyTimes           \* times the other tasks got busy

ringVars == <<ringingFlag, ringingDetectFlag, ringingCountDown, ringingCount, missCall>>
wakeupVars == <<ringingFlag, ringingDetectFlag, ringingCountDown, incomingCall,
                voiceCall, ringingCount, missCall, smsNewMessageFlag, smsUnread, toCome,
                flagSmsReadFinish, stored, mainStep, busy, messages, rings, busyTimes>>

readVars == <<smsUnread, toCome, flagSmsReadFinish>>
busyVars == <<busy, busyTimes>>

WakeupInit ==
  /\ ringingFlag = FALSE /\ ringingDetectFlag = FALSE /\ ringingCountDown = 0
  /\ incomingCall = FALSE /\ voiceCall = "NO_CALL"
  /\ ringingCount = 0 /\ missCall = FALSE
  /\ smsNewMessageFlag = FALSE /\ smsUnread = 0 /\ stored = 0
  /\ toCome = 0 /\ flagSmsReadFinish = FALSE
  /\ mainStep = "tasks" /\ busy = FALSE
  /\ messages = 0 /\ rings = 0 /\ busyTimes = 0

-----------------------------------------------------------------------------
\* Interrupts.

\* A pulse of the ring pin; asleep, it wakes the processor as well.
RingPin ==
  /\ ringingFlag' = TRUE
  /\ ringingCount' = IF voiceCall = "INCOMING_CALL" THEN 0 ELSE ringingCount
  /\ mainStep' = IF mainStep = "asleep" THEN "tasks" ELSE mainStep

\* +CMTI tells its location, if the modem is awake.
MessageArrives ==
  /\ messages < MaxMessages
  /\ messages' = messages + 1
  /\ stored' = stored + 1
  /\ RingPin
  /\ \/ smsNewMessageFlag' = TRUE /\ smsUnread' = smsUnread + 1
     \/ UNCHANGED <<smsNewMessageFlag, smsUnread>>
  /\ UNCHANGED <<ringingDetectFlag, ringingCountDown, incomingCall, voiceCall,
                 missCall, toCome, flagSmsReadFinish, busyVars, rings>>

CallRings ==
  /\ rings < MaxRings
  /\ rings' = rings + 1
  /\ RingPin
  /\ incomingCall' \in {incomingCall, TRUE}
  /\ UNCHANGED <<ringingDetectFlag, ringingCountDown, voiceCall, missCall,
                 smsNewMessageFlag, readVars, stored, busyVars, messages>>

\* The end of the window: a second pulse is a call, none is a message.
RingDecision ==
  /\ ringingDetectFlag' = FALSE
  /\ incomingCall' = (incomingCall \/ ringingFlag)
  /\ smsNewMessageFlag' = (smsNewMessageFlag \/ ~ringingFlag)
  /\ UNCHANGED <<ringingFlag, ringingCountDown>>

\* Mutant: the pulse that opened the window counts as the second one.
RingWindowOpensRinging ==
  /\ ringingDetectFlag' = (RingWindow > 0)
  /\ ringingCountDown' = IF RingWindow > 0 THEN RingWindow - 1 ELSE 0
  /\ smsNewMessageFlag' = (smsNewMessageFlag \/ RingWindow = 0)
  /\ UNCHANGED <<ringingFlag, incomingCall>>

\* A pulse opens the window, which loses its first second at once.
RingWindowOpens ==
  /\ ringingFlag' = FALSE
  /\ ringingDetectFlag' = (RingWindow > 0)
  /\ ringingCountDown' = IF RingWindow > 0 THEN RingWindow - 1 ELSE 0
  /\ smsNewMessageFlag' = (smsNewMessageFlag \/ RingWindow = 0)
  /\ UNCHANGED incomingCall

RingDetect ==
  \/ ringingFlag /\ ~ringingDetectFlag /\ RingWindowOpens
  \/ /\ ringingDetectFlag /\ ringingCountDown > 0
     /\ ringingCountDown' = ringingCountDown - 1
     /\ UNCHANGED <<ringingFlag, ringingDetectFlag, incomingCall, smsNewMessageFlag>>
  \/ ringingDetectFlag /\ ringingCountDown = 0 /\ RingDecision
  \/ /\ ~ringingFlag /\ ~ringingDetectFlag
     /\ UNCHANGED <<ringingFlag, ringingDetectFlag, ringingCountDown, incomingCall,
                    smsNewMessageFlag>>

MissedCall ==
  LET late == voiceCall = "INCOMING_CALL" /\ ringingCount >= RingLimit
  IN  /\ missCall' = (missCall \/ late)
      /\ ringingCount' = IF voiceCall = "NO_CALL" \/ late THEN 0 ELSE ringingCount + 1

\* The second of LPTimerTask; SysSleep looks round after four of its calls.
LPTimerSecond ==
  /\ RingDetect
  /\ MissedCall
  /\ mainStep' = IF mainStep = "asleep"
                    /\ (smsNewMessageFlag' \/ voiceCall # "NO_CALL" \/ busy)
                 THEN "tasks" ELSE mainStep
  /\ UNCHANGED <<voiceCall, readVars, stored, busyVars, messages, rings>>

-----------------------------------------------------------------------------
\* The main loop.

\* VoiceCall_Task's turn: a call begins, or is missed, by the count of
\* LPTimerTask or by a timer of the task.
Tasks ==
  /\ mainStep = "tasks"
  /\ mainStep' = "smsCheck"
  /\ \/ /\ voiceCall = "NO_CALL" /\ incomingCall
        /\ voiceCall' = "INCOMING_CALL"
        /\ UNCHANGED <<incomingCall, missCall>>
     \/ /\ voiceCall = "INCOMING_CALL"
        /\ incomingCall' = FALSE
        /\ missCall' = FALSE
        /\ voiceCall' \in IF missCall THEN {"NO_CALL"} ELSE {"NO_CALL", "INCOMING_CALL"}
     \/ /\ voiceCall = "NO_CALL" /\ ~incomingCall
        /\ UNCHANGED <<voiceCall, incomingCall, missCall>>
  /\ UNCHANGED <<ringingFlag, ringingDetectFlag, ringingCountDown, ringingCount,
                 smsNewMessageFlag, readVars, stored, busyVars, messages, rings>>

Quiet == ~busy /\ voiceCall = "NO_CALL"

\* Mutant: only a message that was noticed is looked for.
SmsCheckOnFlag ==
  /\ mainStep = "smsCheck"
  /\ mainStep' = IF Quiet /\ smsNewMessageFlag THEN "list" ELSE "sleepCheck"
  /\ UNCHANGED <<ringVars, incomingCall, voiceCall, smsNewMessageFlag, readVars,
                 stored, busyVars, messages, rings>>

\* The check is due: asked for, or five minutes have gone by.
SmsCheck ==
  /\ mainStep = "smsCheck"
  /\ mainStep' \in IF ~Quiet THEN {"sleepCheck"}
                   ELSE IF smsNewMessageFlag THEN {"list"}
                   ELSE {"list", "sleepCheck"}
  /\ UNCHANGED <<ringVars, incomingCall, voiceCall, smsNewMessageFlag, readVars,
                 stored, busyVars, messages, rings>>

\* SMS_Manage: AT+CMGL lists what the modem holds.  Two seconds later the
\* locations are read that have arrived by then.
SmsList ==
  /\ mainStep = "list"
  /\ \E now, later \in 0 .. stored :
       /\ now + later <= stored
       /\ smsUnread' = smsUnread + now /\ toCome' = later
       /\ smsNewMessageFlag' = (smsNewMessageFlag \/ now > 0)
  /\ mainStep' = "read"
  /\ UNCHANGED <<ringVars, incomingCall, voiceCall, flagSmsReadFinish, stored, busyVars,
                 messages, rings>>

\* The others arrive at some time, in the interrupt, if at all.
LineArrives ==
  /\ toCome > 0
  /\ toCome' = toCome - 1 /\ smsUnread' = smsUnread + 1
  /\ smsNewMessageFlag' = TRUE
  /\ UNCHANGED <<ringVars, incomingCall, voiceCall, flagSmsReadFinish, stored, mainStep,
                 busyVars, messages, rings>>

\* AT+CMGR, which is waited for, and answered in the interrupt or not in 3 s.
SmsRead ==
  /\ mainStep = "read" /\ smsUnread > 0
  /\ smsUnread' = smsUnread - 1 /\ flagSmsReadFinish' = FALSE
  /\ mainStep' = "wait"
  /\ UNCHANGED <<ringVars, incomingCall, voiceCall, smsNewMessageFlag, toCome, stored,
                 busyVars, messages, rings>>

SmsAnswered ==
  /\ mainStep = "wait" /\ ~flagSmsReadFinish
  /\ flagSmsReadFinish' = TRUE
  /\ UNCHANGED <<ringVars, incomingCall, voiceCall, smsNewMessageFlag, smsUnread, toCome,
                 stored, mainStep, busyVars, messages, rings>>

\* AT+CMGD follows in any case, and nobody looks whether the modem obeys.  The
\* message may also be gone already: it was told by +CMTI and listed, too.
SmsDelete ==
  /\ mainStep = "wait"
  /\ stored' \in {stored, stored - 1} \cap Nat
  /\ mainStep' = "read"
  /\ UNCHANGED <<ringVars, incomingCall, voiceCall, smsNewMessageFlag, readVars, busyVars,
                 messages, rings>>

\* Back in AppRun, the flag is cleared, also for what came in the meantime.
SmsManaged ==
  /\ mainStep = "read" /\ smsUnread = 0
  /\ smsNewMessageFlag' = FALSE
  /\ mainStep' = "sleepCheck"
  /\ UNCHANGED <<ringVars, incomingCall, voiceCall, readVars, stored, busyVars,
                 messages, rings>>

\* The decision to sleep looks at the flag, but not at a pulse being timed.
SleepCheck ==
  /\ mainStep = "sleepCheck"
  /\ mainStep' \in IF Quiet /\ ~smsNewMessageFlag THEN {"tasks", "goToSleep"} ELSE {"tasks"}
  /\ UNCHANGED <<ringVars, incomingCall, voiceCall, smsNewMessageFlag, readVars,
                 stored, busyVars, messages, rings>>

\* SysSleep stops the processor; until then a pulse is a plain interrupt.
SysSleep ==
  /\ mainStep = "goToSleep"
  /\ mainStep' = "asleep"
  /\ UNCHANGED <<ringVars, incomingCall, voiceCall, smsNewMessageFlag, readVars,
                 stored, busyVars, messages, rings>>

\* A key, the charger or a low battery ends the sleep.
WakeUp ==
  /\ mainStep = "asleep"
  /\ mainStep' = "tasks"
  /\ UNCHANGED <<ringVars, incomingCall, voiceCall, smsNewMessageFlag, readVars,
                 stored, busyVars, messages, rings>>

MainLoop ==
  Tasks \/ SmsCheck \/ SmsList \/ SmsRead \/ SmsDelete \/ SmsManaged \/ SleepCheck \/ SysSleep

\* Other tasks come and go.
OthersBusy ==
  /\ ~busy /\ busyTimes < MaxBusy
  /\ busy' = TRUE
  /\ busyTimes' = busyTimes + 1
  /\ UNCHANGED <<ringVars, incomingCall, voiceCall, smsNewMessageFlag, readVars,
                 stored, mainStep, messages, rings>>

OthersDone ==
  /\ busy /\ busy' = FALSE /\ UNCHANGED busyTimes
  /\ UNCHANGED <<ringVars, incomingCall, voiceCall, smsNewMessageFlag, readVars,
                 stored, mainStep, messages, rings>>

WakeupNext ==
  \/ MessageArrives \/ CallRings \/ LPTimerSecond \/ LineArrives \/ SmsAnswered
  \/ MainLoop \/ WakeUp
  \/ OthersBusy \/ OthersDone

WakeupSpec == WakeupInit /\ [][WakeupNext]_wakeupVars

\* The interrupt and the loop go on, the other tasks finish, the five-minute
\* check comes round while the device is awake, and a sleep ends: the wearer
\* presses a key or charges the device.  The modem that is asked again and again
\* lists a message in time, and deletes one.
WakeupFairness ==
  /\ WF_wakeupVars(LPTimerSecond)
  /\ WF_wakeupVars(MainLoop)
  /\ WF_wakeupVars(OthersDone)
  /\ SF_wakeupVars(SmsCheck /\ mainStep' = "list")
  /\ SF_wakeupVars(SmsList /\ smsUnread' > 0)
  /\ SF_wakeupVars(SmsDelete /\ stored' < stored)
  /\ WF_wakeupVars(WakeUp)

-----------------------------------------------------------------------------
\* A message is taken from the modem in the end, also when it arrives while the
\* device falls asleep, within the window of another's pulse (it is taken for a
\* call), or while SMS_Manage runs: AppRun clears its flag unread then.
\* The pulse of such a message brings the flag up again when its window closes
\* after that; when it closed before, only the five-minute check finds it.
MessageIsTaken == stored > 0 ~> stored = 0

\* "Read the newly received SMS", "delete just received SMS": what SMS_Manage
\* deletes it has read.  It does not hold: AT+CMGD goes out, too, when AT+CMGR was
\* not answered in 3 s, and only then is flagSmsReadFinish looked at.
DeletedWasRead == [][stored' < stored => flagSmsReadFinish]_wakeupVars

\* A single pulse of the ring pin is never taken for a call.
OnePulseIsNoCall ==
  messages <= 1 /\ rings = 0 => ~incomingCall /\ voiceCall = "NO_CALL"
=============================================================================
