------------------------------- MODULE Alarms -------------------------------
(***************************************************************************)
(* The alarms of a worker alone: the second of LPTimerTask (tick.c) that   *)
(* counts them, an interrupt, and Io_Task, SosTask_Reset, SosTask_Start    *)
(* and SosTask_End (io_tasks.c, sos_tasks.c), which dismiss them and turn  *)
(* them into an emergency call.                                            *)
(*                                                                         *)
(* An alarm counts its interval down; at zero it warns and counts down     *)
(* again; at zero it raises initEmergencyCall.  A reset flag, set by the   *)
(* power key, by movement, by a new configuration and for as long as an    *)
(* SOS is active, makes the next second start over.                        *)
(*                                                                         *)
(* The second is one step, taken between any two steps of the main loop.   *)
(* The prompts, the phases of the SOS between its start and its end        *)
(* (SosTask), and switching off, which stops the count, are left out.  The *)
(* ring detection of the same interrupt is in Wakeup, its keys are in      *)
(* Keys: they share no state with the alarms.                              *)
(***************************************************************************)
EXTENDS Integers

Alarm == {"loneWorker", "noMovement", "manDown"}

CONSTANTS
  Interval,    \* seconds until each alarm warns
  Countdown,   \* DEFAULT_ALARM_COUNTDOWN_TIME
  FeatureSets, \* the configurations sysCfg.featureSet goes through
  MaxEvents    \* bound on the presses of the SOS key and the incoming calls

ASSUME AlarmAssumption ==
  /\ Interval \in [Alarm -> Nat]
  /\ Countdown \in Nat
  /\ FeatureSets \subseteq SUBSET Alarm
  /\ MaxEvents \in Nat

VARIABLES
  featureSet,         \* the alarms sysCfg.featureSet turns on
  charging,           \* CHG_EN_IN
  alarm,              \* alarm[a]: active flag, interval and countdown counters
  resetFlag,          \* flagLoneWorkerReset, flagNoMovementReset, ...
  alarmSos,           \* loneWorkerSos, noMovementSos, manDownSos
  initEmergencyCall,
  powerKeyPressed, powerKeyHold1Sec, sosKeyPressed,
  sosOn,              \* sosPhase # SOS_END
  callPhase,          \* what Io_Task tells apart of the voice call's phase
  ioStep,             \* where the main loop is
  silent,             \* history: seconds a counts since it last started over
  events              \* presses of the SOS key and incoming calls so far

alarmInputs == <<featureSet, charging>>
keyFlags == <<powerKeyPressed, powerKeyHold1Sec, sosKeyPressed, events>>
alarmVars == <<featureSet, charging, alarm, resetFlag, alarmSos,
               initEmergencyCall, powerKeyPressed, powerKeyHold1Sec,
               sosKeyPressed, sosOn, callPhase, ioStep, silent, events>>

CallPhases == {"NO_CALL", "INCOMING_CALL", "IN_CALLING"}
IoSteps == {"powerKey", "reset", "resetWarnings", "endSos", "dispatch", "sosTask", "callWarnings"}

\* The counters of an alarm that starts over.
Fresh(a) == [active |-> FALSE, interval |-> Interval[a], countdown |-> Countdown + 1]

AlarmInit ==
  /\ featureSet \in FeatureSets
  /\ charging \in BOOLEAN
  /\ alarm = [a \in Alarm |-> [active |-> FALSE, interval |-> 0, countdown |-> 0]]
  /\ resetFlag = [a \in Alarm |-> TRUE]
  /\ alarmSos = [a \in Alarm |-> FALSE]
  /\ initEmergencyCall = FALSE
  /\ powerKeyPressed = FALSE
  /\ powerKeyHold1Sec = FALSE
  /\ sosKeyPressed = FALSE
  /\ sosOn = FALSE
  /\ callPhase = "NO_CALL"
  /\ ioStep = "powerKey"
  /\ silent = [a \in Alarm |-> 0]
  /\ events = 0

-----------------------------------------------------------------------------
\* The interrupt.

\* The alarms that count: no movement only without man down, man down only
\* off the charger.
Counting(a) ==
  /\ a \in featureSet
  /\ a = "noMovement" => "manDown" \notin featureSet
  /\ a = "manDown" => ~charging

\* Mutant: a reset takes the warning back, but not the interval counted.
RestartedStale(a) == IF resetFlag[a] THEN [alarm[a] EXCEPT !.active = FALSE] ELSE alarm[a]

\* An alarm as the block of its reset flag leaves it.
Restarted(a) == IF resetFlag[a] THEN Fresh(a) ELSE alarm[a]

\* Its warning has run out.
Expires(a) == Counting(a) /\ Restarted(a).active /\ Restarted(a).countdown = 0

\* An alarm after its own block of the second.
Counted(a) ==
  LET c == Restarted(a)
  IN  CASE ~ Counting(a)                      -> Fresh(a)
        [] Expires(a)                         -> [c EXCEPT !.active = FALSE]
        [] Counting(a) /\ c.active /\ c.countdown # 0
                                              -> [c EXCEPT !.countdown = @ - 1]
        [] Counting(a) /\ ~c.active /\ c.interval # 0
                                              -> [c EXCEPT !.interval = @ - 1]
        [] OTHER                              -> [Fresh(a) EXCEPT !.active = TRUE]

\* Mutant: the reset flags stay set.
LPTimerTaskKeepsFlags ==
  /\ alarm' = [a \in Alarm |-> Counted(a)]
  /\ resetFlag' = [a \in Alarm |-> resetFlag[a] \/ Expires(a)]
  /\ alarmSos' = [a \in Alarm |-> alarmSos[a] \/ Expires(a)]
  /\ initEmergencyCall' = (initEmergencyCall \/ \E a \in Alarm : Expires(a))
  /\ silent' = [a \in Alarm |-> IF ~Counting(a) \/ Expires(a) THEN 0 ELSE silent[a] + 1]
  /\ UNCHANGED <<alarmInputs, keyFlags, sosOn, callPhase, ioStep>>

LPTimerTask ==
  /\ alarm' = [a \in Alarm |-> Counted(a)]
  /\ resetFlag' = [a \in Alarm |-> Expires(a)]
  /\ alarmSos' = [a \in Alarm |-> alarmSos[a] \/ Expires(a)]
  /\ initEmergencyCall' = (initEmergencyCall \/ \E a \in Alarm : Expires(a))
  /\ silent' = [a \in Alarm |-> IF ~Counting(a) \/ Expires(a) THEN 0 ELSE silent[a] + 1]
  /\ UNCHANGED <<alarmInputs, keyFlags, sosOn, callPhase, ioStep>>

-----------------------------------------------------------------------------
\* The main loop.

\* The flags of A are set: the next second starts these alarms over.
StartOver(A) ==
  /\ resetFlag' = [a \in Alarm |-> resetFlag[a] \/ a \in A]
  /\ silent' = [a \in Alarm |-> IF a \in A THEN 0 ELSE silent[a]]

ResetAllAlarmWarning ==
  /\ alarm' = [a \in Alarm |-> [alarm[a] EXCEPT !.active = FALSE]]
  /\ StartOver(Alarm)

\* The power key: it dismisses an active alarm, and ends an SOS.
PowerKey ==
  /\ ioStep = "powerKey"
  /\ powerKeyPressed' = FALSE
  /\ ioStep' = IF ~powerKeyPressed THEN "dispatch"
               ELSE IF \E a \in Alarm : alarm[a].active THEN "reset"
               ELSE "endSos"
  /\ UNCHANGED <<alarmInputs, alarm, resetFlag, alarmSos, initEmergencyCall,
                 powerKeyHold1Sec, sosKeyPressed, sosOn, callPhase, silent, events>>

\* SosTask_Reset forgets which alarms went off, but not initEmergencyCall.
SosTask_Reset ==
  /\ ioStep = "reset"
  /\ alarmSos' = [a \in Alarm |-> FALSE]
  /\ ioStep' = "resetWarnings"
  /\ UNCHANGED <<alarmInputs, alarm, resetFlag, initEmergencyCall, keyFlags,
                 sosOn, callPhase, silent>>

SosTask_ResetWarnings ==
  /\ ioStep = "resetWarnings"
  /\ ResetAllAlarmWarning
  /\ ioStep' = "endSos"
  /\ UNCHANGED <<alarmInputs, alarmSos, initEmergencyCall, keyFlags, sosOn, callPhase>>

\* The rest of the power key: SosTask_End when there is an SOS, and hang up.
SosTask_End ==
  /\ ioStep = "endSos"
  /\ IF sosOn
     THEN ResetAllAlarmWarning /\ powerKeyHold1Sec' = FALSE
     ELSE UNCHANGED <<alarm, resetFlag, silent, powerKeyHold1Sec>>
  /\ sosOn' = FALSE
  /\ callPhase' = "NO_CALL"
  /\ ioStep' = "dispatch"
  /\ UNCHANGED <<alarmInputs, alarmSos, initEmergencyCall, powerKeyPressed,
                 sosKeyPressed, events>>

SosTask_Start ==
  /\ ResetAllAlarmWarning
  /\ sosOn' = TRUE

\* Io_Task looks at keys and alarms only outside calls and emergencies.
CanDispatch == ioStep = "dispatch" /\ callPhase # "IN_CALLING" /\ ~sosOn

\* The SOS key, without a ring (Wakeup) and without an incoming call.
SosKeyStarts ==
  /\ CanDispatch /\ sosKeyPressed /\ callPhase = "NO_CALL"
  /\ sosKeyPressed' = FALSE
  /\ SosTask_Start
  /\ ioStep' = "sosTask"
  /\ UNCHANGED <<alarmInputs, alarmSos, initEmergencyCall, powerKeyPressed,
                 powerKeyHold1Sec, callPhase, events>>

\* The SOS key with an incoming call, or while a ring is being timed.
SosKeyAnswers ==
  /\ CanDispatch /\ sosKeyPressed
  /\ sosKeyPressed' = FALSE
  /\ ioStep' = "sosTask"
  /\ UNCHANGED <<alarmInputs, alarm, resetFlag, alarmSos, initEmergencyCall,
                 powerKeyPressed, powerKeyHold1Sec, sosOn, callPhase, silent, events>>

\* Mutant: a call that is coming in is left first, and the request is gone.
InitEmergencyCallLost ==
  /\ CanDispatch /\ ~sosKeyPressed /\ initEmergencyCall
  /\ initEmergencyCall' = FALSE
  /\ alarmSos' = [a \in Alarm |-> FALSE]
  /\ IF callPhase = "INCOMING_CALL" THEN UNCHANGED <<alarm, resetFlag, silent, sosOn>>
     ELSE SosTask_Start
  /\ ioStep' = "sosTask"
  /\ UNCHANGED <<alarmInputs, keyFlags, callPhase>>

\* The emergency an alarm raised; it is put down to the first alarm, in the
\* order of the tests, that has gone off.
InitEmergencyCall ==
  /\ CanDispatch /\ ~sosKeyPressed /\ initEmergencyCall
  /\ initEmergencyCall' = FALSE
  /\ alarmSos' = [alarmSos EXCEPT
       !["loneWorker"] = FALSE,
       !["noMovement"] = alarmSos["noMovement"] /\ alarmSos["loneWorker"],
       !["manDown"]    = alarmSos["manDown"]
                           /\ (alarmSos["loneWorker"] \/ alarmSos["noMovement"])]
  /\ SosTask_Start
  /\ ioStep' = "sosTask"
  /\ UNCHANGED <<alarmInputs, keyFlags, callPhase>>

\* The power key held for a second resets the alarms that do not warn yet.
PowerKeyHold1Sec ==
  /\ CanDispatch /\ ~sosKeyPressed /\ ~initEmergencyCall /\ powerKeyHold1Sec
  /\ powerKeyHold1Sec' = FALSE
  /\ alarmSos' = [a \in Alarm |-> FALSE]
  /\ ResetAllAlarmWarning
  /\ ioStep' = "sosTask"
  /\ UNCHANGED <<alarmInputs, initEmergencyCall, powerKeyPressed, sosKeyPressed,
                 sosOn, callPhase, events>>

\* Nothing to do, a prompt that goes before powerKeyHold1Sec, or a call or an
\* SOS is active.
NothingToDispatch ==
  /\ ioStep = "dispatch"
  /\ CanDispatch => ~sosKeyPressed /\ ~initEmergencyCall
  /\ ioStep' = "sosTask"
  /\ UNCHANGED <<alarmInputs, alarm, resetFlag, alarmSos, initEmergencyCall,
                 keyFlags, sosOn, callPhase, silent>>

\* VoiceCall_Task: every turn of a call outside an SOS is a SosTask_Reset.
CallResets ==
  /\ ioStep = "sosTask" /\ callPhase = "IN_CALLING" /\ ~sosOn
  /\ alarmSos' = [a \in Alarm |-> FALSE]
  /\ ioStep' = "callWarnings"
  /\ UNCHANGED <<alarmInputs, alarm, resetFlag, initEmergencyCall, keyFlags,
                 sosOn, callPhase, silent>>

CallResetsWarnings ==
  /\ ioStep = "callWarnings"
  /\ ResetAllAlarmWarning
  /\ ioStep' = "powerKey"
  /\ UNCHANGED <<alarmInputs, alarmSos, initEmergencyCall, keyFlags, sosOn, callPhase>>

\* Sos_Task holds the alarms back while its SOS lasts.
SosTaskTurn ==
  /\ ioStep = "sosTask" /\ (sosOn \/ callPhase # "IN_CALLING")
  /\ IF sosOn THEN StartOver(Alarm) ELSE UNCHANGED <<resetFlag, silent>>
  /\ ioStep' = "powerKey"
  /\ UNCHANGED <<alarmInputs, alarm, alarmSos, initEmergencyCall, keyFlags,
                 sosOn, callPhase>>

\* Its last phase resets the alarms; an SOS that fails early ends without.
SosComesToEnd ==
  /\ ioStep = "sosTask" /\ sosOn
  /\ sosOn' = FALSE
  /\ ioStep' = "powerKey"
  /\ ResetAllAlarmWarning \/ UNCHANGED <<alarm, resetFlag, silent>>
  /\ UNCHANGED <<alarmInputs, alarmSos, initEmergencyCall, keyFlags, callPhase>>

Io_Task ==
  \/ PowerKey \/ SosTask_Reset \/ SosTask_ResetWarnings \/ SosTask_End
  \/ SosKeyStarts \/ SosKeyAnswers \/ InitEmergencyCall \/ PowerKeyHold1Sec
  \/ NothingToDispatch \/ CallResets \/ CallResetsWarnings \/ SosTaskTurn \/ SosComesToEnd

-----------------------------------------------------------------------------
\* The wearer, the charger, the network and whoever configures the device.

PressPowerKey ==
  /\ powerKeyPressed' = TRUE
  /\ powerKeyHold1Sec' \in BOOLEAN
  /\ UNCHANGED <<alarmInputs, alarm, resetFlag, alarmSos, initEmergencyCall,
                 sosKeyPressed, sosOn, callPhase, ioStep, silent, events>>

PressSosKey ==
  /\ events < MaxEvents
  /\ events' = events + 1
  /\ sosKeyPressed' = TRUE
  /\ UNCHANGED <<alarmInputs, alarm, resetFlag, alarmSos, initEmergencyCall,
                 powerKeyPressed, powerKeyHold1Sec, sosOn, callPhase, ioStep, silent>>

\* The pedometer sees the wearer move.
Move ==
  /\ StartOver({"noMovement", "manDown"})
  /\ UNCHANGED <<alarmInputs, alarm, alarmSos, initEmergencyCall, keyFlags,
                 sosOn, callPhase, ioStep>>

\* A new configuration starts the alarms it turns on over.
CFG_Save ==
  /\ featureSet' \in FeatureSets
  /\ StartOver(featureSet')
  /\ UNCHANGED <<charging, alarm, alarmSos, initEmergencyCall, keyFlags,
                 sosOn, callPhase, ioStep>>

Charger ==
  /\ charging' = ~charging
  /\ UNCHANGED <<featureSet, alarm, resetFlag, alarmSos, initEmergencyCall,
                 keyFlags, sosOn, callPhase, ioStep, silent>>

CallBegins ==
  /\ callPhase = "NO_CALL"
  /\ events < MaxEvents
  /\ events' = events + 1
  /\ callPhase' = "INCOMING_CALL"
  /\ UNCHANGED <<alarmInputs, alarm, resetFlag, alarmSos, initEmergencyCall,
                 powerKeyPressed, powerKeyHold1Sec, sosKeyPressed, sosOn, ioStep, silent>>

CallAnswered ==
  /\ callPhase = "INCOMING_CALL"
  /\ callPhase' = "IN_CALLING"
  /\ UNCHANGED <<alarmInputs, alarm, resetFlag, alarmSos, initEmergencyCall,
                 keyFlags, sosOn, ioStep, silent>>

CallEnds ==
  /\ callPhase # "NO_CALL"
  /\ callPhase' = "NO_CALL"
  /\ UNCHANGED <<alarmInputs, alarm, resetFlag, alarmSos, initEmergencyCall,
                 keyFlags, sosOn, ioStep, silent>>

World ==
  \/ PressPowerKey \/ PressSosKey \/ Move \/ CFG_Save \/ Charger
  \/ CallBegins \/ CallAnswered \/ CallEnds

AlarmNext == LPTimerTask \/ Io_Task \/ World

AlarmSpec == AlarmInit /\ [][AlarmNext]_alarmVars

\* The main loop runs on, an SOS reaches its last phase (SosTask:
\* SosComesToRest), a call ends.
AlarmFairness ==
  /\ WF_alarmVars(Io_Task)
  /\ SF_alarmVars(SosComesToEnd)
  /\ WF_alarmVars(CallEnds)

-----------------------------------------------------------------------------
\* From the second that starts an alarm over to the one in which it goes off.
Patience(a) == Interval[a] + Countdown + 2

\* An alarm goes off only when nobody has given a sign of life, its feature
\* has not been off, nor the device on the charger for man down, for the whole
\* interval and the whole warning: no reset is lost between the main loop
\* and the interrupt, whatever the order of their steps.
AlarmNeedsSilence ==
  [][\A a \in Alarm : alarmSos'[a] /\ ~alarmSos[a] => silent[a] >= Patience(a)]_alarmVars

\* An alarm that counts goes off after that time: none is skipped.
AlarmNotLate == \A a \in Alarm : silent[a] <= Patience(a)

\* An emergency an alarm raises becomes an SOS, even when it comes up during
\* a call or while the key of an earlier alarm is handled.
EmergencyStartsSos == initEmergencyCall ~> sosOn
=============================================================================
