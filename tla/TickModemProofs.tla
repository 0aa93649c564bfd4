-------------------------- MODULE TickModemProofs --------------------------
(***************************************************************************)
(* The timer interrupt (tick.c) in its three parts, which share no state,  *)
(* and the modem that is brought up (Registration).                        *)
(* An alarm counts what it should: its counters and the silence of its     *)
(* wearer add up to its patience, at every step and for all intervals.     *)
(* What is remembered of a key's press is how long it was, so that a       *)
(* gesture is made of the presses it belongs to.  A pulse of the ring pin  *)
(* alone is no call.  A modem with coverage has been configured.           *)
(***************************************************************************)
EXTENDS Alarms, Keys, Wakeup, Registration, TLAPS

Counters == [active : BOOLEAN, interval : Nat, countdown : Nat]

AlarmTypeOK ==
  /\ alarm \in [Alarm -> Counters]
  /\ resetFlag \in [Alarm -> BOOLEAN]
  /\ alarmSos \in [Alarm -> BOOLEAN]
  /\ silent \in [Alarm -> Nat]

\* What is left to count and the silence so far make up the time an alarm
\* takes; with its flag set it has not begun.
AddsUp(a) ==
  IF resetFlag[a] THEN silent[a] = 0
  ELSE IF alarm[a].active THEN silent[a] + alarm[a].countdown = Patience(a)
  ELSE silent[a] + alarm[a].interval = Interval[a]

AlarmInv == AlarmTypeOK /\ \A a \in Alarm : AddsUp(a)

\* One second, for one alarm: it goes off exactly when its patience is over.
LEMMA SecondCounts ==
  ASSUME AlarmInv, NEW a \in Alarm
  PROVE  /\ Restarted(a) \in Counters
         /\ Counted(a) \in Counters
         /\ Expires(a) => ~resetFlag[a] /\ silent[a] = Patience(a)
         /\ Counting(a) /\ ~Expires(a) =>
              IF Counted(a).active
              THEN silent[a] + 1 + Counted(a).countdown = Patience(a)
              ELSE silent[a] + 1 + Counted(a).interval = Interval[a]
         /\ ~Counting(a) => ~Counted(a).active /\ Counted(a).interval = Interval[a]
<1> USE AlarmAssumption
<1>1. Interval[a] \in Nat /\ Countdown \in Nat /\ alarm[a] \in Counters /\ silent[a] \in Nat
      /\ resetFlag[a] \in BOOLEAN
  BY DEF AlarmInv, AlarmTypeOK
<1>2. Fresh(a) \in Counters
  BY <1>1 DEF Fresh, Counters
<1>3. Restarted(a) \in Counters
  BY <1>1, <1>2 DEF Restarted
<1>4. AddsUp(a)
  BY DEF AlarmInv
<1>5. Expires(a) => ~resetFlag[a] /\ silent[a] = Patience(a)
  BY <1>1, <1>4 DEF Expires, Restarted, Fresh, AddsUp, Patience, Counters
<1>6. CASE ~Counting(a)
  BY <1>1, <1>2, <1>3, <1>5, <1>6 DEF Counted, Expires, Fresh
<1>7. CASE Counting(a) /\ Expires(a)
  <2>1. Counted(a) = [Restarted(a) EXCEPT !.active = FALSE]
    BY <1>7 DEF Counted, Expires
  <2> QED BY <1>1, <1>3, <1>5, <1>7, <2>1 DEF Counters
<1>8. CASE Counting(a) /\ ~Expires(a) /\ Restarted(a).active
  <2>1. ~resetFlag[a] /\ alarm[a].active /\ Restarted(a) = alarm[a]
    BY <1>8 DEF Restarted, Fresh
  <2>2. alarm[a].countdown # 0
    BY <1>8, <2>1 DEF Expires
  <2>3. Counted(a) = [alarm[a] EXCEPT !.countdown = @ - 1]
    BY <1>8, <2>1, <2>2 DEF Counted
  <2> QED BY <1>1, <1>3, <1>4, <1>5, <1>8, <2>1, <2>2, <2>3 DEF AddsUp, Patience, Counters
<1>9. CASE Counting(a) /\ ~Restarted(a).active /\ Restarted(a).interval # 0
  <2>1. Counted(a) = [Restarted(a) EXCEPT !.interval = @ - 1]
    BY <1>9 DEF Counted, Expires
  <2>2. silent[a] + Restarted(a).interval = Interval[a]
    BY <1>1, <1>4, <1>9 DEF AddsUp, Restarted, Fresh
  <2> QED BY <1>1, <1>3, <1>5, <1>9, <2>1, <2>2 DEF Counters
<1>10. CASE Counting(a) /\ ~Restarted(a).active /\ Restarted(a).interval = 0
  <2>1. Counted(a) = [active |-> TRUE, interval |-> Interval[a], countdown |-> Countdown + 1]
    BY <1>10 DEF Counted, Expires, Fresh
  <2>2. silent[a] = Interval[a]
    BY <1>1, <1>4, <1>10 DEF AddsUp, Restarted, Fresh
  <2> QED BY <1>1, <1>3, <1>5, <1>10, <2>1, <2>2 DEF Counters, Patience
<1>11. CASE Counting(a) /\ ~Restarted(a).active
  BY <1>9, <1>10, <1>11
<1> QED BY <1>6, <1>7, <1>8, <1>11

\* The other steps leave the silence and the warnings alone, or start alarms
\* over.
LEMMA StartsOver ==
  ASSUME AlarmInv, NEW A \in SUBSET Alarm, StartOver(A),
         \/ alarm' = alarm
         \/ A = Alarm /\ alarm' = [a \in Alarm |-> [alarm[a] EXCEPT !.active = FALSE]],
         alarmSos' \in [Alarm -> BOOLEAN]
  PROVE  AlarmInv'
<1>1. AlarmTypeOK'
  <2>1. alarm' \in [Alarm -> Counters]
    <3>1. ASSUME NEW a \in Alarm PROVE [alarm[a] EXCEPT !.active = FALSE] \in Counters
      <4>1. alarm[a] \in Counters
        BY DEF AlarmInv, AlarmTypeOK
      <4> QED BY <4>1 DEF Counters
    <3> QED BY <3>1 DEF AlarmInv, AlarmTypeOK
  <2> QED BY <2>1 DEF AlarmInv, AlarmTypeOK, StartOver
<1>2. ASSUME NEW a \in Alarm PROVE AddsUp(a)'
  <2>1. CASE a \in A
    BY <2>1 DEF StartOver, AddsUp, AlarmInv, AlarmTypeOK
  <2>2. CASE a \notin A
    <3>1. alarm' = alarm /\ AddsUp(a)
      BY <2>2 DEF AlarmInv
    <3>2. silent'[a] = silent[a] /\ resetFlag'[a] = resetFlag[a]
      BY <2>2 DEF StartOver, AlarmInv, AlarmTypeOK
    <3> QED BY <3>1, <3>2 DEF AddsUp, Patience
  <2> QED BY <2>1, <2>2
<1> QED BY <1>1, <1>2 DEF AlarmInv

\* The second keeps the sum.
LEMMA SecondAddsUp ==
  ASSUME AlarmInv, LPTimerTask
  PROVE  AlarmInv'
<1> USE AlarmAssumption
<1>1. AlarmTypeOK'
  <2>1. alarm' \in [Alarm -> Counters]
    BY SecondCounts DEF LPTimerTask
  <2>2. resetFlag' \in [Alarm -> BOOLEAN] /\ alarmSos' \in [Alarm -> BOOLEAN]
    BY DEF LPTimerTask, AlarmInv, AlarmTypeOK, Expires
  <2>3. silent' \in [Alarm -> Nat]
    BY DEF LPTimerTask, AlarmInv, AlarmTypeOK
  <2> QED BY <2>1, <2>2, <2>3 DEF AlarmTypeOK
<1>2. ASSUME NEW a \in Alarm PROVE AddsUp(a)'
  <2>1. /\ alarm'[a] = Counted(a) /\ resetFlag'[a] = Expires(a)
        /\ silent'[a] = IF ~Counting(a) \/ Expires(a) THEN 0 ELSE silent[a] + 1
    BY DEF LPTimerTask
  <2>2. CASE Expires(a)
    BY <2>1, <2>2 DEF AddsUp
  <2>3. CASE ~Expires(a) /\ ~Counting(a)
    BY <2>1, <2>3, SecondCounts DEF AddsUp, AlarmInv, AlarmTypeOK
  <2>4. CASE ~Expires(a) /\ Counting(a)
    BY <2>1, <2>4, SecondCounts DEF AddsUp, Patience
  <2> QED BY <2>2, <2>3, <2>4
<1> QED BY <1>1, <1>2 DEF AlarmInv

LEMMA AlarmsStart == AlarmInit => AlarmInv
BY AlarmAssumption DEF AlarmInit, AlarmInv, AlarmTypeOK, AddsUp, Counters

LEMMA AlarmsRest ==
  ASSUME AlarmInv, UNCHANGED <<alarm, resetFlag, silent>>, alarmSos' \in [Alarm -> BOOLEAN]
  PROVE  AlarmInv'
BY DEF AlarmInv, AlarmTypeOK, AddsUp, Patience

\* What every step of the main loop and of the world does to the alarms that
\* have gone off: none goes off there.
LEMMA OthersRaiseNone ==
  ASSUME AlarmInv, Io_Task \/ World
  PROVE  /\ alarmSos' \in [Alarm -> BOOLEAN]
         /\ \A a \in Alarm : alarmSos'[a] => alarmSos[a]
<1> alarmSos \in [Alarm -> BOOLEAN]
  BY DEF AlarmInv, AlarmTypeOK
<1>1. CASE World
  BY <1>1 DEF World, PressPowerKey, PressSosKey, Move, CFG_Save, Charger, CallBegins,
              CallAnswered, CallEnds
<1>2. CASE SosTask_Reset \/ PowerKeyHold1Sec \/ CallResets
  BY <1>2 DEF SosTask_Reset, PowerKeyHold1Sec, CallResets
<1>3. CASE InitEmergencyCall
  BY <1>3 DEF InitEmergencyCall, Alarm
<1>4. CASE \/ PowerKey \/ SosTask_ResetWarnings \/ SosTask_End \/ SosKeyStarts
           \/ SosKeyAnswers \/ NothingToDispatch \/ CallResetsWarnings
           \/ SosTaskTurn \/ SosComesToEnd
  BY <1>4 DEF PowerKey, SosTask_ResetWarnings, SosTask_End, SosKeyStarts,
              SosKeyAnswers, NothingToDispatch, CallResetsWarnings, SosTaskTurn,
              SosComesToEnd
<1> QED BY <1>1, <1>2, <1>3, <1>4 DEF Io_Task

\* Every step keeps the sum.
LEMMA AlarmsStep == AlarmInv /\ [AlarmNext]_alarmVars => AlarmInv'
<1> SUFFICES ASSUME AlarmInv, [AlarmNext]_alarmVars PROVE AlarmInv'
  OBVIOUS
<1>1. CASE LPTimerTask
  BY <1>1, SecondAddsUp
<1>2. CASE Io_Task
  <2>1. alarmSos' \in [Alarm -> BOOLEAN]
    BY <1>2, OthersRaiseNone
  <2>2. CASE ResetAllAlarmWarning
    BY <2>1, <2>2, StartsOver DEF ResetAllAlarmWarning
  <2>3. CASE \/ SosTask_ResetWarnings \/ SosKeyStarts \/ InitEmergencyCall \/ PowerKeyHold1Sec
             \/ CallResetsWarnings
             \/ SosTask_End /\ sosOn
    BY <2>2, <2>3 DEF SosTask_ResetWarnings, SosKeyStarts, InitEmergencyCall, PowerKeyHold1Sec,
                      CallResetsWarnings, SosTask_End, SosTask_Start
  <2>4. CASE SosTaskTurn /\ sosOn
    BY <2>1, <2>4, StartsOver DEF SosTaskTurn
  <2>5. CASE \/ PowerKey \/ SosTask_Reset \/ SosKeyAnswers \/ NothingToDispatch
             \/ CallResets
             \/ ~sosOn /\ (SosTask_End \/ SosTaskTurn)
             \/ SosComesToEnd /\ ~ResetAllAlarmWarning
    <3>1. UNCHANGED <<alarm, resetFlag, silent>>
      BY <2>5 DEF PowerKey, SosTask_Reset, SosKeyAnswers, NothingToDispatch, CallResets,
                  SosComesToEnd, SosTask_End, SosTaskTurn
    <3> QED BY <2>1, <3>1, AlarmsRest
  <2> QED BY <1>2, <2>2, <2>3, <2>4, <2>5 DEF Io_Task
<1>3. CASE World
  <2>1. alarmSos' \in [Alarm -> BOOLEAN]
    BY <1>3, OthersRaiseNone
  <2>2. CASE Move
    BY <2>1, <2>2, StartsOver DEF Move, Alarm
  <2>3. CASE CFG_Save
    <3>1. featureSet' \in SUBSET Alarm /\ StartOver(featureSet') /\ alarm' = alarm
      BY <2>3, AlarmAssumption DEF CFG_Save
    <3>2. PICK A \in SUBSET Alarm : A = featureSet'
      BY <3>1
    <3> QED BY <2>1, <3>1, <3>2, StartsOver
  <2>4. CASE \/ PressPowerKey \/ PressSosKey \/ Charger \/ CallBegins
             \/ CallAnswered \/ CallEnds
    <3>1. UNCHANGED <<alarm, resetFlag, silent>>
      BY <2>4 DEF PressPowerKey, PressSosKey, Charger, CallBegins, CallAnswered, CallEnds
    <3> QED BY <2>1, <3>1, AlarmsRest
  <2> QED BY <1>3, <2>2, <2>3, <2>4 DEF World
<1>4. CASE UNCHANGED alarmVars
  BY <1>4, AlarmsRest DEF alarmVars, AlarmInv, AlarmTypeOK
<1> QED BY <1>1, <1>2, <1>3, <1>4 DEF AlarmNext

\* Whatever keys, calls, movements and configurations do, counters and silence
\* of every alarm add up to what Interval and Countdown say.
THEOREM AlarmInvariant == AlarmSpec => []AlarmInv
BY AlarmsStart, AlarmsStep, PTL DEF AlarmSpec

\* No alarm that counts is later than its interval and its warning: LPTimerTask
\* skips none, for any interval and countdown.
THEOREM AlarmsAreNotLate == AlarmSpec => []AlarmNotLate
<1>1. ASSUME AlarmInv, NEW a \in Alarm PROVE silent[a] <= Patience(a)
  <2>1. /\ Interval[a] \in Nat /\ Countdown \in Nat /\ silent[a] \in Nat /\ resetFlag[a] \in BOOLEAN
        /\ alarm[a] \in Counters /\ AddsUp(a)
    BY <1>1, AlarmAssumption DEF AlarmInv, AlarmTypeOK
  <2> QED BY <2>1 DEF AddsUp, Patience, Counters
<1>2. AlarmInv => AlarmNotLate
  BY <1>1 DEF AlarmNotLate
<1> QED BY <1>2, AlarmInvariant, PTL

\* An alarm becomes an emergency only after a whole interval and a whole warning
\* without a sign of life.
THEOREM AlarmsNeedSilence == AlarmSpec => AlarmNeedsSilence
<1>1. AlarmInv /\ [AlarmNext]_alarmVars =>
        [\A a \in Alarm : alarmSos'[a] /\ ~alarmSos[a] => silent[a] >= Patience(a)]_alarmVars
  <2> SUFFICES ASSUME AlarmInv, AlarmNext, NEW a \in Alarm, alarmSos'[a], ~alarmSos[a]
               PROVE  silent[a] >= Patience(a)
    OBVIOUS
  <2>1. CASE LPTimerTask
    <3>1. Expires(a)
      BY <2>1 DEF LPTimerTask
    <3>2. silent[a] = Patience(a) /\ silent[a] \in Nat
      BY <3>1, SecondCounts DEF AlarmInv, AlarmTypeOK
    <3> QED BY <3>2
  <2>2. CASE Io_Task \/ World
    BY <2>2, OthersRaiseNone
  <2> QED BY <2>1, <2>2 DEF AlarmNext
<1> QED BY <1>1, AlarmInvariant, PTL DEF AlarmSpec, AlarmNeedsSilence
-----------------------------------------------------------------------------
\* The keys.  KeyState is what Seen and Past leave of a key.
KeyState == [down : BOOLEAN, time : Nat, lastDown : BOOLEAN, lastTime : Nat]

KeyTypeOK ==
  /\ key \in [Key -> KeyState]
  /\ pressed \in [Key -> Nat \union {-1}]
  /\ waiting \in Nat
  /\ raised \subseteq Flag

\* While a key is held its time is that of its press; while it is up and the
\* other is held, its last press counts, by its length, or is forgotten.
PressKept(k) ==
  IF key[k].down THEN pressed[k] = key[k].time
  ELSE (\E i \in Key : key[i].down) =>
         IF key[k].lastDown THEN pressed[k] = key[k].lastTime ELSE pressed[k] = -1

\* A key that is held, or a press that made no gesture, has cleared the flags;
\* the key that came up last has been up for as long as both are.
KeyInv ==
  /\ KeyTypeOK
  /\ \A k \in Key : PressKept(k)
  /\ (\E k \in Key : key[k].down \/ key[k].lastDown) => raised = {}
  /\ (\A k \in Key : ~key[k].down) => \E k \in Key : key[k].time = waiting

Goes(k, down) == down[k] /\ ~key[k].down

\* The other key goes down while k is up: its last press is past.
Passes(k, down) ==
  IF k = "sos" THEN Goes("pwr", down) /\ ~down["sos"]
  ELSE Goes("sos", down) /\ ~down["pwr"] /\ ~key["pwr"].down

\* One turn, for each key: what it leaves of its last press.
LEMMA TurnOfKeys ==
  ASSUME KeyTypeOK, NEW down \in [Key -> BOOLEAN]
  PROVE  /\ Polled(down) \in [Key -> KeyState]
         /\ \A k \in Key :
              LET seen == Polled(down)[k]
                  stays == down[k] <=> key[k].down
              IN  /\ seen.down <=> down[k]
                  /\ seen.time = IF stays THEN Longer(key[k].time) ELSE 0
                  /\ seen.lastDown <=>
                       ~Passes(k, down) /\ (IF stays THEN key[k].lastDown ELSE key[k].down)
                  /\ seen.lastTime =
                       IF Passes(k, down) THEN 0
                       ELSE IF stays THEN key[k].lastTime ELSE key[k].time
<1> USE KeysAssumption
<1> DEFINE sos == Seen(key["sos"], down["sos"])
           past == Past(key["pwr"], sos, key["sos"].down)
           pwr == Seen(past, down["pwr"])
           seen == Polled(down)
<1>1. /\ key["sos"] \in KeyState /\ key["pwr"] \in KeyState
      /\ down["sos"] \in BOOLEAN /\ down["pwr"] \in BOOLEAN
  BY DEF KeyTypeOK, Key
<1>2. \A t \in Nat : Longer(t) \in Nat
  BY DEF Longer
<1>3. seen["sos"] = Past(sos, pwr, key["pwr"].down) /\ seen["pwr"] = pwr
  BY DEF Polled, Key
<1>4. ASSUME NEW k \in KeyState, NEW d \in BOOLEAN
      PROVE  /\ Seen(k, d) \in KeyState
             /\ Seen(k, d).down <=> d
             /\ (d <=> k.down) => /\ Seen(k, d).time = Longer(k.time)
                                  /\ Seen(k, d).lastDown <=> k.lastDown
                                  /\ Seen(k, d).lastTime = k.lastTime
             /\ ~(d <=> k.down) => /\ Seen(k, d).time = 0
                                   /\ Seen(k, d).lastDown <=> k.down
                                   /\ Seen(k, d).lastTime = k.time
  <2>1. CASE d <=> k.down
    <3>1. Seen(k, d) = [k EXCEPT !.time = Longer(@)]
      BY <2>1 DEF Seen, KeyState
    <3> QED BY <1>2, <2>1, <3>1 DEF KeyState
  <2>2. CASE ~(d <=> k.down)
    <3>1. Seen(k, d) = [down |-> d, time |-> 0, lastDown |-> k.down, lastTime |-> k.time]
      BY <2>2 DEF Seen, KeyState
    <3> QED BY <2>2, <3>1 DEF KeyState
  <2> QED BY <2>1, <2>2
<1>5. ASSUME NEW o \in KeyState
      PROVE  /\ ClearLastKeyStatus(o) \in KeyState
             /\ ClearLastKeyStatus(o).down <=> o.down
             /\ ClearLastKeyStatus(o).time = o.time
             /\ ~ClearLastKeyStatus(o).lastDown
             /\ ClearLastKeyStatus(o).lastTime = 0
  BY DEF ClearLastKeyStatus, KeyState
<1>6. sos \in KeyState
  BY <1>1, <1>4
<1>7. /\ past \in KeyState /\ (past.down <=> key["pwr"].down)
      /\ past = IF sos.down /\ ~key["sos"].down /\ ~key["pwr"].down
                THEN ClearLastKeyStatus(key["pwr"]) ELSE key["pwr"]
  <2> HIDE DEF sos
  <2>1. past = IF sos.down /\ ~key["sos"].down /\ ~key["pwr"].down
               THEN ClearLastKeyStatus(key["pwr"]) ELSE key["pwr"]
    BY DEF Past
  <2> HIDE DEF past
  <2> QED BY <1>1, <1>5, <2>1
<1>8. pwr \in KeyState
  BY <1>1, <1>4, <1>7
<1>9. /\ Past(sos, pwr, key["pwr"].down) \in KeyState
      /\ Past(sos, pwr, key["pwr"].down) =
           IF pwr.down /\ ~key["pwr"].down /\ ~sos.down THEN ClearLastKeyStatus(sos) ELSE sos
  <2> HIDE DEF sos, pwr
  <2>1. Past(sos, pwr, key["pwr"].down) =
          IF pwr.down /\ ~key["pwr"].down /\ ~sos.down THEN ClearLastKeyStatus(sos) ELSE sos
    BY DEF Past
  <2> QED BY <1>5, <1>6, <2>1
<1>10. seen \in [Key -> KeyState]
  <2>1. seen = [k \in Key |-> IF k = "sos" THEN Past(sos, pwr, key["pwr"].down) ELSE pwr]
    BY DEF Polled
  <2> HIDE DEF seen, sos, pwr
  <2> QED BY <1>8, <1>9, <2>1
<1>11. (pwr.down <=> down["pwr"]) /\ (sos.down <=> down["sos"])
  BY <1>1, <1>4, <1>7
<1> SUFFICES ASSUME NEW k \in Key
             PROVE  LET stays == down[k] <=> key[k].down
                    IN  /\ seen[k].down <=> down[k]
                        /\ seen[k].time = IF stays THEN Longer(key[k].time) ELSE 0
                        /\ seen[k].lastDown <=>
                             ~Passes(k, down) /\ (IF stays THEN key[k].lastDown ELSE key[k].down)
                        /\ seen[k].lastTime =
                             IF Passes(k, down) THEN 0
                             ELSE IF stays THEN key[k].lastTime ELSE key[k].time
  BY <1>10
<1>12. CASE k = "sos"
  <2> DEFINE q == Past(sos, pwr, key["pwr"].down)
  <2>1. /\ (q.down <=> sos.down) /\ q.time = sos.time
        /\ pwr.down /\ ~key["pwr"].down /\ ~sos.down => ~q.lastDown /\ q.lastTime = 0
        /\ ~(pwr.down /\ ~key["pwr"].down /\ ~sos.down) => q = sos
    <3>1. q = IF pwr.down /\ ~key["pwr"].down /\ ~sos.down THEN ClearLastKeyStatus(sos) ELSE sos
      BY <1>9
    <3> HIDE DEF q, sos, pwr
    <3> QED BY <1>5, <1>6, <3>1
  <2>2. seen[k] = q
    BY <1>3, <1>12
  <2>3. Passes(k, down) <=> pwr.down /\ ~key["pwr"].down /\ ~sos.down
    BY <1>11, <1>12 DEF Passes, Goes
  <2>4. sos = Seen(key[k], down[k]) /\ key[k] \in KeyState /\ down[k] \in BOOLEAN
    BY <1>1, <1>12
  <2> HIDE DEF q, sos, pwr, seen
  <2>5. CASE down[k] <=> key[k].down
    BY <1>4, <2>1, <2>2, <2>3, <2>4, <2>5
  <2>6. CASE ~(down[k] <=> key[k].down)
    BY <1>4, <2>1, <2>2, <2>3, <2>4, <2>6
  <2> QED BY <2>5, <2>6
<1>13. CASE k = "pwr"
  <2>1. /\ past.time = key[k].time
        /\ sos.down /\ ~key["sos"].down /\ ~key[k].down => ~past.lastDown /\ past.lastTime = 0
        /\ ~(sos.down /\ ~key["sos"].down /\ ~key[k].down) => past = key[k]
    <3> HIDE DEF past, sos
    <3> QED BY <1>1, <1>5, <1>7, <1>13
  <2>2. Passes(k, down) <=> sos.down /\ ~key["sos"].down /\ ~down[k] /\ ~key[k].down
    BY <1>11, <1>13 DEF Passes, Goes
  <2>3. seen[k] = Seen(past, down[k]) /\ down[k] \in BOOLEAN
    BY <1>1, <1>3, <1>13
  <2>4. (past.down <=> key[k].down) /\ past \in KeyState
    BY <1>7, <1>13
  <2> HIDE DEF past, sos, pwr, seen
  <2>5. CASE down[k] <=> key[k].down
    BY <1>4, <2>1, <2>2, <2>3, <2>4, <2>5
  <2>6. CASE ~(down[k] <=> key[k].down)
    BY <1>4, <2>1, <2>2, <2>3, <2>4, <2>6
  <2> QED BY <2>5, <2>6
<1> QED BY <1>12, <1>13 DEF Key

LEMMA KeysStart == KeysInit => KeyInv
BY DEF KeysInit, KeyInv, KeyTypeOK, KeyState, PressKept, Key

\* A turn of the interrupt keeps the invariant, makes what the presses mean,
\* and takes a gesture away only after its time.
LEMMA TurnKeeps ==
  ASSUME KeyInv, KeyTask_Control
  PROVE  /\ KeyInv'
         /\ (\E k \in Key : key[k].down) /\ (\A k \in Key : ~key'[k].down) =>
              raised' = Meaning(pressed)
         /\ ~(raised \subseteq raised') => (\E k \in Key : key'[k].down) \/ waiting' > Hold3
<1> USE KeysAssumption
<1> PICK down \in [Key -> BOOLEAN] :
      LET seen == Polled(down)
          made == IF \E k \in Key : seen[k].down THEN {} ELSE Gestures(seen)
      IN  /\ key' = [k \in Key |-> IF made # {} /\ seen[k].lastDown
                                 THEN ClearLastKeyStatus(seen[k]) ELSE seen[k]]
          /\ raised' = (IF Cleared(seen) THEN {} ELSE raised) \union made
          /\ pressed' = [k \in Key |->
               IF down[k] THEN IF key[k].down THEN Longer(pressed[k]) ELSE 0
               ELSE IF (\A i \in Key : ~key[i].down) \/ (k = "sos" /\ PwrGoes(down)) THEN -1
               ELSE pressed[k]]
          /\ waiting' = IF \E k \in Key : down[k] \/ key[k].down THEN 0 ELSE Longer(waiting)
  BY DEF KeyTask_Control
<1> DEFINE seen == Polled(down)
           made == IF \E k \in Key : seen[k].down THEN {} ELSE Gestures(seen)
<1>1. KeyTypeOK /\ \A k \in Key : PressKept(k)
  BY DEF KeyInv
<1>2. seen \in [Key -> KeyState]
  BY <1>1, TurnOfKeys
<1>3. \A k \in Key :
        LET stays == down[k] <=> key[k].down
        IN  /\ seen[k].down <=> down[k]
            /\ seen[k].time = IF stays THEN Longer(key[k].time) ELSE 0
            /\ seen[k].lastDown <=>
                 ~Passes(k, down) /\ (IF stays THEN key[k].lastDown ELSE key[k].down)
            /\ seen[k].lastTime =
                 IF Passes(k, down) THEN 0
                 ELSE IF stays THEN key[k].lastTime ELSE key[k].time
  BY <1>1, TurnOfKeys
<1> HIDE DEF seen
<1>4. \A t \in Nat : Longer(t) \in Nat
  BY DEF Longer
<1>5. Gestures(seen) \subseteq Flag
  BY DEF Gestures, Hold, Flag
<1>6. made \subseteq Flag /\ (made # {} => \A k \in Key : ~seen[k].down)
  BY <1>5
<1>7. /\ key' = [k \in Key |-> IF made # {} /\ seen[k].lastDown
                              THEN ClearLastKeyStatus(seen[k]) ELSE seen[k]]
      /\ raised' = (IF Cleared(seen) THEN {} ELSE raised) \union made
  BY DEF seen
<1> HIDE DEF made
<1>8. \A k \in Key : /\ key'[k].down <=> seen[k].down
                     /\ key'[k].time = seen[k].time
                     /\ key'[k].lastDown <=> seen[k].lastDown /\ made = {}
                     /\ made = {} => key'[k] = seen[k]
  BY <1>2, <1>7 DEF ClearLastKeyStatus, KeyState
<1>9. KeyTypeOK'
  <2>1. key' \in [Key -> KeyState]
    <3>1. \A k \in Key : seen[k] \in KeyState /\ ClearLastKeyStatus(seen[k]) \in KeyState
      BY <1>2 DEF ClearLastKeyStatus, KeyState
    <3> QED BY <1>7, <3>1
  <2>2. pressed' \in [Key -> Nat \union {-1}]
    <3>1. \A k \in Key : key[k].down => pressed[k] \in Nat
      BY <1>1 DEF PressKept, KeyTypeOK, KeyState
    <3> QED BY <1>1, <1>4, <3>1 DEF KeyTypeOK
  <2>3. waiting' \in Nat
    BY <1>1, <1>4 DEF KeyTypeOK
  <2>4. raised' \subseteq Flag
    BY <1>1, <1>6, <1>7 DEF KeyTypeOK
  <2> QED BY <2>1, <2>2, <2>3, <2>4 DEF KeyTypeOK
<1>10. ASSUME NEW k \in Key PROVE PressKept(k)'
  <2>1. PressKept(k) /\ key[k] \in KeyState /\ pressed[k] \in Nat \union {-1}
    BY <1>1 DEF KeyTypeOK
  <2>2. CASE down[k]
    <3>1. key'[k].down /\ key'[k].time = IF key[k].down THEN Longer(key[k].time) ELSE 0
      BY <1>3, <1>8, <2>2
    <3>2. pressed'[k] = IF key[k].down THEN Longer(pressed[k]) ELSE 0
      BY <2>2
    <3> QED BY <2>1, <3>1, <3>2 DEF PressKept
  <2>3. CASE ~down[k] /\ \E i \in Key : down[i]
    <3>1. made = {} /\ ~key'[k].down /\ key'[k] = seen[k]
      BY <1>3, <1>6, <1>8, <2>3
    <3>2. PICK i \in Key : down[i] /\ i # k
      BY <2>3
    <3>3. Passes(k, down) <=> Goes(i, down) /\ (k = "pwr" => ~key[k].down)
      BY <2>3, <3>2 DEF Passes, Key
    <3>4. pressed'[k] = IF (\A j \in Key : ~key[j].down) \/ (k = "sos" /\ PwrGoes(down))
                        THEN -1 ELSE pressed[k]
      BY <2>3
    <3>5. CASE key[k].down
      <4>1. pressed[k] = key[k].time
        BY <2>1, <3>5 DEF PressKept
      <4>2. (k = "sos" /\ PwrGoes(down)) <=> Passes(k, down)
        BY <3>2, <3>3, <3>5 DEF PwrGoes, Goes, Key
      <4>3. (seen[k].lastDown <=> ~Passes(k, down)) /\ (~Passes(k, down) => seen[k].lastTime = key[k].time)
        BY <1>3, <2>3, <3>5
      <4> QED BY <3>1, <3>4, <3>5, <4>1, <4>2, <4>3 DEF PressKept
    <3>6. CASE ~key[k].down
      <4>1. Passes(k, down) <=> ~key[i].down
        BY <3>2, <3>3, <3>6 DEF Goes
      <4>2. (\A j \in Key : ~key[j].down) <=> ~key[i].down
        BY <3>2, <3>6 DEF Key
      <4>3. k = "sos" /\ PwrGoes(down) => ~key[i].down
        BY <3>2 DEF PwrGoes, Key
      <4>4. /\ seen[k].lastDown <=> ~Passes(k, down) /\ key[k].lastDown
            /\ ~Passes(k, down) => seen[k].lastTime = key[k].lastTime
        BY <1>3, <2>3, <3>6
      <4>5. key[i].down => IF key[k].lastDown THEN pressed[k] = key[k].lastTime
                           ELSE pressed[k] = -1
        BY <2>1, <3>6 DEF PressKept
      <4>6. pressed'[k] = IF key[i].down THEN pressed[k] ELSE -1
        BY <3>4, <4>2, <4>3
      <4> QED BY <3>1, <4>1, <4>4, <4>5, <4>6 DEF PressKept
    <3> QED BY <3>5, <3>6
  <2>4. CASE \A i \in Key : ~down[i]
    BY <1>3, <1>8, <2>4 DEF PressKept
  <2> QED BY <2>2, <2>3, <2>4
<1>11. (\E k \in Key : key'[k].down \/ key'[k].lastDown) => raised' = {}
  BY <1>6, <1>7, <1>8 DEF Cleared
<1>12. (\A k \in Key : ~key'[k].down) => \E k \in Key : key'[k].time = waiting'
  <2> SUFFICES ASSUME \A k \in Key : ~down[k] PROVE \E k \in Key : key'[k].time = waiting'
    BY <1>3, <1>8
  <2>1. CASE \E k \in Key : key[k].down
    BY <1>3, <1>8, <2>1
  <2>2. CASE \A k \in Key : ~key[k].down
    <3>1. PICK k \in Key : key[k].time = waiting
      BY <2>2 DEF KeyInv
    <3>2. key'[k].time = Longer(key[k].time)
      BY <1>3, <1>8, <2>2
    <3> QED BY <2>2, <3>1, <3>2
  <2> QED BY <2>1, <2>2
<1>13. KeyInv'
  BY <1>9, <1>10, <1>11, <1>12 DEF KeyInv
<1>14. ASSUME \E k \in Key : key[k].down, \A k \in Key : ~key'[k].down
       PROVE  raised' = Meaning(pressed)
  <2>1. \A k \in Key : ~down[k] /\ ~Passes(k, down)
    BY <1>3, <1>8, <1>14 DEF Passes, Goes, Key
  <2>2. \A k \in Key : IF seen[k].lastDown THEN seen[k].lastTime = pressed[k] /\ pressed[k] \in Nat
                       ELSE pressed[k] = -1
    <3> SUFFICES ASSUME NEW k \in Key
                 PROVE  IF seen[k].lastDown THEN seen[k].lastTime = pressed[k] /\ pressed[k] \in Nat
                        ELSE pressed[k] = -1
      OBVIOUS
    <3>1. PressKept(k) /\ key[k] \in KeyState
      BY <1>1 DEF KeyTypeOK
    <3>2. CASE key[k].down
      BY <1>3, <2>1, <3>1, <3>2 DEF PressKept, KeyState
    <3>3. CASE ~key[k].down
      BY <1>3, <1>14, <2>1, <3>1, <3>3 DEF PressKept, KeyState
    <3> QED BY <3>2, <3>3
  <2>3. \E k \in Key : seen[k].lastDown
    BY <1>3, <1>14, <2>1
  <2>4. raised' = Gestures(seen)
    BY <1>3, <1>7, <2>1, <2>3 DEF Cleared, made
  <2>5. Gestures(seen) = Meaning(pressed)
    <3> DEFINE s == seen["sos"]
               p == seen["pwr"]
    <3>1. /\ IF s.lastDown THEN s.lastTime = pressed["sos"] /\ pressed["sos"] \in Nat ELSE pressed["sos"] = -1
          /\ IF p.lastDown THEN p.lastTime = pressed["pwr"] /\ pressed["pwr"] \in Nat ELSE pressed["pwr"] = -1
      BY <2>2 DEF Key
    <3> HIDE DEF s, p
    <3>2. CASE s.lastDown /\ p.lastDown
      <4>1. Gestures(seen) = IF Both(Hold3, seen) THEN {"powerAndSosKeyHold3Sec"}
                             ELSE IF Both(Hold1, seen) THEN {"powerAndSosKeyHold1Sec"} ELSE {}
        BY <3>2 DEF Gestures, s, p
      <4>2. \A n \in Nat : Both(n, seen) <=> pressed["sos"] >= n /\ pressed["pwr"] >= n
        BY <3>1, <3>2 DEF Both, s, p
      <4>3. Both(Hold3, seen) => Both(Hold1, seen)
        BY <3>1, <3>2, <4>2
      <4>4. Meaning(pressed) = {f \in {"powerAndSosKeyHold3Sec"} : Both(Hold3, seen)}
                    \union {f \in {"powerAndSosKeyHold1Sec"} : Both(Hold1, seen) /\ ~Both(Hold3, seen)}
        BY <3>1, <3>2, <4>2 DEF Meaning
      <4> QED BY <4>1, <4>3, <4>4
    <3>3. CASE s.lastDown /\ ~p.lastDown
      BY <3>1, <3>3 DEF Gestures, Meaning, s, p
    <3>4. CASE ~s.lastDown /\ p.lastDown
      <4>1. Gestures(seen) = IF pressed["pwr"] >= 1
                             THEN {"powerKeyPressed"} \union Hold(pressed["pwr"]) ELSE {}
        BY <3>1, <3>4 DEF Gestures, s, p
      <4>2. Meaning(pressed) = IF pressed["pwr"] >= 1
                               THEN {"powerKeyPressed"} \union Hold(pressed["pwr"]) ELSE {}
        BY <3>1, <3>4 DEF Meaning
      <4> QED BY <4>1, <4>2
    <3>5. CASE ~s.lastDown /\ ~p.lastDown
      BY <3>1, <3>5 DEF Gestures, Meaning, s, p
    <3> QED BY <3>2, <3>3, <3>4, <3>5
  <2> QED BY <2>4, <2>5
<1>15. ASSUME ~(raised \subseteq raised'), \A k \in Key : ~key'[k].down
       PROVE  waiting' > Hold3
  <2>1. Cleared(seen) /\ raised # {}
    BY <1>7, <1>15
  <2>2. \A k \in Key : ~key[k].down /\ ~key[k].lastDown /\ ~down[k]
    BY <1>3, <1>8, <1>15, <2>1 DEF KeyInv
  <2>3. \A k \in Key : ~seen[k].down /\ ~seen[k].lastDown
    BY <1>3, <2>2
  <2>4. \A k \in Key : key'[k].time > Hold3
    BY <1>8, <2>1, <2>3 DEF Cleared
  <2> QED BY <1>12, <1>15, <2>4
<1> QED BY <1>13, <1>14, <1>15

LEMMA KeysStep == KeyInv /\ [KeysNext]_keyVars => KeyInv'
<1> SUFFICES ASSUME KeyInv, [KeysNext]_keyVars PROVE KeyInv'
  OBVIOUS
<1>1. CASE KeyTask_Control
  BY <1>1, TurnKeeps
<1>2. CASE Io_TaskTakes
  BY <1>2 DEF Io_TaskTakes, KeyInv, KeyTypeOK, PressKept
<1>3. CASE UNCHANGED keyVars
  BY <1>3 DEF keyVars, KeyInv, KeyTypeOK, PressKept
<1> QED BY <1>1, <1>2, <1>3 DEF KeysNext

\* The invariant of the keys, whatever the lengths of the holds: what the
\* interrupt remembers of a press is how long it was.
THEOREM KeysInvariant == KeysSpec => []KeyInv
<1>1. KeysInit => KeyInv
  BY KeysStart
<1> QED BY <1>1, KeysStep, PTL DEF KeysSpec

\* A gesture is made of exactly the presses since both keys were up before
\* (KeyTask_Control), for all lengths of the holds.
THEOREM GesturesAreTold == KeysSpec => PressesAreTold
<1>1. ASSUME KeyInv, [KeysNext]_keyVars
      PROVE [(\E k \in Key : key[k].down) /\ (\A k \in Key : ~key'[k].down) =>
                raised' = Meaning(pressed)]_keyVars
  <2>1. CASE KeyTask_Control
    BY <1>1, <2>1, TurnKeeps
  <2>2. CASE Io_TaskTakes
    BY <2>2 DEF Io_TaskTakes
  <2>3. CASE UNCHANGED keyVars
    BY <2>3
  <2> QED BY <1>1, <2>1, <2>2, <2>3 DEF KeysNext
<1> QED BY <1>1, KeysInvariant, PTL DEF KeysSpec, PressesAreTold

\* The interrupt takes no gesture from the main loop before a key goes down
\* again or both have been up for 3 s (Keys_Init in KeyTask_Control).
THEOREM GesturesWait == KeysSpec => GestureWaits
<1>1. ASSUME KeyInv, [KeysNext]_keyVars
      PROVE [key' # key /\ ~(raised \subseteq raised') =>
               (\E k \in Key : key'[k].down) \/ waiting' > Hold3]_keyVars
  <2>1. CASE KeyTask_Control
    BY <1>1, <2>1, TurnKeeps
  <2>2. CASE Io_TaskTakes
    BY <2>2 DEF Io_TaskTakes
  <2>3. CASE UNCHANGED keyVars
    BY <2>3
  <2> QED BY <1>1, <2>1, <2>2, <2>3 DEF KeysNext
<1> QED BY <1>1, KeysInvariant, PTL DEF KeysSpec, GestureWaits
-----------------------------------------------------------------------------
\* The ring detection.  A lone message's pulse is either not timed yet or has
\* opened the window, and without a second one no call is made of it.
PulseInv ==
  /\ messages \in Nat /\ rings \in Nat
  /\ messages <= 1 /\ rings = 0 =>
       /\ ~incomingCall /\ voiceCall = "NO_CALL"
       /\ ~(ringingFlag /\ ringingDetectFlag)
       /\ messages = 0 => ~ringingFlag /\ ~ringingDetectFlag

LEMMA PulseStep == PulseInv /\ [WakeupNext]_wakeupVars => PulseInv'
<1> SUFFICES ASSUME PulseInv, [WakeupNext]_wakeupVars PROVE PulseInv'
  OBVIOUS
<1> USE DEF PulseInv
<1>1. CASE MessageArrives
  BY <1>1 DEF MessageArrives, RingPin
<1>2. CASE CallRings
  BY <1>2 DEF CallRings
<1>3. CASE LPTimerSecond
  <2>1. UNCHANGED <<voiceCall, messages, rings>> /\ RingDetect
    BY <1>3 DEF LPTimerSecond
  <2>2. CASE messages <= 1 /\ rings = 0
    <3>1. CASE ringingFlag /\ ~ringingDetectFlag /\ RingWindowOpens
      BY <2>1, <2>2, <3>1 DEF RingWindowOpens
    <3>2. CASE ringingDetectFlag /\ ringingCountDown = 0 /\ RingDecision
      <4>1. ~(incomingCall \/ ringingFlag)
        BY <2>2, <3>2
      <4>2. ~incomingCall' /\ ~ringingDetectFlag' /\ ringingFlag' = ringingFlag
        BY <3>2, <4>1, Zenon DEF RingDecision
      <4> QED BY <2>1, <2>2, <4>2
    <3>3. CASE UNCHANGED <<ringingFlag, ringingDetectFlag, incomingCall>>
      BY <2>1, <2>2, <3>3
    <3> QED BY <2>1, <3>1, <3>2, <3>3 DEF RingDetect
  <2> QED BY <2>1, <2>2
<1>4. CASE MainLoop
  <2>1. CASE Tasks
    BY <2>1 DEF Tasks
  <2>2. CASE ~Tasks
    BY <1>4, <2>2 DEF MainLoop, SmsCheck, SmsList, SmsRead, SmsDelete, SmsManaged,
                      SleepCheck, SysSleep, ringVars
  <2> QED BY <2>1, <2>2
<1>5. CASE LineArrives \/ SmsAnswered \/ WakeUp \/ OthersBusy \/ OthersDone
  BY <1>5 DEF LineArrives, SmsAnswered, WakeUp, OthersBusy, OthersDone, ringVars
<1>6. CASE UNCHANGED wakeupVars
  BY <1>6 DEF wakeupVars
<1> QED BY <1>1, <1>2, <1>3, <1>4, <1>5, <1>6 DEF WakeupNext

\* A single pulse is never taken for a call (RingDetect in LPTimerTask), for
\* every length of the window.
THEOREM LonePulseIsNoCall == WakeupSpec => []OnePulseIsNoCall
<1>1. WakeupInit => PulseInv
  BY DEF WakeupInit, PulseInv
<1>2. PulseInv => OnePulseIsNoCall
  BY DEF PulseInv, OnePulseIsNoCall
<1> QED BY <1>1, <1>2, PulseStep, PTL DEF WakeupSpec

-----------------------------------------------------------------------------
\* The phases of Gsm_Task with coverage, and with those in which it is sought.
Covered ==
  {"DELETE_ALL_SMS", "GET_CSQ", "SET_GPRS_PROFILE", "SET_GPRS_APN", "SET_GPRS_USER",
   "SET_GPRS_PASS", "SET_GPRS_DYNAMIC_IP", "WAIT_GPRS_PROFILE", "SYS_COVERAGE_OK"}
Registering == {"DELAY_REGISTER_NETWORK", "REGISTER_NETWORK", "SYS_WAIT_COVERAGE"} \union Covered

\* The commands the modem must have accepted before Gsm_Task comes to a phase,
\* and the one a phase waits for.
Required(phase) ==
  CASE phase = "CONNECT_SIM"      -> {"AT&K0"}
    [] phase = "WAIT_CONNECT_SIM" -> {"AT&K0", "AT+UPSV"}
    [] phase \in Covered          -> Essential
    [] phase \in Registering \ Covered -> {"AT&K0", "AT+UPSV", "AT+CMGF"}
    [] OTHER                      -> {}
Awaited(phase) ==
  CASE phase = "CONFIG_3"          -> {"AT&K0"}
    [] phase = "CONNECT_SIM"       -> {"AT+UPSV"}
    [] phase = "WAIT_CONNECT_SIM"  -> {"AT+CMGF"}
    [] phase = "SYS_WAIT_COVERAGE" -> {"AT+COPS"}
    [] OTHER                       -> {}

\* What the engine takes for the command's OK is the command's, as long as no
\* answer has gone astray.
AnswerTypeOK == commBuf \in Seq({"OK", "ERROR"}) /\ mixed \in BOOLEAN
OkIsOwn ==
  /\ modemCmd_TaskPhase = "CMD_OK" => {cmd} \intersect Essential \subseteq accepted
  /\ commBuf # <<>> /\ commBuf[Len(commBuf)] = "OK" => {cmd} \intersect Essential \subseteq accepted

CoverageInv ==
  /\ AnswerTypeOK
  /\ ~mixed => /\ OkIsOwn
               /\ Required(gsm_TaskPhase) \subseteq accepted
               /\ Awaited(gsm_TaskPhase) \subseteq {cmd}

\* The engine alone: it gives up, or ends a command with its own answer.
LEMMA EngineKeeps ==
  ASSUME CoverageInv, ModemCmd_Task
  PROVE  CoverageInv'
<1> USE DEF engineVars, gsmVars, modemVars
<1>1. CASE SendPhase
  BY <1>1 DEF SendPhase, CoverageInv, AnswerTypeOK, OkIsOwn
<1>2. CASE SendHeldBack \/ EngineRests
  BY <1>2 DEF SendHeldBack, EngineRests, CoverageInv, AnswerTypeOK, OkIsOwn
<1>3. CASE WaitTimeout
  BY <1>3 DEF WaitTimeout, CoverageInv, AnswerTypeOK, OkIsOwn, Required, Awaited, Covered, Registering
<1>4. CASE WaitAnswers
  <2>1. modemCmd_TaskPhase' = "CMD_OK" => commBuf[Len(commBuf)] = "OK"
    BY <1>4 DEF WaitAnswers, CoverageInv, AnswerTypeOK
  <2> QED BY <1>4, <2>1 DEF WaitAnswers, CoverageInv, AnswerTypeOK, OkIsOwn
<1> QED BY <1>1, <1>2, <1>3, <1>4 DEF ModemCmd_Task

\* An empty buffer.
LEMMA NothingRead == <<>> \in Seq({"OK", "ERROR"})
OBVIOUS

\* Until the modem is configured nothing is required of it.
LEMMA BeforeConfiguration ==
  \A p \in {"TURN_ON", "INIT_COMM", "READ_IMEI"} : Required(p) = {} /\ Awaited(p) = {}
BY DEF Required, Awaited, Covered, Registering

\* Gsm_Task goes on to a phase only when what it requires has been accepted.
LEMMA GsmKeeps ==
  ASSUME CoverageInv, GsmPhase
  PROVE  CoverageInv'
<1> USE DEF engineVars, gsmVars, modemVars, Enter, ModemCmdTask_SendCmd, Blocking
<1> USE DEF CoverageInv, AnswerTypeOK, OkIsOwn
<1>1. CASE TurnOn
  <2>1. AnswerTypeOK'
    BY <1>1, NothingRead DEF TurnOn
  <2>2. OkIsOwn'
    BY <1>1 DEF TurnOn
  <2>3. Required(gsm_TaskPhase') = {} /\ Awaited(gsm_TaskPhase') = {}
    BY <1>1, BeforeConfiguration DEF TurnOn
  <2> QED BY <2>1, <2>2, <2>3
<1>2. CASE InitComm
  <2>1. AnswerTypeOK'
    BY <1>2, NothingRead DEF InitComm
  <2>2. OkIsOwn' \/ mixed'
    BY <1>2 DEF InitComm
  <2>3. Required(gsm_TaskPhase') = {} /\ Awaited(gsm_TaskPhase') = {}
    BY <1>2, BeforeConfiguration DEF InitComm
  <2> QED BY <2>1, <2>2, <2>3
<1>3. CASE ReadImei
  BY <1>3 DEF ReadImei, Required, Awaited, Covered, Registering
<1>4. CASE SendsAnyway
  <2>1. /\ gsm_TaskPhase' = Unconditional[gsm_TaskPhase].next
        /\ cmd' = Unconditional[gsm_TaskPhase].cmd
        /\ gsm_TaskPhase \in DOMAIN Unconditional
        /\ commBuf' = <<>> /\ modemCmd_TaskPhase' = "CMD_SEND" /\ UNCHANGED <<accepted, mixed>>
    BY <1>4 DEF SendsAnyway
  <2>2. /\ Required(gsm_TaskPhase') = Required(gsm_TaskPhase)
        /\ Awaited(gsm_TaskPhase') \subseteq {cmd'}
    BY <2>1 DEF Unconditional, Step, Required, Awaited, Covered, Registering
  <2> QED BY <2>1, <2>2
<1>5. CASE SendsOnOk
  <2> DEFINE s == Conditional[gsm_TaskPhase]
  <2>1. CASE modemCmd_TaskPhase = "CMD_OK" /\ gsm_TaskPhase' = s.next /\ cmd' = s.cmd
    <3>1. /\ Required(gsm_TaskPhase') \subseteq Required(gsm_TaskPhase) \union
                 (Awaited(gsm_TaskPhase) \intersect Essential)
          /\ Awaited(gsm_TaskPhase') \subseteq {cmd'}
      BY <1>5, <2>1 DEF SendsOnOk, Conditional, OnOk, Required, Awaited, Covered, Registering, Essential
    <3> QED BY <1>5, <2>1, <3>1 DEF SendsOnOk
  <2>2. CASE gsm_TaskPhase' = s.else /\ UNCHANGED engineVars
    <3>1. /\ Required(gsm_TaskPhase') \subseteq Required(gsm_TaskPhase)
          /\ Awaited(gsm_TaskPhase') = {}
      BY <1>5, <2>2 DEF SendsOnOk, Conditional, OnOk, Required, Awaited, Covered, Registering
    <3> QED BY <1>5, <2>2, <3>1 DEF SendsOnOk
  <2>3. CASE UNCHANGED <<engineVars, gsmVars, pending>>
    BY <1>5, <2>3 DEF SendsOnOk
  <2> QED BY <1>5, <2>1, <2>2, <2>3 DEF SendsOnOk
<1>6. CASE DelayRegister
  BY <1>6 DEF DelayRegister, Required, Awaited, Covered, Registering
<1>7. CASE WaitCoverage
  <2>1. CASE modemCmd_TaskPhase = "CMD_OK"
    <3>1. /\ ~mixed => cmd = "AT+COPS" /\ {"AT&K0", "AT+UPSV", "AT+CMGF"} \subseteq accepted
      BY <1>7 DEF WaitCoverage, Required, Awaited, Covered, Registering
    <3>2. ~mixed => Essential \subseteq accepted
      BY <2>1, <3>1 DEF Essential
    <3> QED BY <1>7, <2>1, <3>2 DEF WaitCoverage, Required, Awaited, Covered, Registering
  <2>2. CASE modemCmd_TaskPhase # "CMD_OK"
    BY <1>7, <2>2 DEF WaitCoverage, Required, Awaited, Covered, Registering
  <2> QED BY <2>1, <2>2
<1>8. CASE GetCsq
  BY <1>8 DEF GetCsq, Required, Awaited, Covered, Registering
<1>9. CASE WaitGprsProfile
  BY <1>9 DEF WaitGprsProfile, Required, Awaited, Covered, Registering
<1>10. CASE CoverageOk
  BY <1>10 DEF CoverageOk, Required, Awaited, Covered, Registering
<1> QED BY <1>1, <1>2, <1>3, <1>4, <1>5, <1>6, <1>7, <1>8, <1>9, <1>10 DEF GsmPhase

\* An answer is the current command's or marks the history as mixed.
LEMMA ModemKeeps ==
  ASSUME CoverageInv, ModemAnswers
  PROVE  CoverageInv'
<1> PICK answer \in {"OK", "ERROR"} :
      /\ commBuf' = Append(commBuf, answer)
      /\ accepted' = CASE mixed' -> {}
                        [] ~mixed' /\ answer = "OK" ->
                             accepted \union ({Head(pending)} \intersect Essential)
                        [] OTHER -> accepted
  BY DEF ModemAnswers
<1>1. AnswerTypeOK' /\ commBuf'[Len(commBuf')] = answer
  BY DEF CoverageInv, AnswerTypeOK, ModemAnswers
<1>2. ASSUME ~mixed'
      PROVE  /\ ~mixed /\ Head(pending) = cmd
             /\ accepted \subseteq accepted'
             /\ answer = "OK" => {cmd} \intersect Essential \subseteq accepted'
  BY <1>2 DEF ModemAnswers, CoverageInv, AnswerTypeOK
<1> QED BY <1>1, <1>2 DEF CoverageInv, OkIsOwn, ModemAnswers, gsmVars

\* A modem to be turned on.
LEMMA CoverageStart == RegistrationInit => CoverageInv
<1> SUFFICES ASSUME RegistrationInit PROVE CoverageInv
  OBVIOUS
<1>1. AnswerTypeOK
  BY NothingRead DEF RegistrationInit, AnswerTypeOK
<1>2. OkIsOwn
  BY DEF RegistrationInit, OkIsOwn
<1>3. Required(gsm_TaskPhase) = {} /\ Awaited(gsm_TaskPhase) = {}
  BY BeforeConfiguration DEF RegistrationInit
<1>4. {} \subseteq accepted /\ {} \subseteq {cmd}
  OBVIOUS
<1> QED BY <1>1, <1>2, <1>3, <1>4 DEF CoverageInv

\* The invariant is inductive.
LEMMA CoverageStep == CoverageInv /\ [RegistrationNext]_registrationVars => CoverageInv'
<1> SUFFICES ASSUME CoverageInv, [RegistrationNext]_registrationVars PROVE CoverageInv'
  OBVIOUS
<1> USE DEF engineVars, gsmVars, modemVars
<1>1. CASE ModemCmd_Task
  BY <1>1, EngineKeeps
<1>2. CASE Gsm_Task
  BY <1>2, GsmKeeps DEF Gsm_Task, CoverageInv, AnswerTypeOK, OkIsOwn
<1>3. CASE OthersSend
  BY <1>3 DEF OthersSend, ModemCmdTask_SendCmd, CoverageInv, AnswerTypeOK
<1>4. CASE OthersCancel
  BY <1>4 DEF OthersCancel, CoverageInv, AnswerTypeOK, OkIsOwn
<1>5. CASE ModemAnswers
  BY <1>5, ModemKeeps
<1>6. CASE OthersBypass
  BY <1>6, NothingRead DEF OthersBypass, CoverageInv, AnswerTypeOK, OkIsOwn
<1>7. CASE OthersIdle \/ ModemDies \/ CallComesIn \/ CallGoesOn \/ CallGone
  BY <1>7 DEF OthersIdle, ModemDies, CallComesIn, CallGoesOn, CallGone, CoverageInv,
              AnswerTypeOK, OkIsOwn
<1>8. CASE UNCHANGED registrationVars
  BY <1>8 DEF registrationVars, CoverageInv, AnswerTypeOK, OkIsOwn
<1> QED BY <1>1, <1>2, <1>3, <1>4, <1>5, <1>6, <1>7, <1>8 DEF RegistrationNext

\* What has been accepted keeps up with the phases, whatever the modem answers.
THEOREM CoverageInvariant == RegistrationSpec => []CoverageInv
BY CoverageStart, CoverageStep, PTL DEF RegistrationSpec

\* Coverage means a configured modem (Gsm_Task), for every number of retries.
THEOREM CoverageIsConfigured == RegistrationSpec => []CoverageMeansConfigured
<1>1. CoverageInv => CoverageMeansConfigured
  BY DEF CoverageInv, CoverageMeansConfigured, Required, Covered, Registering
<1> QED BY <1>1, CoverageInvariant, PTL
=============================================================================
