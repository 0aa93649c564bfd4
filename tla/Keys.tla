-------------------------------- MODULE Keys --------------------------------
(***************************************************************************)
(* The two keys (tick.c: KeyTask_Control, ClearLastKeyStatus; io_tasks.c:  *)
(* Keys_Init): the timer interrupt looks at them every 250 ms and makes    *)
(* gestures of presses, which Io_Task takes up when the main loop gets to  *)
(* it.  A gesture is made when both keys are up again, of the last press   *)
(* of each; any key that goes down clears what was not taken up, and so do *)
(* 3 s with both keys up.                                                  *)
(*                                                                         *)
(* Times are counted in turns of the interrupt, up to what is told apart.  *)
(***************************************************************************)
EXTENDS Integers

CONSTANTS
  Hold1, Hold2, Hold3   \* turns in 1000, 2000 and 3000 ms: 4, 8, 12

ASSUME KeysAssumption ==
  {Hold1, Hold2, Hold3} \subseteq Nat /\ 0 < Hold1 /\ Hold1 < Hold2 /\ Hold2 < Hold3

Key == {"sos", "pwr"}

VARIABLES
  key,       \* of each key: status and time, lastStatus and lastTime
  raised,    \* the flags of gestures not taken up
  pressed,   \* history: turns each key was held in its last press since both
             \* were up, -1 for not pressed; a press of SOS does not count when
             \* power goes down in the turn that ends it
  waiting    \* history: turns since both keys are up again

keyVars == <<key, raised, pressed, waiting>>

Flag == {"powerAndSosKeyHold3Sec", "powerAndSosKeyHold1Sec", "sosKeyPressed",
         "powerKeyHold3Sec", "powerKeyHold2Sec", "powerKeyHold1Sec", "powerKeyPressed"}

Longer(t) == IF t > Hold3 THEN t ELSE t + 1

KeysInit ==
  /\ key = [k \in Key |-> [down |-> FALSE, time |-> 0, lastDown |-> FALSE, lastTime |-> 0]]
  /\ raised = {}
  /\ pressed = [k \in Key |-> -1]
  /\ waiting = 0

-----------------------------------------------------------------------------
ClearLastKeyStatus(k) == [k EXCEPT !.lastDown = FALSE, !.lastTime = 0]

\* A key as this turn finds it.
Seen(k, down) ==
  IF down = k.down THEN [k EXCEPT !.time = Longer(@)]
  ELSE [down |-> down, time |-> 0, lastDown |-> k.down, lastTime |-> k.time]

\* Mutant: its last press is kept.
PastKept(other, k, wasDown) == other

\* The other key, when k has just gone down: its last press is past if it is up.
Past(other, k, wasDown) ==
  IF k.down /\ ~wasDown /\ ~other.down THEN ClearLastKeyStatus(other) ELSE other

\* SOS is looked at first.
Polled(down) ==
  LET sos == Seen(key["sos"], down["sos"])
      pwr == Seen(Past(key["pwr"], sos, key["sos"].down), down["pwr"])
  IN  [k \in Key |-> IF k = "sos" THEN Past(sos, pwr, key["pwr"].down) ELSE pwr]

\* The flags the last presses make.
Hold(time) ==
  IF time >= Hold3 THEN {"powerKeyHold3Sec"}
  ELSE IF time >= Hold2 THEN {"powerKeyHold2Sec"}
  ELSE IF time >= Hold1 THEN {"powerKeyHold1Sec"} ELSE {}

Both(n, k) == k["sos"].lastTime >= n /\ k["pwr"].lastTime >= n

Gestures(k) ==
  CASE k["sos"].lastDown /\ k["pwr"].lastDown ->
         IF Both(Hold3, k) THEN {"powerAndSosKeyHold3Sec"}
         ELSE IF Both(Hold1, k) THEN {"powerAndSosKeyHold1Sec"} ELSE {}
    [] k["sos"].lastDown /\ ~k["pwr"].lastDown ->
         IF k["sos"].lastTime >= 1 THEN {"sosKeyPressed"} ELSE {}
    [] ~k["sos"].lastDown /\ k["pwr"].lastDown ->
         IF k["pwr"].lastTime >= 1
         THEN {"powerKeyPressed"} \union Hold(k["pwr"].lastTime) ELSE {}
    [] OTHER -> {}

\* Mutant: one key that has not been touched for 3 s is enough.
ClearedByOne(k) ==
  \/ \E i \in Key : k[i].down
  \/ \E i \in Key : k[i].lastDown
  \/ \E i \in Key : k[i].time > Hold3

\* Keys_Init is called on the way.
Cleared(k) ==
  \/ \E i \in Key : k[i].down
  \/ \E i \in Key : k[i].lastDown
  \/ \A i \in Key : k[i].time > Hold3

PwrGoes(down) == down["pwr"] /\ ~key["pwr"].down

KeyTask_Control ==
  \E down \in [Key -> BOOLEAN] :
    LET seen == Polled(down)
        made == IF \E k \in Key : seen[k].down THEN {} ELSE Gestures(seen)
    IN  /\ key' = [k \in Key |-> IF made # {} /\ seen[k].lastDown
                               THEN ClearLastKeyStatus(seen[k]) ELSE seen[k]]
        /\ raised' = (IF Cleared(seen) THEN {} ELSE raised) \union made
        /\ pressed' = [k \in Key |->
             IF down[k] THEN IF key[k].down THEN Longer(pressed[k]) ELSE 0
             ELSE IF (\A i \in Key : ~key[i].down) \/ (k = "sos" /\ PwrGoes(down)) THEN -1
             ELSE pressed[k]]
        /\ waiting' = IF \E k \in Key : down[k] \/ key[k].down THEN 0 ELSE Longer(waiting)

\* Io_Task takes a gesture up; the power key takes the holds along while there
\* is an SOS, and switching on clears everything.
Io_TaskTakes ==
  /\ raised # {}
  /\ \/ \E f \in raised : raised' = raised \ {f}
     \/ /\ "powerKeyPressed" \in raised
        /\ raised' = raised \ {"powerKeyPressed", "powerKeyHold3Sec",
                               "powerKeyHold2Sec", "powerKeyHold1Sec"}
     \/ "powerKeyHold3Sec" \in raised /\ raised' = {}
  /\ UNCHANGED <<key, pressed, waiting>>

KeysNext == KeyTask_Control \/ Io_TaskTakes

KeysSpec == KeysInit /\ [][KeysNext]_keyVars

-----------------------------------------------------------------------------
\* What the presses since both keys were up mean, by their lengths alone.
Meaning(p) ==
  LET held(k, n) == p[k] >= n
  IN  CASE held("sos", 0) /\ held("pwr", 0) ->
             {f \in {"powerAndSosKeyHold3Sec"} : held("sos", Hold3) /\ held("pwr", Hold3)}
             \union {f \in {"powerAndSosKeyHold1Sec"} :
                       /\ held("sos", Hold1) /\ held("pwr", Hold1)
                       /\ ~(held("sos", Hold3) /\ held("pwr", Hold3))}
        [] held("sos", 1) /\ ~held("pwr", 0) -> {"sosKeyPressed"}
        [] held("pwr", 1) /\ ~held("sos", 0) -> {"powerKeyPressed"} \union Hold(p["pwr"])
        [] OTHER -> {}

\* When both keys are up again, exactly the gesture of the presses since they
\* were up before is raised, never one that an earlier press has a part in: a
\* tap too short to count, or a combination that failed, leaves no trace.  One
\* key that follows the other within a turn is not symmetric: SOS followed by
\* power is forgotten, power followed by SOS makes a combination of them.
PressesAreTold ==
  [][(\E k \in Key : key[k].down) /\ (\A k \in Key : ~key'[k].down) =>
       raised' = Meaning(pressed)]_keyVars

\* The main loop has 3 s to take a gesture up, and until the next press: the
\* interrupt clears it only then.
GestureWaits ==
  [][key' # key /\ ~(raised \subseteq raised') =>
       (\E k \in Key : key'[k].down) \/ waiting' > Hold3]_keyVars
=============================================================================
