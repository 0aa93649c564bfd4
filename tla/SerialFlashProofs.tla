-------------------------- MODULE SerialFlashProofs --------------------------
(***************************************************************************)
(* The serial flash, to which records are appended: what a reset finds of  *)
(* the saved variables, and when a record is written behind the last one   *)
(* of a sector (U32Store); what it finds of the log's head and tail, and   *)
(* what its cells hold (TrackerLog).  For any sizes and any number of      *)
(* power cuts.                                                             *)
(***************************************************************************)
EXTENDS U32Store, TrackerLog, WellFoundedInduction, TLAPS

Record == Value \union {Blank, Torn}
Steps == {"idle", "erase", "value", "checksum", "mismatch", "overrun"}
Writing == {"value", "checksum", "mismatch"}

\* As long as no record has been written behind the last one.
U32TypeOK ==
  /\ flash \in [Var -> [Slot -> Record]]
  /\ cnt \in [Var -> 0 .. Slots]
  /\ value \in [Var -> Value]
  /\ acceptable \in [Var -> SUBSET Value]
  /\ saving \in Var \union {-1} /\ saveStep \in Steps
  /\ saving = -1 <=> saveStep = "idle"
  /\ saveStep \in Writing => cnt[saving] < Slots

-----------------------------------------------------------------------------
\* Without a torn last record a save never comes behind it.

\* What the last record of v may be.
LastRecord(v) ==
  flash[v][Slots - 1] # Blank =>
    \/ flash[v][Slots - 1] \in Value /\ cnt[v] = Slots
    \/ flash[v][Slots - 1] \in Value /\ v = saving /\ saveStep = "erase" /\ cnt[v] = 0
    \/ v = saving /\ saveStep = "checksum" /\ cnt[v] = Slots - 1

NoOverrun ==
  /\ saveStep # "overrun"
  /\ saveStep = "erase" => cnt[saving] < Slots
  /\ saveStep = "mismatch" => cnt[saving] < Slots - 1
  /\ \A v \in Var : LastRecord(v)

-----------------------------------------------------------------------------
\* What a load finds.

\* x is the last good value of the first c records of f, or 0.
Finds(f, c, x) ==
  \/ x = 0 /\ \A n \in Slot : n < c => f[n] \notin Value
  \/ \E n \in Slot : /\ n < c /\ f[n] = x /\ x \in Value
                     /\ \A m \in Slot : n < m /\ m < c => f[m] \notin Value

\* There is no good record of v from c on.
NoneFrom(v, c) == \A n \in Slot : n >= c => flash[v][n] \notin Value

\* The cursor of v is behind its good records, but for the record being
\* written, and a sector that is about to start over.
CursorBehind(v) ==
  IF v = saving /\ saveStep \in {"checksum", "mismatch"} THEN NoneFrom(v, cnt[v] + 1)
  ELSE IF v = saving /\ saveStep = "erase" /\ cnt[v] = 0 THEN TRUE
  ELSE NoneFrom(v, cnt[v])

Survives(v) ==
  /\ \E x \in acceptable[v] : Finds(flash[v], Slots, x)
  /\ v = saving => value[v] \in acceptable[v]
  /\ v = saving /\ saveStep \in Writing =>
       \E x \in acceptable[v] : Finds(flash[v], cnt[v], x)
  /\ CursorBehind(v)

U32Inv ==
  /\ tornLast \in BOOLEAN /\ overrun \in BOOLEAN
  /\ overrun => tornLast
  /\ ~overrun => /\ U32TypeOK
                 /\ ~tornLast => NoOverrun
                 /\ \A v \in Var : Survives(v)

-----------------------------------------------------------------------------
\* A load takes what is found, and its cursor is behind all good records.
LEMMA LoadFinds ==
  ASSUME NEW f, NEW v \in Var, NEW x, Finds(f[v], Slots, x)
  PROVE  /\ Loaded(f, v).value = x
         /\ Loaded(f, v).cnt \in 0 .. Slots
         /\ \A n \in Slot : n >= Loaded(f, v).cnt => f[v][n] \notin Value
<1> USE U32Assumption
<1>1. CASE \A n \in Slot : f[v][n] \notin Value
  <2>1. GoodRecords(f, v) = {}
    BY <1>1 DEF GoodRecords
  <2>2. x = 0
    BY <1>1 DEF Finds
  <2> QED BY <1>1, <2>1, <2>2 DEF Loaded
<1>2. CASE \E n \in Slot : f[v][n] \in Value
  <2>1. PICK n \in Slot : f[v][n] = x /\ x \in Value
                          /\ \A m \in Slot : n < m => f[v][m] \notin Value
    BY <1>2 DEF Finds, Slot
  <2>2. n \in GoodRecords(f, v) /\ IsLast(n, GoodRecords(f, v))
    BY <2>1 DEF GoodRecords, IsLast, Slot
  <2> DEFINE l == CHOOSE k \in Slot : IsLast(k, GoodRecords(f, v))
  <2>3. l \in Slot /\ IsLast(l, GoodRecords(f, v))
    BY <2>2
  <2>4. l = n
    BY <2>2, <2>3 DEF IsLast, Slot
  <2>5. Loaded(f, v) = [cnt |-> n + 1, value |-> x, old |-> x]
    BY <2>1, <2>2, <2>4 DEF Loaded
  <2> QED BY <2>1, <2>5 DEF Slot
<1> QED BY <1>1, <1>2

LEMMA U32Start == U32Init => U32Inv
<1> SUFFICES ASSUME U32Init PROVE U32Inv
  OBVIOUS
<1> USE U32Assumption, FlashAssumption DEF U32Init
<1>1. U32TypeOK
  BY DEF U32TypeOK, Record, Steps, Writing, Var, Slot
<1>2. NoOverrun
  BY DEF NoOverrun, LastRecord, Slot
<1>3. ASSUME NEW v \in Var PROVE Survives(v)
  <2>1. Finds(flash[v], Slots, 0) /\ 0 \in acceptable[v]
    BY DEF Finds
  <2>2. NoneFrom(v, cnt[v]) /\ v # saving
    BY DEF NoneFrom, Var
  <2> QED BY <2>1, <2>2 DEF Survives, CursorBehind
<1> QED BY <1>1, <1>2, <1>3 DEF U32Inv

\* The steps before one behind the last record.
Sound == U32TypeOK /\ \A v \in Var : Survives(v)
U32Step == U32Next /\ ~SaveOverrun

LEMMA Types == {Blank, Torn} \subseteq Record /\ Value \subseteq Record /\ -1 \notin Var /\ 0 \in Value
BY U32Assumption DEF Record, Var

\* What is programmed of the record the cursor is on.
LEMMA RecordsTyped ==
  ASSUME U32TypeOK, saving \in Var, NEW r \in Record
  PROVE  [flash EXCEPT ![saving][cnt[saving]] = r] \in [Var -> [Slot -> Record]]
<1>1. [flash[saving] EXCEPT ![cnt[saving]] = r] \in [Slot -> Record]
  BY DEF U32TypeOK
<1> QED BY <1>1 DEF U32TypeOK

\* The types.
LEMMA U32Typed ==
  ASSUME Sound, U32Step
  PROVE  U32TypeOK'
<1> USE U32Assumption, Types DEF history
<1>0. U32TypeOK
  BY DEF Sound
<1>1. CASE SetValue
  BY <1>0, <1>1 DEF SetValue, U32TypeOK
<1>2. CASE DB_U32Save
  <2>1. acceptable' \in [Var -> SUBSET Value] /\ cnt' \in [Var -> 0 .. Slots]
    BY <1>0, <1>2 DEF DB_U32Save, U32TypeOK
  <2> QED BY <1>0, <1>2, <2>1 DEF DB_U32Save, U32TypeOK, Steps, Writing
<1>3. CASE SaveErase
  <2>1. saving \in Var /\ cnt[saving] \in 0 .. Slots
    BY <1>0, <1>3 DEF SaveErase, U32TypeOK
  <2>2. [n \in Slot |-> Blank] \in [Slot -> Record]
    OBVIOUS
  <2>3. flash' \in [Var -> [Slot -> Record]]
    BY <1>0, <1>3, <2>1, <2>2 DEF SaveErase, U32TypeOK
  <2>4. acceptable' \in [Var -> SUBSET Value]
    <3>1. acceptable[saving] \union {0} \in SUBSET Value
      BY <1>0, <2>1 DEF U32TypeOK
    <3> QED BY <1>0, <1>3, <2>1, <3>1 DEF SaveErase, U32TypeOK
  <2>5. saveStep' \in Steps /\ saveStep' # "idle" /\ (saveStep' \in Writing => cnt[saving] < Slots)
    BY <1>3, <2>1 DEF SaveErase, Steps, Writing
  <2> QED BY <1>0, <1>3, <2>1, <2>3, <2>4, <2>5 DEF SaveErase, U32TypeOK
<1>4. CASE SaveValue
  <2>1. saving \in Var /\ {Torn, value[saving]} \subseteq Record
    BY <1>0, <1>4 DEF SaveValue, U32TypeOK
  <2>2. flash' \in [Var -> [Slot -> Record]]
    BY <1>0, <1>4, <2>1, RecordsTyped DEF SaveValue
  <2> QED BY <1>0, <1>4, <2>1, <2>2 DEF SaveValue, U32TypeOK, Steps, Writing
<1>5. CASE SaveChecksum
  <2>1. saving \in Var /\ value[saving] \in Value /\ cnt[saving] \in 0 .. Slots - 1
    BY <1>0, <1>5 DEF SaveChecksum, U32TypeOK, Writing
  <2>2. flash' \in [Var -> [Slot -> Record]]
    BY <1>0, <1>5, <2>1, RecordsTyped DEF SaveChecksum
  <2>3. acceptable' \in [Var -> SUBSET Value] /\ cnt' \in [Var -> 0 .. Slots]
    BY <1>0, <1>5, <2>1 DEF SaveChecksum, U32TypeOK
  <2> QED BY <1>0, <1>5, <2>2, <2>3 DEF SaveChecksum, U32TypeOK, Steps, Writing
<1>6. CASE SaveMismatch
  <2>1. saving \in Var /\ cnt[saving] \in 0 .. Slots - 1
    BY <1>0, <1>6 DEF SaveMismatch, U32TypeOK, Writing
  <2>2. flash' \in [Var -> [Slot -> Record]]
    BY <1>0, <1>6, <2>1, RecordsTyped DEF SaveMismatch
  <2>3. cnt' \in [Var -> 0 .. Slots]
    BY <1>0, <1>6, <2>1 DEF SaveMismatch, U32TypeOK
  <2> QED BY <1>0, <1>6, <2>1, <2>2, <2>3 DEF SaveMismatch, U32TypeOK, Steps, Writing
<1>7. CASE PowerCut
  <2>1. ASSUME NEW v \in Var
        PROVE  Loaded(flash, v).cnt \in 0 .. Slots /\ Loaded(flash, v).value \in Value
    <3>1. PICK x \in acceptable[v] : Finds(flash[v], Slots, x)
      BY DEF Sound, Survives
    <3>2. x \in Value
      BY <1>0, <3>1 DEF U32TypeOK
    <3> QED BY <3>1, <3>2, LoadFinds
  <2> QED BY <1>0, <1>7, <2>1 DEF PowerCut, DB_U32Load, U32TypeOK, Steps, Writing
<1> QED BY <1>1, <1>2, <1>3, <1>4, <1>5, <1>6, <1>7 DEF U32Step, U32Next

-----------------------------------------------------------------------------
\* A step that tears no last record.
LEMMA LastRecordStays ==
  ASSUME Sound, NoOverrun, U32Step, ~tornLast'
  PROVE  NoOverrun'
<1> USE U32Assumption, FlashAssumption DEF Slot
<1>0. U32TypeOK /\ Slots - 1 \in Slot /\ Blank \notin Value /\ Torn \notin Value
  BY DEF Sound
<1>1. CASE SetValue
  BY <1>1 DEF SetValue, NoOverrun, LastRecord, history
<1>2. CASE DB_U32Save
  <2>1. PICK v \in Var : /\ saving' = v /\ saving = -1 /\ flash' = flash /\ saveStep' = "erase"
                         /\ cnt' = [cnt EXCEPT ![v] = IF @ >= Slots THEN 0 ELSE @]
    BY <1>2 DEF DB_U32Save
  <2>2. cnt'[v] < Slots
    BY <1>0, <2>1 DEF U32TypeOK
  <2>3. ASSUME NEW w \in Var PROVE LastRecord(w)'
    <3>1. flash[w][Slots - 1] # Blank => flash[w][Slots - 1] \in Value /\ cnt[w] = Slots
      BY <1>0, <2>1, <1>2 DEF NoOverrun, LastRecord, DB_U32Save, U32TypeOK
    <3> QED BY <1>0, <2>1, <3>1 DEF LastRecord, U32TypeOK
  <2> QED BY <2>1, <2>2, <2>3 DEF NoOverrun
<1>3. CASE SaveErase
  <2>1. saving \in Var /\ cnt[saving] \in 0 .. Slots - 1
    BY <1>0, <1>3 DEF SaveErase, U32TypeOK, NoOverrun
  <2>2. saveStep' = "value" /\ cnt' = cnt /\ saving' = saving
    BY <1>3, <2>1 DEF SaveErase
  <2>3. ASSUME NEW w \in Var PROVE LastRecord(w)'
    <3>1. flash'[w] = flash[w] \/ (w = saving /\ flash'[w][Slots - 1] = Blank)
      BY <1>0, <1>3, <2>1 DEF SaveErase, U32TypeOK
    <3>2. w = saving /\ cnt[w] = 0 => flash'[w][Slots - 1] = Blank
      BY <1>0, <1>3, <2>1 DEF SaveErase, U32TypeOK
    <3> QED BY <1>3, <2>2, <3>1, <3>2 DEF LastRecord, NoOverrun, SaveErase
  <2> QED BY <2>2, <2>3 DEF NoOverrun
<1>4. CASE SaveValue
  <2>1. saving \in Var /\ cnt[saving] \in 0 .. Slots - 1 /\ cnt' = cnt /\ saving' = saving
    BY <1>0, <1>4 DEF SaveValue, U32TypeOK, Writing
  <2>2. ASSUME NEW w \in Var, ~(w = saving /\ cnt[w] = Slots - 1)
        PROVE  flash'[w][Slots - 1] = flash[w][Slots - 1]
    BY <1>0, <1>4, <2>1, <2>2 DEF SaveValue, U32TypeOK
  <2>3. cnt[saving] = Slots - 1 => saveStep' = "checksum"
    BY <1>0, <1>4, <2>1 DEF SaveValue, NoOverrun, LastRecord
  <2>4. saveStep' \in {"checksum", "mismatch"}
    BY <1>4 DEF SaveValue
  <2>5. ASSUME NEW w \in Var PROVE LastRecord(w)'
    <3>1. CASE w = saving /\ cnt[w] = Slots - 1
      BY <2>1, <2>3, <3>1 DEF LastRecord
    <3>2. CASE ~(w = saving /\ cnt[w] = Slots - 1)
      BY <1>4, <2>1, <2>2, <3>2 DEF LastRecord, NoOverrun, SaveValue
    <3> QED BY <3>1, <3>2
  <2> QED BY <2>1, <2>3, <2>4, <2>5 DEF NoOverrun
<1>5. CASE SaveChecksum
  <2>1. saving \in Var /\ cnt[saving] \in 0 .. Slots - 1 /\ value[saving] \in Value
    BY <1>0, <1>5 DEF SaveChecksum, U32TypeOK, Writing
  <2>2. ASSUME NEW w \in Var PROVE LastRecord(w)'
    <3>1. CASE w = saving /\ cnt[w] = Slots - 1
      <4>1. flash'[w][Slots - 1] = value[w] /\ cnt'[w] = Slots
        BY <1>0, <1>5, <2>1, <3>1 DEF SaveChecksum, U32TypeOK
      <4> QED BY <2>1, <3>1, <4>1 DEF LastRecord
    <3>2. CASE ~(w = saving /\ cnt[w] = Slots - 1)
      <4>1. flash'[w][Slots - 1] = flash[w][Slots - 1]
        BY <1>0, <1>5, <2>1, <3>2 DEF SaveChecksum, U32TypeOK
      <4>2. w # saving => cnt'[w] = cnt[w]
        BY <1>0, <1>5, <2>1 DEF SaveChecksum, U32TypeOK
      <4> QED BY <1>5, <2>1, <3>2, <4>1, <4>2 DEF LastRecord, NoOverrun, SaveChecksum
    <3> QED BY <3>1, <3>2
  <2> QED BY <1>5, <2>2 DEF NoOverrun, SaveChecksum
<1>6. CASE SaveMismatch
  <2>1. saving \in Var /\ cnt[saving] \in 0 .. Slots - 2 /\ saving' = saving /\ saveStep' = "erase"
    BY <1>0, <1>6 DEF SaveMismatch, U32TypeOK, NoOverrun
  <2>2. cnt'[saving] < Slots
    BY <1>0, <1>6, <2>1 DEF SaveMismatch, U32TypeOK
  <2>3. ASSUME NEW w \in Var PROVE LastRecord(w)'
    <3>1. flash'[w][Slots - 1] = flash[w][Slots - 1]
      BY <1>0, <1>6, <2>1 DEF SaveMismatch, U32TypeOK
    <3>2. w # saving => cnt'[w] = cnt[w]
      BY <1>0, <1>6, <2>1 DEF SaveMismatch, U32TypeOK
    <3> QED BY <1>6, <2>1, <3>1, <3>2 DEF LastRecord, NoOverrun, SaveMismatch
  <2> QED BY <2>1, <2>2, <2>3 DEF NoOverrun
<1>7. CASE PowerCut
  <2>1. ~(saveStep = "checksum" /\ cnt[saving] = Slots - 1)
    BY <1>7 DEF PowerCut
  <2>2. ASSUME NEW w \in Var, flash[w][Slots - 1] # Blank
        PROVE  flash[w][Slots - 1] \in Value /\ Loaded(flash, w).cnt = Slots
    <3>1. flash[w][Slots - 1] \in Value
      BY <2>1, <2>2 DEF NoOverrun, LastRecord
    <3>2. PICK x \in acceptable[w] : Finds(flash[w], Slots, x)
      BY DEF Sound, Survives
    <3>3. /\ Loaded(flash, w).cnt \in 0 .. Slots
          /\ \A n \in Slot : n >= Loaded(flash, w).cnt => flash[w][n] \notin Value
      BY <3>2, LoadFinds
    <3> QED BY <1>0, <3>1, <3>3
  <2> QED BY <1>7, <2>2 DEF PowerCut, DB_U32Load, NoOverrun, LastRecord
<1> QED BY <1>1, <1>2, <1>3, <1>4, <1>5, <1>6, <1>7 DEF U32Step, U32Next

-----------------------------------------------------------------------------
\* What is found survives every step.

\* A record that is not good hides nothing.
LEMMA FindsMore ==
  ASSUME NEW f, NEW c \in Nat, NEW d \in Nat, NEW x, Finds(f, c, x), c <= d,
         \A n \in Slot : n >= c /\ n < d => f[n] \notin Value
  PROVE  Finds(f, d, x)
BY DEF Finds, Slot

LEMMA FindsLess ==
  ASSUME NEW f, NEW c \in Nat, NEW d \in Nat, NEW x, Finds(f, d, x), c <= d,
         \A n \in Slot : n >= c => f[n] \notin Value
  PROVE  Finds(f, c, x)
BY DEF Finds, Slot

LEMMA FindsSame ==
  ASSUME NEW f, NEW g, NEW c \in Nat, NEW x, Finds(f, c, x), \A n \in Slot : n < c => g[n] = f[n]
  PROVE  Finds(g, c, x)
BY DEF Finds, Slot

\* The record written last is found.
LEMMA FindsLast ==
  ASSUME NEW f, NEW c \in Slot, f[c] \in Value, \A n \in Slot : n > c => f[n] \notin Value
  PROVE  Finds(f, Slots, f[c])
BY U32Assumption DEF Finds, Slot

\* A variable whose sector a step leaves alone.
LEMMA OtherSurvives ==
  ASSUME Sound, NEW v \in Var, v # saving, v # saving' \/ saveStep' = "erase",
         flash'[v] = flash[v], acceptable[v] \subseteq acceptable'[v],
         cnt'[v] = cnt[v] \/ (v = saving' /\ cnt'[v] = 0),
         v = saving' => value'[v] \in acceptable'[v]
  PROVE  Survives(v)'
<1>1. Survives(v) /\ NoneFrom(v, cnt[v])
  BY DEF Sound, Survives, CursorBehind
<1>2. CursorBehind(v)'
  BY <1>1 DEF CursorBehind, NoneFrom
<1> QED BY <1>1, <1>2 DEF Survives, Writing

LEMMA SavedStays ==
  ASSUME Sound, U32Step, U32TypeOK', NEW v \in Var
  PROVE  Survives(v)'
<1> USE U32Assumption, FlashAssumption DEF history
<1>0. U32TypeOK /\ Survives(v) /\ Blank \notin Value /\ Torn \notin Value
  BY DEF Sound
<1>1. CASE SetValue
  <2>1. /\ saving = -1 /\ saving' = saving /\ flash' = flash /\ acceptable' = acceptable
        /\ cnt' = cnt /\ v # saving
    BY <1>1 DEF SetValue, Var
  <2> QED BY <1>0, <2>1, OtherSurvives
<1>2. CASE DB_U32Save
  <2>1. v # saving
    BY <1>2 DEF DB_U32Save, Var
  <2>2. /\ flash' = flash /\ saveStep' = "erase" /\ acceptable[v] \subseteq acceptable'[v]
        /\ cnt'[v] = cnt[v] \/ (v = saving' /\ cnt'[v] = 0)
        /\ v = saving' => value'[v] \in acceptable'[v]
    BY <1>0, <1>2 DEF DB_U32Save, U32TypeOK
  <2> QED BY <1>0, <2>1, <2>2, OtherSurvives
<1>3. CASE PowerCut
  <2>1. PICK x \in acceptable[v] : Finds(flash[v], Slots, x)
    BY <1>0 DEF Survives
  <2>2. \A n \in Slot : n >= Loaded(flash, v).cnt => flash[v][n] \notin Value
    BY <2>1, LoadFinds
  <2> QED BY <1>3, <2>1, <2>2 DEF PowerCut, DB_U32Load, Survives, CursorBehind, NoneFrom, Var,
                                  Writing
<1>4. CASE saving \in Var /\ v # saving /\ (SaveErase \/ SaveValue \/ SaveChecksum \/ SaveMismatch)
  <2>1. /\ flash'[v] = flash[v] /\ acceptable'[v] = acceptable[v] /\ cnt'[v] = cnt[v]
        /\ v # saving'
    <3>1. CASE SaveErase
      BY <1>0, <1>4, <3>1 DEF SaveErase, U32TypeOK
    <3>2. CASE SaveValue
      BY <1>0, <1>4, <3>2 DEF SaveValue, U32TypeOK
    <3>3. CASE SaveChecksum
      BY <1>0, <1>4, <3>3 DEF SaveChecksum, U32TypeOK, Var
    <3>4. CASE SaveMismatch
      BY <1>0, <1>4, <3>4 DEF SaveMismatch, U32TypeOK
    <3> QED BY <1>4, <3>1, <3>2, <3>3, <3>4
  <2> QED BY <1>0, <1>4, <2>1, OtherSurvives
<1>5. CASE v = saving /\ SaveErase
  <2>1. saving' = saving /\ cnt' = cnt /\ value' = value /\ cnt[v] \in 0 .. Slots /\ saveStep = "erase"
    BY <1>0, <1>5 DEF SaveErase, U32TypeOK
  <2>2. CASE cnt[v] = 0
    <3>1. flash'[v] = [n \in Slot |-> Blank] /\ acceptable'[v] = acceptable[v] \union {0}
      BY <1>0, <1>5, <2>2 DEF SaveErase, U32TypeOK
    <3>2. saveStep' = "value"
      BY <1>5, <2>2 DEF SaveErase
    <3>3. Finds(flash'[v], Slots, 0) /\ Finds(flash'[v], cnt'[v], 0)
      BY <1>0, <3>1 DEF Finds
    <3>4. NoneFrom(v, cnt[v])'
      BY <1>0, <3>1 DEF NoneFrom
    <3> QED BY <1>0, <1>5, <2>1, <3>1, <3>2, <3>3, <3>4 DEF Survives, CursorBehind
  <2>3. CASE cnt[v] # 0
    <3>1. flash' = flash /\ acceptable' = acceptable /\ saveStep' \in {"overrun", "value"}
      BY <1>5, <2>3 DEF SaveErase
    <3>2. NoneFrom(v, cnt[v])
      BY <1>0, <1>5, <2>1, <2>3 DEF Survives, CursorBehind
    <3>3. PICK x \in acceptable[v] : Finds(flash[v], Slots, x)
      BY <1>0 DEF Survives
    <3>4. Finds(flash[v], cnt[v], x)
      BY <2>1, <3>2, <3>3, FindsLess DEF NoneFrom
    <3> QED BY <1>0, <1>5, <2>1, <3>1, <3>2, <3>3, <3>4 DEF Survives, CursorBehind, NoneFrom
  <2> QED BY <2>2, <2>3
<1>6. CASE v = saving /\ SaveValue
  <2>1. PICK r \in {Torn, value[v]} : flash' = [flash EXCEPT ![v][cnt[v]] = r]
    BY <1>6 DEF SaveValue
  <2>2. /\ saving' = v /\ cnt' = cnt /\ value' = value /\ acceptable' = acceptable
        /\ saveStep' \in {"checksum", "mismatch"} /\ saveStep = "value"
        /\ cnt[v] \in Slot /\ value[v] \in acceptable[v] /\ value[v] \in Value
    BY <1>0, <1>6 DEF SaveValue, U32TypeOK, Writing, Slot, Survives
  <2>3. \A n \in Slot : flash'[v][n] = IF n = cnt[v] THEN r ELSE flash[v][n]
    BY <1>0, <2>1, <2>2 DEF U32TypeOK
  <2>4. NoneFrom(v, cnt[v])
    BY <1>0, <1>6, <2>2 DEF Survives, CursorBehind
  <2>5. \A n \in Slot : n > cnt[v] => flash'[v][n] \notin Value
    BY <2>2, <2>3, <2>4 DEF NoneFrom, Slot
  <2>6. PICK x \in acceptable[v] : Finds(flash[v], cnt[v], x)
    BY <1>0, <1>6, <2>2 DEF Survives, Writing
  <2>7. Finds(flash'[v], cnt[v], x)
    BY <2>2, <2>3, <2>6, FindsSame DEF Slot
  <2>8. \E y \in acceptable[v] : Finds(flash'[v], Slots, y)
    <3>1. CASE flash'[v][cnt[v]] \in Value
      BY <1>0, <2>1, <2>2, <2>3, <2>5, <3>1, FindsLast
    <3>2. CASE flash'[v][cnt[v]] \notin Value
      <4>1. \A n \in Slot : n >= cnt[v] /\ n < Slots => flash'[v][n] \notin Value
        BY <2>2, <2>5, <3>2 DEF Slot
      <4>2. cnt[v] \in Nat /\ Slots \in Nat /\ cnt[v] <= Slots
        BY <2>2 DEF Slot
      <4> QED BY <2>7, <4>1, <4>2, FindsMore
    <3> QED BY <3>1, <3>2
  <2>9. CursorBehind(v)'
    BY <2>2, <2>5 DEF CursorBehind, NoneFrom, Slot
  <2> QED BY <2>2, <2>6, <2>7, <2>8, <2>9 DEF Survives
<1>7. CASE v = saving /\ SaveChecksum
  <2>1. /\ saving' = -1 /\ value[v] \in Value /\ saveStep = "checksum" /\ cnt[v] \in Slot
        /\ flash' = [flash EXCEPT ![v][cnt[v]] = value[v]]
        /\ cnt'[v] = cnt[v] + 1 /\ acceptable'[v] = {value[v]}
    BY <1>0, <1>7 DEF SaveChecksum, U32TypeOK, Writing, Slot
  <2>2. \A n \in Slot : flash'[v][n] = IF n = cnt[v] THEN value[v] ELSE flash[v][n]
    BY <1>0, <2>1 DEF U32TypeOK
  <2>3. NoneFrom(v, cnt[v] + 1)
    BY <1>0, <1>7, <2>1 DEF Survives, CursorBehind
  <2>4. \A n \in Slot : n > cnt[v] => flash'[v][n] \notin Value
    BY <2>1, <2>2, <2>3 DEF NoneFrom, Slot
  <2>5. Finds(flash'[v], Slots, value[v])
    <3>1. flash'[v][cnt[v]] = value[v]
      BY <2>1, <2>2
    <3> QED BY <2>1, <2>4, <3>1, FindsLast
  <2>6. v # saving' /\ NoneFrom(v, cnt[v])'
    BY <2>1, <2>4 DEF NoneFrom, Slot, Var
  <2> QED BY <2>1, <2>5, <2>6 DEF Survives, CursorBehind
<1>8. CASE v = saving /\ SaveMismatch
  <2>1. /\ saving' = v /\ value' = value /\ acceptable' = acceptable
        /\ saveStep = "mismatch" /\ saveStep' = "erase" /\ cnt[v] \in Slot
        /\ flash' = [flash EXCEPT ![v][cnt[v]] = Torn] /\ cnt'[v] = cnt[v] + 1
    BY <1>0, <1>8 DEF SaveMismatch, U32TypeOK, Writing, Slot
  <2>2. \A n \in Slot : flash'[v][n] = IF n = cnt[v] THEN Torn ELSE flash[v][n]
    BY <1>0, <2>1 DEF U32TypeOK
  <2>3. NoneFrom(v, cnt[v] + 1)
    BY <1>0, <1>8, <2>1 DEF Survives, CursorBehind
  <2>4. \A n \in Slot : n >= cnt[v] => flash'[v][n] \notin Value
    BY <1>0, <2>1, <2>2, <2>3 DEF NoneFrom, Slot
  <2>5. PICK x \in acceptable[v] : Finds(flash[v], cnt[v], x)
    BY <1>0, <1>8, <2>1 DEF Survives, Writing
  <2>6. Finds(flash'[v], cnt[v], x)
    <3>1. cnt[v] \in Nat /\ \A n \in Slot : n < cnt[v] => flash'[v][n] = flash[v][n]
      BY <2>1, <2>2 DEF Slot
    <3> QED BY <2>5, <3>1, FindsSame
  <2>7. Finds(flash'[v], Slots, x)
    <3>1. cnt[v] \in Nat /\ Slots \in Nat /\ cnt[v] <= Slots
      BY <2>1 DEF Slot
    <3> QED BY <2>4, <2>6, <3>1, FindsMore
  <2>8. NoneFrom(v, cnt[v])' /\ cnt'[v] # 0
    BY <2>1, <2>4 DEF NoneFrom, Slot
  <2>9. value[v] \in acceptable[v]
    BY <1>0, <1>8 DEF Survives
  <2> QED BY <2>1, <2>5, <2>7, <2>8, <2>9 DEF Survives, CursorBehind, Writing
<1>9. SaveErase \/ SaveValue \/ SaveChecksum \/ SaveMismatch => saving \in Var
  BY <1>0 DEF SaveErase, SaveValue, SaveChecksum, SaveMismatch, U32TypeOK
<1> QED BY <1>1, <1>2, <1>3, <1>4, <1>5, <1>6, <1>7, <1>8, <1>9 DEF U32Step, U32Next

-----------------------------------------------------------------------------
LEMMA U32Inductive == U32Inv /\ [U32Next]_u32Vars => U32Inv'
<1> SUFFICES ASSUME U32Inv, [U32Next]_u32Vars PROVE U32Inv'
  OBVIOUS
<1>1. CASE UNCHANGED u32Vars
  BY <1>1 DEF u32Vars, U32Inv, U32TypeOK, NoOverrun, LastRecord, Survives, Finds, CursorBehind,
              NoneFrom
<1>2. CASE U32Next
  <2>1. tornLast' \in BOOLEAN /\ (tornLast => tornLast') /\ overrun' \in BOOLEAN /\ (overrun => overrun')
    BY <1>2 DEF U32Inv, U32Next, SetValue, DB_U32Save, SaveErase, SaveValue, SaveChecksum,
                SaveMismatch, SaveOverrun, PowerCut, history
  <2>2. CASE overrun
    BY <2>1, <2>2 DEF U32Inv
  <2>3. CASE ~overrun /\ SaveOverrun
    <3>1. tornLast /\ overrun'
      BY <2>3 DEF U32Inv, NoOverrun, SaveOverrun
    <3> QED BY <2>1, <3>1 DEF U32Inv
  <2>4. CASE ~overrun /\ U32Step
    <3>1. Sound /\ ~overrun'
      BY <2>4 DEF Sound, U32Inv, U32Step, U32Next, SetValue, DB_U32Save, SaveErase, SaveValue,
                  SaveChecksum, SaveMismatch, PowerCut, history
    <3>2. U32TypeOK'
      BY <2>4, <3>1, U32Typed
    <3>3. ~tornLast' => NoOverrun'
      BY <2>1, <2>4, <3>1, LastRecordStays DEF U32Inv
    <3>4. \A v \in Var : Survives(v)'
      BY <2>4, <3>1, <3>2, SavedStays
    <3> QED BY <2>1, <3>1, <3>2, <3>3, <3>4 DEF U32Inv
  <2> QED BY <1>2, <2>2, <2>3, <2>4 DEF U32Step
<1> QED BY <1>1, <1>2

\* The records and cursors of every variable are in order at every step of a
\* save, whatever the power cuts.
THEOREM U32Invariant == U32Spec => []U32Inv
BY U32Start, U32Inductive, PTL DEF U32Spec

\* DB_U32Save never writes behind the last record of a sector, where it would
\* erase its neighbour, unless a power cut tore just the last record.
THEOREM OverrunOnlyAfterTornLast == U32Spec => []OverrunNeedsTornLast
<1>1. U32Inv => OverrunNeedsTornLast
  BY DEF U32Inv, OverrunNeedsTornLast
<1> QED BY <1>1, U32Invariant, PTL

\* A reset at any step finds every variable as it was last saved or as it is
\* being saved, for any number of variables, records and cuts.
THEOREM SavedVariablesSurvive == U32Spec => []SavedSurvives
<1>1. U32Inv => SavedSurvives
  <2> SUFFICES ASSUME U32Inv, ~overrun, NEW v \in Var
               PROVE  Loaded(flash, v).value \in acceptable[v]
    BY DEF SavedSurvives
  <2>1. PICK x \in acceptable[v] : Finds(flash[v], Slots, x)
    BY DEF U32Inv, Survives
  <2> QED BY <2>1, LoadFinds
<1> QED BY <1>1, U32Invariant, PTL

-----------------------------------------------------------------------------
\* The log.  Good ring records end before the cursor, or at it.
LogTypeOK ==
  /\ ring \in Ring
  /\ ringFlash \in [SlotOf -> Ring \union {Blank, Torn}]
  /\ ringCnt \in 0 .. RingSlots
  /\ logStep \in {"idle", "data", "ringErase", "ringWrite"}
  /\ nextHead \in 0 .. N - 1

RingCursorBehind ==
  /\ logStep = "ringWrite" => ringCnt < RingSlots
  /\ \A n \in SlotOf : ringCnt < n => ringFlash[n] \notin Ring

LogInv == LogTypeOK /\ RingCursorBehind /\ RingSurvives

\* Of the ring records some are good: one of them is the last.
LEMMA LastOfSlots ==
  ASSUME NEW S, S \subseteq SlotOf, S # {}
  PROVE  \E n \in S : \A m \in S : m <= n
<1> DEFINE T == {RingSlots - n : n \in S}
<1>1. RingSlots \in Nat /\ \A n \in S : n \in Nat /\ n < RingSlots
  BY TrackerLogAssumption DEF SlotOf
<1>2. T \subseteq Nat /\ T # {}
  BY <1>1
<1>3. \E t \in T : \A u \in T : <<u, t>> \notin OpToRel(<, Nat)
  BY <1>2, NatLessThanWellFounded, WFMin
<1>4. PICK t \in T : \A u \in T : ~(u < t)
  BY <1>2, <1>3 DEF OpToRel
<1>5. PICK n \in S : t = RingSlots - n
  BY <1>4
<1>6. ASSUME NEW m \in S PROVE m <= n
  <2>1. ~(RingSlots - m < RingSlots - n)
    BY <1>4, <1>5
  <2> QED BY <1>1, <2>1
<1> QED BY <1>6

\* The ring record DB_InitLog takes is the last good one.
LEMMA NewestIsLast ==
  ASSUME NEW f, GoodRings(f) # {}
  PROVE  Newest(f) \in GoodRings(f) /\ \A m \in GoodRings(f) : m <= Newest(f)
<1>1. \E n \in GoodRings(f) : \A m \in GoodRings(f) : m <= n
  BY LastOfSlots DEF GoodRings
<1> QED BY <1>1 DEF Newest

\* An erased flash.
LEMMA LogStart == LogInit => LogInv
<1> SUFFICES ASSUME LogInit PROVE LogInv
  OBVIOUS
<1> USE TrackerLogAssumption DEF LogInit
<1>1. ringFlash = [n \in SlotOf |-> Blank] /\ GoodRings(ringFlash) = {}
  BY DEF GoodRings
<1>2. LogTypeOK
  BY DEF LogTypeOK, Empty, Ring
<1>3. RingCursorBehind
  BY DEF RingCursorBehind
<1>4. RingSurvives
  BY <1>1 DEF RingSurvives, Found
<1> QED BY <1>2, <1>3, <1>4 DEF LogInv

\* What happens to the data leaves the ring records alone.
LEMMA DataKeepsRings ==
  ASSUME LogInv, UNCHANGED <<ringFlash, ringCnt, recorded, spoiled>>,
         ring' \in Ring, nextHead' \in 0 .. N - 1,
         logStep' \in {"idle", "data", "ringErase"}
  PROVE  LogInv'
<1>1. LogTypeOK'
  BY DEF LogInv, LogTypeOK
<1>2. RingCursorBehind'
  BY DEF LogInv, RingCursorBehind
<1>3. RingSurvives'
  BY DEF LogInv, RingSurvives, Found, GoodRings, Newest
<1> QED BY <1>1, <1>2, <1>3 DEF LogInv

\* Head and tail stay in the ring of records.
LEMMA Positions ==
  /\ \A p \in 0 .. N - 1 : After(p) \in 0 .. N - 1 /\ FirstBehind(SectorOf(p)) \in 0 .. N - 1
  /\ Empty \in Ring
<1> USE TrackerLogAssumption
<1>1. ASSUME NEW p \in 0 .. N - 1 PROVE After(p) \in 0 .. N - 1
  BY DEF After
<1>2. ASSUME NEW p \in 0 .. N - 1 PROVE FirstBehind(SectorOf(p)) \in 0 .. N - 1
  <2> DEFINE r == p * RecordCells
             s == r \div SectorCells
             e == (s + 1) * SectorCells
             g == (e + RecordCells - 1) \div RecordCells
  <2>1. r \in Nat
    OBVIOUS
  <2> HIDE DEF r
  <2>2. s \in Nat
    BY <2>1
  <2> HIDE DEF s
  <2>3. e \in Nat
    BY <2>2
  <2> HIDE DEF e
  <2>4. g \in Nat
    BY <2>3
  <2> HIDE DEF g
  <2>5. FirstBehind(SectorOf(p)) = IF g >= N THEN 0 ELSE g
    BY DEF FirstBehind, SectorOf, g, e, s, r
  <2> QED BY <2>4, <2>5
<1>3. Empty \in Ring
  BY DEF Empty, Ring
<1> QED BY <1>1, <1>2, <1>3

\* The sector is erased when it is full, the cursor with it (DB_LogRingSave).
LEMMA RingEraseKeeps == LogInv /\ RingErase => LogInv'
<1> SUFFICES ASSUME LogInv, RingErase PROVE LogInv'
  OBVIOUS
<1> USE TrackerLogAssumption DEF LogInv
<1>1. CASE ringCnt >= RingSlots \/ ringCnt = 0
  <2>1. /\ ringFlash' = [n \in SlotOf |-> Blank] /\ ringCnt' = 0 /\ Empty \in recorded'
        /\ UNCHANGED <<ring, nextHead>> /\ logStep' = "ringWrite"
    BY <1>1 DEF RingErase
  <2>2. GoodRings(ringFlash') = {} /\ Found(ringFlash') = Empty
    BY <2>1 DEF GoodRings, Found
  <2> QED BY <2>1, <2>2 DEF LogTypeOK, RingCursorBehind, RingSurvives
<1>2. CASE ~(ringCnt >= RingSlots \/ ringCnt = 0)
  <2>1. /\ UNCHANGED <<ringFlash, ringCnt, ring, nextHead>> /\ logStep' = "ringWrite"
        /\ recorded \subseteq recorded' /\ (~spoiled' => ~spoiled)
    BY <1>2 DEF RingErase
  <2>2. Found(ringFlash') = Found(ringFlash)
    BY <2>1
  <2>3. ringCnt < RingSlots
    BY <1>2 DEF LogTypeOK
  <2> QED BY <2>1, <2>2, <2>3 DEF LogTypeOK, RingCursorBehind, RingSurvives
<1> QED BY <1>1, <1>2

\* A ring record written at the cursor is the last good one.
LEMMA RingWriteKeeps == LogInv /\ RingWrite => LogInv'
<1> SUFFICES ASSUME LogInv, RingWrite PROVE LogInv'
  OBVIOUS
<1> USE TrackerLogAssumption DEF LogInv
<1>1. /\ ringCnt \in SlotOf /\ ringCnt' = ringCnt + 1 /\ recorded' = {ring}
      /\ UNCHANGED <<ring, nextHead>> /\ logStep' = "idle"
      /\ (~spoiled' => ringFlash[ringCnt] = Blank)
  <2>1. /\ ringCnt \in SlotOf /\ ringCnt' = ringCnt + 1 /\ recorded' = {ring}
        /\ UNCHANGED <<ring, nextHead>> /\ logStep' = "idle"
    BY DEF RingWrite, LogTypeOK, RingCursorBehind, SlotOf
  <2>2. ~spoiled' => ringFlash[ringCnt] = Blank
    BY Zenon DEF RingWrite
  <2> QED BY <2>1, <2>2
<1>2. PICK r \in {ring, Torn} : /\ ringFlash' = [ringFlash EXCEPT ![ringCnt] = r]
                                /\ ringFlash[ringCnt] = Blank => r = ring
  BY DEF RingWrite
<1>3. \A n \in SlotOf : ringFlash'[n] = IF n = ringCnt THEN r ELSE ringFlash[n]
  BY <1>1, <1>2 DEF LogTypeOK
<1>4. LogTypeOK'
  BY <1>1, <1>2, <1>3 DEF LogTypeOK, SlotOf
<1>5. RingCursorBehind'
  BY <1>1, <1>3 DEF RingCursorBehind, LogTypeOK, SlotOf
<1>6. RingSurvives'
  <2> SUFFICES ASSUME ~spoiled' PROVE Found(ringFlash') = ring
    BY <1>1 DEF RingSurvives
  <2>1. r = ring /\ ring \in Ring
    BY <1>1, <1>2 DEF LogTypeOK
  <2>2. ringCnt \in GoodRings(ringFlash') /\ \A m \in GoodRings(ringFlash') : m <= ringCnt
    BY <1>1, <1>3, <2>1 DEF GoodRings, RingCursorBehind, SlotOf
  <2>3. Newest(ringFlash') = ringCnt
    <3>1. Newest(ringFlash') \in GoodRings(ringFlash') /\ ringCnt <= Newest(ringFlash')
      BY <2>2, NewestIsLast
    <3> QED BY <2>2, <3>1 DEF GoodRings, SlotOf
  <2> QED BY <1>1, <1>3, <2>1, <2>2, <2>3 DEF Found
<1> QED BY <1>4, <1>5, <1>6

\* DB_InitLog puts the cursor at the last good ring record or behind it.
LEMMA ResetKeepsLog == LogInv /\ Reset_DB_InitLog => LogInv'
<1> SUFFICES ASSUME LogInv, Reset_DB_InitLog PROVE LogInv'
  OBVIOUS
<1> USE TrackerLogAssumption DEF LogInv
<1>1. ringFlash' \in [SlotOf -> Ring \union {Blank, Torn}]
  BY DEF Reset_DB_InitLog, LogTypeOK
<1>2. /\ ring' \in {Empty, Found(ringFlash')}
      /\ ringCnt' \in Cursors(ringFlash')
      /\ Found(ringFlash') \in recorded'
      /\ logStep' \in {"idle", "ringErase"} /\ UNCHANGED nextHead
  BY DEF Reset_DB_InitLog
<1>3. Found(ringFlash') \in Ring
  BY NewestIsLast, Positions DEF Found, GoodRings
<1>4. ringCnt' \in SlotOf /\ \A n \in SlotOf : ringCnt' < n => ringFlash'[n] \notin Ring
  <2>1. CASE GoodRings(ringFlash') = {}
    BY <1>2, <2>1 DEF Cursors, GoodRings, SlotOf
  <2>2. CASE GoodRings(ringFlash') # {}
    <3>1. Newest(ringFlash') \in SlotOf /\ \A m \in GoodRings(ringFlash') : m <= Newest(ringFlash')
      BY <2>2, NewestIsLast DEF GoodRings
    <3>2. ringCnt' \in SlotOf /\ \A m \in GoodRings(ringFlash') : m <= ringCnt'
      BY <1>2, <2>2, <3>1 DEF Cursors, GoodRings, SlotOf
    <3> QED BY <3>2 DEF GoodRings, SlotOf
  <2> QED BY <2>1, <2>2
<1>5. LogTypeOK'
  <2>1. ring' \in Ring
    BY <1>2, <1>3, Positions
  <2>2. ringCnt' \in 0 .. RingSlots
    BY <1>4 DEF SlotOf
  <2>3. logStep' \in {"idle", "data", "ringErase", "ringWrite"} /\ nextHead' \in 0 .. N - 1
    BY <1>2 DEF LogTypeOK
  <2> QED BY <1>1, <2>1, <2>2, <2>3 DEF LogTypeOK
<1>6. RingCursorBehind'
  BY <1>2, <1>4 DEF RingCursorBehind
<1>7. RingSurvives'
  BY <1>2 DEF RingSurvives
<1> QED BY <1>5, <1>6, <1>7

\* Every step.
LEMMA LogNextKeeps == LogInv /\ [LogNext]_logVars => LogInv'
<1> SUFFICES ASSUME LogInv, [LogNext]_logVars PROVE LogInv'
  OBVIOUS
<1>1. ring \in [head : 0 .. N - 1, tail : 0 .. N - 1] /\ nextHead \in 0 .. N - 1
      /\ logStep \in {"idle", "data", "ringErase", "ringWrite"}
  BY DEF LogInv, LogTypeOK, Ring
<1>2. CASE SaveBegins
  <2>1. nextHead' \in 0 .. N - 1
    BY <1>1, <1>2, Positions DEF SaveBegins
  <2>2. ring' \in Ring
    BY <1>1, <1>2, <2>1, Positions DEF SaveBegins, Ring
  <2> QED BY <1>2, <2>1, <2>2, DataKeepsRings DEF SaveBegins
<1>3. CASE SaveData
  <2>1. ring' \in Ring
    BY <1>1, <1>3 DEF SaveData, Ring
  <2> QED BY <1>1, <1>3, <2>1, DataKeepsRings DEF SaveData
<1>4. CASE RingErase
  BY <1>4, RingEraseKeeps
<1>5. CASE RingWrite
  BY <1>5, RingWriteKeeps
<1>6. CASE DB_LoadDataLogTail
  <2>1. ring' \in Ring
    BY <1>1, <1>6, Positions DEF DB_LoadDataLogTail, Ring
  <2> QED BY <1>1, <1>6, <2>1, DataKeepsRings DEF DB_LoadDataLogTail
<1>7. CASE DB_LogRingReset
  BY <1>1, <1>7, DataKeepsRings, Positions DEF DB_LogRingReset
<1>8. CASE Reset_DB_InitLog
  BY <1>8, ResetKeepsLog
<1>9. CASE UNCHANGED logVars
  BY <1>9 DEF logVars, LogInv, LogTypeOK, RingCursorBehind, RingSurvives, Found, GoodRings, Newest
<1> QED BY <1>2, <1>3, <1>4, <1>5, <1>6, <1>7, <1>8, <1>9 DEF LogNext

\* The invariant of the ring records, for any size of log, record and sector.
THEOREM LogInvariant == LogSpec => []LogInv
<1>1. LogInit => LogInv
  BY LogStart
<1> QED BY <1>1, LogNextKeeps, PTL DEF LogSpec

\* A reset finds head and tail as last recorded or as being recorded
\* (DB_LogRingSave, DB_InitLog), whenever it comes, unless the newest record
\* was written over.
THEOREM RingRecordsSurvive == LogSpec => []RingSurvives
<1>1. LogInv => RingSurvives
  BY DEF LogInv
<1> QED BY <1>1, LogInvariant, PTL

-----------------------------------------------------------------------------
\* Integer division: what the provers are told of it.
LEMMA Quotient ==
  ASSUME NEW a \in Nat, NEW b \in Nat \ {0}
  PROVE  a \div b \in Nat /\ b * (a \div b) <= a /\ a < b * (a \div b) + b
OBVIOUS

\* A multiple of k is at least k below the next.
LEMMA TimesGrows ==
  ASSUME NEW k \in Nat, NEW p \in Nat, NEW q \in Nat, p < q
  PROVE  p * k + k <= q * k
<1>1. PICK d \in Nat : q = p + 1 + d
  BY q - p - 1 \in Nat
<1>2. q * k = p * k + k + d * k
  BY <1>1
<1>3. d * k \in Nat
  OBVIOUS
<1> QED BY <1>2, <1>3

\* A quotient is the number that bounds it on both sides.
LEMMA QuotientIs ==
  ASSUME NEW a \in Nat, NEW b \in Nat \ {0}, NEW q \in Nat, q * b <= a, a < q * b + b
  PROVE  a \div b = q
<1> DEFINE d == a \div b
<1>1. d \in Nat /\ d * b <= a /\ a < d * b + b
  BY Quotient
<1> HIDE DEF d
<1>2. ~(d < q)
  BY <1>1, TimesGrows
<1>3. ~(q < d)
  BY <1>1, TimesGrows
<1> QED BY <1>1, <1>2, <1>3 DEF d

\* Division is monotonic.
LEMMA QuotientGrows ==
  ASSUME NEW a \in Nat, NEW c \in Nat, NEW b \in Nat \ {0}, a <= c
  PROVE  a \div b <= c \div b
<1> DEFINE d == a \div b
           e == c \div b
<1>1. d \in Nat /\ d * b <= a /\ a < d * b + b
  BY Quotient
<1>2. e \in Nat /\ e * b <= c /\ c < e * b + b
  BY Quotient
<1> HIDE DEF d, e
<1>3. ~(e < d)
  BY <1>1, <1>2, TimesGrows
<1> QED BY <1>1, <1>2, <1>3 DEF d, e

\* Remainder and quotient.
LEMMA Remainder ==
  ASSUME NEW a \in Nat, NEW b \in Nat \ {0}
  PROVE  a % b = a - (a \div b) * b
OBVIOUS

\* One turn round a ring of n.
LEMMA InTurn ==
  ASSUME NEW x \in Nat, NEW n \in Nat \ {0}, x < 2 * n
  PROVE  x % n = IF x < n THEN x ELSE x - n
<1>1. CASE x < n
  <2>1. x \div n = 0
    BY <1>1, QuotientIs
  <2> QED BY <1>1, <2>1, Remainder
<1>2. CASE ~(x < n)
  <2>1. x \div n = 1
    BY <1>2, QuotientIs
  <2> QED BY <1>2, <2>1, Remainder
<1> QED BY <1>1, <1>2

-----------------------------------------------------------------------------
\* Cells and sectors.
Sec(c) == c \div SectorCells
Begin(p) == p * RecordCells

\* Later cells are in no earlier sector.
LEMMA SectorGrows ==
  ASSUME NEW c \in Nat, NEW d \in Nat, c <= d
  PROVE  Sec(c) \in Nat /\ Sec(c) <= Sec(d)
BY TrackerLogAssumption, Quotient, QuotientGrows DEF Sec

\* The first cell of a sector.
LEMMA StartOfSector ==
  ASSUME NEW s \in Nat
  PROVE  /\ s * SectorCells \in Nat
         /\ Sec(s * SectorCells) = s
         /\ (s * SectorCells) % SectorCells = 0
<1> DEFINE a == s * SectorCells
<1> USE TrackerLogAssumption
<1>1. a \in Nat /\ s * SectorCells <= a /\ a < s * SectorCells + SectorCells
  OBVIOUS
<1>2. a \div SectorCells = s
  <2> HIDE DEF a
  <2> QED BY <1>1, QuotientIs
<1>3. a % SectorCells = a - (a \div SectorCells) * SectorCells
  <2> HIDE DEF a
  <2> QED BY <1>1, Remainder
<1> QED BY <1>1, <1>2, <1>3 DEF Sec

\* A cell at the beginning of a sector, and those before it.
LEMMA StartIsFirst ==
  ASSUME NEW c \in Nat, NEW d \in Nat, d % SectorCells = 0
  PROVE  /\ c < d => Sec(c) < Sec(d)
         /\ d = Sec(d) * SectorCells
<1> USE TrackerLogAssumption
<1>1. /\ Sec(d) \in Nat /\ Sec(d) * SectorCells <= d
      /\ Sec(c) \in Nat /\ Sec(c) * SectorCells <= c
  BY Quotient DEF Sec
<1>2. d = Sec(d) * SectorCells
  <2>1. d % SectorCells = d - (d \div SectorCells) * SectorCells
    BY Remainder
  <2> QED BY <1>1, <2>1 DEF Sec
<1>3. ASSUME c < d PROVE Sec(c) < Sec(d)
  <2>1. ~(Sec(d) < Sec(c))
    BY <1>1, <1>2, <1>3, TimesGrows
  <2>2. Sec(c) # Sec(d)
    <3>1. ASSUME Sec(c) = Sec(d) PROVE FALSE
      BY <1>1, <1>2, <1>3, <3>1
    <3> QED BY <3>1
  <2> QED BY <1>1, <2>1, <2>2
<1> QED BY <1>2, <1>3

\* Between cells of two sectors the later one begins.
LEMMA SectorBegins ==
  ASSUME NEW b \in Nat, NEW c \in Nat, b <= c, Sec(b) # Sec(c)
  PROVE  \E d \in b .. c : d % SectorCells = 0 /\ Sec(d) = Sec(c)
<1> DEFINE d == Sec(c) * SectorCells
<1>1. Sec(c) \in Nat /\ Sec(b) \in Nat /\ Sec(b) <= Sec(c) /\ d <= c
  <2>1. Sec(c) \in Nat /\ Sec(b) \in Nat /\ Sec(b) <= Sec(c)
    BY SectorGrows
  <2>2. SectorCells * Sec(c) <= c
    BY TrackerLogAssumption, Quotient DEF Sec
  <2> QED BY <2>1, <2>2, TrackerLogAssumption
<1>2. d \in Nat /\ Sec(d) = Sec(c) /\ d % SectorCells = 0
  BY <1>1, StartOfSector
<1> HIDE DEF d
<1>3. b <= d
  <2>1. ASSUME d < b PROVE FALSE
    BY <1>1, <1>2, <2>1, SectorGrows
  <2> QED BY <1>2, <2>1
<1> QED BY <1>1, <1>2, <1>3

\* Records follow one another in the area, without a gap or an overlap.
LEMMA BeginGrows ==
  ASSUME NEW p \in Nat, NEW q \in Nat
  PROVE  /\ Begin(p) \in Nat
         /\ p < q => Begin(p) + RecordCells <= Begin(q)
         /\ p <= q => Begin(p) <= Begin(q) /\ Sec(Begin(p)) <= Sec(Begin(q))
<1> USE TrackerLogAssumption
<1>1. Begin(p) \in Nat /\ Begin(q) \in Nat
  BY DEF Begin
<1>2. p < q => Begin(p) + RecordCells <= Begin(q)
  BY TimesGrows DEF Begin
<1>3. p <= q => Begin(p) <= Begin(q)
  BY <1>1, <1>2 DEF Begin
<1> QED BY <1>1, <1>2, <1>3, SectorGrows

\* A record's cells are in the area, also those of the last one.
LEMMA CellsOfRecord ==
  ASSUME NEW p \in 0 .. N - 1
  PROVE  /\ CellsOf(p) = Begin(p) .. Begin(p) + RecordCells - 1
         /\ CellsOf(p) \subseteq Cell
         /\ SectorOf(p) = Sec(Begin(p)) /\ SectorOf(p) \in Nat
<1> USE TrackerLogAssumption
<1>1. (p + 1) * RecordCells = Begin(p) + RecordCells
  BY DEF Begin
<1>2. CellsOf(p) = Begin(p) .. Begin(p) + RecordCells - 1
  BY <1>1 DEF CellsOf, Begin
<1>3. RecordCells * N <= AreaCells
  BY Quotient DEF N
<1>4. p < N /\ p \in Nat /\ N \in Nat
  OBVIOUS
<1>5. Begin(p) + RecordCells <= Begin(N) /\ Begin(p) \in Nat /\ Begin(N) \in Nat
  BY <1>4, BeginGrows
<1>6. Begin(N) <= AreaCells
  BY <1>3 DEF Begin
<1>7. SectorOf(p) = Sec(Begin(p)) /\ SectorOf(p) \in Nat
  BY <1>5, SectorGrows DEF SectorOf, Sec, Begin
<1>8. Begin(p) + RecordCells <= AreaCells
  BY <1>5, <1>6
<1>9. CellsOf(p) \subseteq Cell
  BY <1>2, <1>5, <1>8 DEF Cell
<1> QED BY <1>2, <1>7, <1>9

\* The sectors of a record's cells.
LEMMA RecordSectors ==
  ASSUME NEW p \in 0 .. N - 1, NEW c \in CellsOf(p)
  PROVE  /\ c \in Nat /\ Sec(c) \in Nat /\ SectorOf(p) <= Sec(c)
         /\ \A q \in 0 .. N - 1 : p < q => c < Begin(q) /\ Sec(c) <= SectorOf(q)
<1> USE TrackerLogAssumption
<1>1. /\ c \in Begin(p) .. Begin(p) + RecordCells - 1 /\ Begin(p) \in Nat
      /\ SectorOf(p) = Sec(Begin(p))
  <2>1. p \in Nat
    OBVIOUS
  <2>2. Begin(p) \in Nat
    BY <2>1, BeginGrows
  <2> QED BY <2>2, CellsOfRecord
<1>2. c \in Nat /\ Sec(c) \in Nat /\ SectorOf(p) <= Sec(c)
  BY <1>1, SectorGrows
<1>3. ASSUME NEW q \in 0 .. N - 1, p < q PROVE c < Begin(q) /\ Sec(c) <= SectorOf(q)
  <2>1. Begin(q) \in Nat /\ Begin(p) + RecordCells <= Begin(q) /\ SectorOf(q) = Sec(Begin(q))
    <3>1. p \in Nat /\ q \in Nat
      OBVIOUS
    <3>2. Begin(q) \in Nat /\ Begin(p) + RecordCells <= Begin(q)
      BY <1>3, <3>1, BeginGrows
    <3> QED BY <3>2, CellsOfRecord
  <2> QED BY <1>1, <1>2, <2>1, SectorGrows
<1> QED BY <1>2, <1>3

\* The tail is moved to the first record that begins behind a sector.
LEMMA FirstBehindIs ==
  ASSUME NEW s \in Nat
  PROVE  /\ FirstBehind(s) \in 0 .. N - 1
         /\ FirstBehind(s) # 0 => SectorOf(FirstBehind(s)) > s
         /\ \A q \in 0 .. N - 1 : SectorOf(q) > s => 0 < FirstBehind(s) /\ FirstBehind(s) <= q
<1> DEFINE a == (s + 1) * SectorCells
           x == a + RecordCells - 1
           f == x \div RecordCells
<1> USE TrackerLogAssumption
<1>1. a \in Nat /\ Sec(a) = s + 1 /\ a > 0
  <2>1. s + 1 \in Nat /\ 0 < s + 1
    OBVIOUS
  <2>2. 0 * SectorCells + SectorCells <= a
    BY <2>1, TimesGrows
  <2> QED BY <2>1, <2>2, StartOfSector
<1>2. FirstBehind(s) = IF f >= N THEN 0 ELSE f
  BY DEF FirstBehind
<1> HIDE DEF a
<1>3. x \in Nat
  BY <1>1
<1> HIDE DEF x
<1>4. f \in Nat /\ RecordCells * f <= x /\ x < RecordCells * f + RecordCells
  BY <1>3, Quotient
<1> HIDE DEF f
<1>5. Begin(f) >= a /\ Begin(f) < a + RecordCells /\ Begin(f) \in Nat
  BY <1>1, <1>4 DEF Begin, x
<1>6. f > 0
  BY <1>1, <1>4, <1>5 DEF Begin
<1>7. Sec(Begin(f)) > s
  BY <1>1, <1>5, SectorGrows
<1>8. ASSUME NEW q \in 0 .. N - 1, SectorOf(q) > s PROVE f <= q
  <2>1. ASSUME q < f PROVE FALSE
    <3>1. Begin(q) \in Nat /\ Begin(q) + RecordCells <= Begin(f)
      BY <1>4, <2>1, BeginGrows
    <3>2. Begin(q) < a
      BY <1>1, <1>5, <3>1
    <3>3. a % SectorCells = 0
      BY StartOfSector, s + 1 \in Nat DEF a
    <3>4. Sec(Begin(q)) < s + 1
      BY <1>1, <3>1, <3>2, <3>3, StartIsFirst
    <3>5. SectorOf(q) = Sec(Begin(q)) /\ SectorOf(q) \in Nat
      BY CellsOfRecord
    <3> QED BY <1>8, <3>4, <3>5
  <2> QED BY <1>4, <2>1
<1>9. f < N => SectorOf(f) > s
  BY <1>4, <1>7, CellsOfRecord
<1> QED BY <1>2, <1>4, <1>6, <1>8, <1>9
-----------------------------------------------------------------------------
\* What the cells hold.  The record at p is one of the log's; how many records
\* have been saved since, itself included; how many in all but the one under
\* way.
LiveAt(p) ==
  IF ring.tail <= ring.head THEN ring.tail <= p /\ p < ring.head
  ELSE ring.tail <= p \/ p < ring.head
AgeOf(p) == IF p < ring.head THEN ring.head - p ELSE ring.head - p + N
Completed == IF logStep = "data" THEN saves - 1 ELSE saves

\* The record under way leaves an empty log (if all records begin in one sector).
Empties == logStep = "data" /\ ring.tail = nextHead

RecordsWhole ==
  ~Empties =>
  \A p \in 0 .. N - 1 :
    LiveAt(p) => \A c \in CellsOf(p) : data[c] = Completed - AgeOf(p) + 1

\* From the head to the end of its sector the cells are blank, or the record at
\* the head begins a sector, which SST25_Write erases.
BlankAhead ==
  Begin(ring.head) % SectorCells # 0 =>
    \A c \in Cell : c >= Begin(ring.head) /\ Sec(c) = SectorOf(ring.head) => data[c] = Blank

\* While a record is written, the tail is out of the sector the head comes to,
\* and that is blank.
SectorReady ==
  logStep = "data" =>
    /\ nextHead = After(ring.head)
    /\ ring.tail > ring.head => SectorOf(ring.tail) > SectorOf(nextHead)
    /\ nextHead # 0 /\ SectorOf(nextHead) # SectorOf(ring.head) =>
         \A c \in Cell : Sec(c) = SectorOf(nextHead) => data[c] = Blank

LogDataInv ==
  /\ LogInv
  /\ saves \in Nat
  /\ ~harmed => /\ RecordsWhole /\ BlankAhead /\ SectorReady
                /\ logStep = "idle" => recorded = {ring}

\* Head, tail and the next head are positions of the ring.
LEMMA RingTyped ==
  ASSUME LogInv
  PROVE  /\ ring.head \in 0 .. N - 1 /\ ring.tail \in 0 .. N - 1 /\ nextHead \in 0 .. N - 1
         /\ ring = [head |-> ring.head, tail |-> ring.tail] /\ N \in Nat \ {0}
BY TrackerLogAssumption DEF LogInv, LogTypeOK, Ring

\* The sector the head comes to is erased: none of the log's records is there
\* any more.
LEMMA SaveBeginsKeepsData ==
  ASSUME LogDataInv, SaveBegins, ~harmed
  PROVE  RecordsWhole' /\ BlankAhead' /\ SectorReady'
<1> DEFINE h == ring.head
           t == ring.tail
           n == After(h)
           s == SectorOf(n)
           moves == s = SectorOf(t) /\ n <= t
<1> USE TrackerLogAssumption
<1>1. /\ h \in 0 .. N - 1 /\ t \in 0 .. N - 1 /\ n \in 0 .. N - 1
      /\ ring = [head |-> h, tail |-> t] /\ logStep = "idle" /\ saves \in Nat
      /\ n = IF h + 1 >= N THEN 0 ELSE h + 1
  BY RingTyped, Positions DEF LogDataInv, SaveBegins, After
<1>2. /\ nextHead' = n /\ saves' = saves + 1 /\ logStep' = "data"
      /\ ring'.head = h
      /\ ring'.tail = IF moves THEN FirstBehind(s) ELSE t
      /\ \A c \in Cell : data'[c] =
            IF s # SectorOf(h) /\ Sec(c) = s THEN Blank ELSE data[c]
  BY <1>1 DEF SaveBegins, CellsOfSector, Sec
<1>3. RecordsWhole /\ BlankAhead
  BY DEF LogDataInv
<1>4. \A p \in 0 .. N - 1 : SectorOf(p) = Sec(Begin(p)) /\ SectorOf(p) \in Nat
                             /\ CellsOf(p) \subseteq Cell
  BY CellsOfRecord
<1>5. \A p, q \in 0 .. N - 1 : p <= q => SectorOf(p) <= SectorOf(q)
  BY <1>4, BeginGrows
<1> HIDE DEF h, t, n, s
<1>6. s = SectorOf(n) /\ s \in Nat
  BY <1>1, <1>4 DEF s
<1>7. /\ FirstBehind(s) \in 0 .. N - 1
      /\ FirstBehind(s) # 0 => SectorOf(FirstBehind(s)) > s
      /\ \A q \in 0 .. N - 1 : SectorOf(q) > s => 0 < FirstBehind(s) /\ FirstBehind(s) <= q
  BY <1>6, FirstBehindIs
<1>8. ring'.tail \in 0 .. N - 1
  BY <1>1, <1>2, <1>7
<1>9. ASSUME ring'.tail > h PROVE SectorOf(ring'.tail) > s
  <2>1. CASE moves
    BY <1>1, <1>2, <1>7, <1>9, <2>1
  <2>2. CASE ~moves
    <3>1. t > h /\ n <= t /\ ring'.tail = t
      BY <1>1, <1>2, <1>9, <2>2
    <3>2. s # SectorOf(t) /\ s <= SectorOf(t) /\ SectorOf(t) \in Nat
      BY <1>1, <1>4, <1>5, <1>6, <2>2, <3>1
    <3> QED BY <1>6, <3>1, <3>2
  <2> QED BY <2>1, <2>2
\* What is left of the log was part of it, and is in other sectors.
<1>10. ASSUME NEW p \in 0 .. N - 1, LiveAt(p)', ring'.tail # n
       PROVE  LiveAt(p)
  <2>1. CASE moves
    <3>1. n <= t /\ s = SectorOf(t)
      BY <2>1
    <3>2. CASE ring'.tail = 0
      BY <1>1, <1>2, <1>10, <3>1, <3>2 DEF LiveAt, h, t
    <3>3. CASE ring'.tail # 0
      <4>1. SectorOf(ring'.tail) > SectorOf(t)
        BY <1>2, <1>7, <2>1, <3>1, <3>3
      <4>2. ring'.tail > t
        BY <1>1, <1>4, <1>5, <1>8, <4>1
      <4> QED BY <1>1, <1>2, <1>8, <1>10, <3>1, <4>2 DEF LiveAt, h, t
    <3> QED BY <3>2, <3>3
  <2>2. CASE ~moves
    BY <1>1, <1>2, <1>10, <2>2 DEF LiveAt, h, t
  <2> QED BY <2>1, <2>2
<1>11. ASSUME NEW p \in 0 .. N - 1, LiveAt(p)', s # SectorOf(h), NEW c \in CellsOf(p)
       PROVE  Sec(c) # s
  <2>1. /\ c \in Nat /\ Sec(c) \in Nat /\ SectorOf(p) <= Sec(c)
        /\ \A q \in 0 .. N - 1 : p < q => Sec(c) <= SectorOf(q)
    BY <1>11, RecordSectors
  <2>2. SectorOf(h) \in Nat /\ SectorOf(p) \in Nat /\ SectorOf(t) \in Nat
        /\ SectorOf(ring'.tail) \in Nat
    BY <1>1, <1>4, <1>8
  <2>3. CASE n = h + 1
    <3>1. SectorOf(h) < s
      BY <1>1, <1>5, <1>6, <1>11, <2>2, <2>3
    <3>2. CASE p < h
      BY <1>1, <1>6, <2>1, <2>2, <3>1, <3>2
    <3>3. CASE ~(p < h)
      <4>1. ring'.tail > h /\ ring'.tail <= p
        BY <1>1, <1>2, <1>8, <1>11, <3>3 DEF LiveAt, h
      <4>2. SectorOf(ring'.tail) > s /\ SectorOf(ring'.tail) <= SectorOf(p)
        BY <1>5, <1>8, <1>9, <4>1
      <4> QED BY <1>6, <2>1, <2>2, <4>2
    <3> QED BY <3>2, <3>3
  <2>4. CASE n = 0 /\ h = N - 1
    <3>1. SectorOf(h) > s /\ SectorOf(t) >= s
      BY <1>1, <1>5, <1>6, <1>11, <2>2, <2>4
    <3>2. ring'.tail <= p
      BY <1>1, <1>2, <1>8, <1>11, <2>4 DEF LiveAt, h
    <3>3. SectorOf(ring'.tail) > s
      BY <1>1, <1>2, <1>6, <1>7, <2>2, <2>4, <3>1
    <3>4. SectorOf(ring'.tail) <= SectorOf(p)
      BY <1>5, <1>8, <3>2
    <3> QED BY <1>6, <2>1, <2>2, <3>3, <3>4
  <2> QED BY <1>1, <2>3, <2>4
<1>12. RecordsWhole'
  <2> SUFFICES ASSUME ring'.tail # n, NEW p \in 0 .. N - 1, LiveAt(p)', NEW c \in CellsOf(p)
               PROVE  data'[c] = Completed' - AgeOf(p)' + 1
    BY <1>2 DEF RecordsWhole, Empties
  <2>1. data'[c] = data[c] /\ data[c] = Completed - AgeOf(p) + 1
    BY <1>1, <1>2, <1>3, <1>4, <1>10, <1>11 DEF RecordsWhole, Empties
  <2>2. Completed' = Completed /\ AgeOf(p)' = AgeOf(p)
    BY <1>1, <1>2 DEF Completed, AgeOf, h
  <2> QED BY <2>1, <2>2
<1>13. BlankAhead'
  BY <1>2, <1>3 DEF BlankAhead, h
<1>14. SectorReady'
  <2>1. nextHead' = After(ring'.head)
    BY <1>2 DEF n, h
  <2>2. ASSUME ring'.tail > h PROVE SectorOf(ring'.tail) > s
    BY <1>9, <2>2
  <2>3. \A c \in Cell : s # SectorOf(h) /\ Sec(c) = s => data'[c] = Blank
    BY <1>2
  <2> QED BY <1>2, <1>6, <2>1, <2>2, <2>3 DEF SectorReady, h
<1> QED BY <1>12, <1>13, <1>14

\* What the writing of a whole record does to a cell: d is the first cell of a
\* sector that is erased on the way.
LEMMA WrittenCell ==
  ASSUME NEW p \in 0 .. N - 1, NEW c \in Cell
  PROVE  LET erased == \E d \in CellsOf(p) : d % SectorCells = 0 /\ Sec(c) = Sec(d)
         IN  Written(p, RecordCells)[c] =
               IF c \in CellsOf(p)
               THEN IF erased \/ data[c] = Blank THEN saves ELSE Torn
               ELSE IF erased THEN Blank ELSE data[c]
<1> DEFINE cells == {d \in CellsOf(p) : d < p * RecordCells + RecordCells}
<1>1. cells = CellsOf(p)
  <2>1. Begin(p) \in Nat
    <3>1. p \in Nat
      OBVIOUS
    <3> QED BY <3>1, BeginGrows
  <2>2. CellsOf(p) = Begin(p) .. Begin(p) + RecordCells - 1
    BY CellsOfRecord
  <2> QED BY <2>1, <2>2, TrackerLogAssumption DEF Begin
<1> QED BY <1>1 DEF Written, Sec

\* The record at the head is written whole, and erases none of the log's.
LEMMA SaveDataKeepsData ==
  ASSUME LogDataInv, SaveData, ~harmed
  PROVE  RecordsWhole' /\ BlankAhead' /\ SectorReady'
<1> DEFINE h == ring.head
           t == ring.tail
           n == nextHead
           s == SectorOf(n)
           Erased(c) == \E d \in CellsOf(h) : d % SectorCells = 0 /\ Sec(c) = Sec(d)
<1> USE TrackerLogAssumption
<1>1. /\ h \in 0 .. N - 1 /\ t \in 0 .. N - 1 /\ n \in 0 .. N - 1
      /\ ring = [head |-> h, tail |-> t] /\ logStep = "data" /\ saves \in Nat
  BY RingTyped DEF LogDataInv, SaveData
<1>2. /\ ring'.head = n /\ ring'.tail = t /\ logStep' = "ringErase" /\ saves' = saves
      /\ data' = Written(h, RecordCells)
  BY <1>1 DEF SaveData
<1>3. /\ RecordsWhole /\ BlankAhead
      /\ n = IF h + 1 >= N THEN 0 ELSE h + 1
      /\ t > h => SectorOf(t) > s
      /\ n # 0 /\ s # SectorOf(h) => \A c \in Cell : Sec(c) = s => data[c] = Blank
  BY <1>1 DEF LogDataInv, SectorReady, After
<1>4. \A p \in 0 .. N - 1 : SectorOf(p) \in Nat /\ CellsOf(p) \subseteq Cell
                             /\ SectorOf(p) = Sec(Begin(p))
  BY CellsOfRecord
<1> HIDE DEF h, t, n, s
<1>5. s = SectorOf(n) /\ s \in Nat /\ SectorOf(h) \in Nat /\ SectorOf(t) \in Nat
  BY <1>1, <1>4 DEF s
<1>6. ASSUME NEW c \in Cell
      PROVE  data'[c] = IF c \in CellsOf(h)
                        THEN IF Erased(c) \/ data[c] = Blank THEN saves ELSE Torn
                        ELSE IF Erased(c) THEN Blank ELSE data[c]
  BY <1>1, <1>2, WrittenCell
<1>7. CellsOf(h) = Begin(h) .. Begin(h) + RecordCells - 1 /\ Begin(h) \in Nat
  <2>1. h \in Nat
    BY <1>1
  <2> QED BY <1>1, <2>1, CellsOfRecord, BeginGrows
\* The record at the head.
<1>8. ASSUME NEW c \in CellsOf(h) PROVE data'[c] = saves
  <2>1. c \in Cell /\ c \in Nat
    BY <1>1, <1>4 DEF Cell
  <2>2. CASE Sec(c) # SectorOf(h)
    <3>1. Begin(h) <= c /\ Sec(Begin(h)) # Sec(c)
      BY <1>1, <1>4, <1>7, <2>2
    <3>2. PICK d \in Begin(h) .. c : d % SectorCells = 0 /\ Sec(d) = Sec(c)
      BY <1>7, <2>1, <3>1, SectorBegins
    <3>3. d \in CellsOf(h)
      BY <1>7, <3>2
    <3> QED BY <1>6, <2>1, <3>2, <3>3
  <2>3. CASE Sec(c) = SectorOf(h) /\ Begin(h) % SectorCells = 0
    <3>1. Begin(h) \in CellsOf(h) /\ Sec(c) = Sec(Begin(h))
      BY <1>1, <1>4, <1>7, <2>3
    <3> QED BY <1>6, <2>1, <2>3, <3>1
  <2>4. CASE Sec(c) = SectorOf(h) /\ Begin(h) % SectorCells # 0
    <3>1. data[c] = Blank
      BY <1>3, <1>7, <2>1, <2>4 DEF BlankAhead, h
    <3> QED BY <1>6, <2>1, <3>1
  <2> QED BY <2>2, <2>3, <2>4
\* The others.
<1>9. ASSUME NEW p \in 0 .. N - 1, p # h, p < h \/ SectorOf(p) > s, NEW c \in CellsOf(p)
      PROVE  data'[c] = data[c]
  <2>1. /\ c \in Cell /\ c \in Nat /\ Sec(c) \in Nat /\ SectorOf(p) <= Sec(c)
        /\ p < h => c < Begin(h)
    BY <1>1, <1>4, RecordSectors
  <2>2. c \notin CellsOf(h)
    <3>1. CASE p < h
      BY <1>7, <2>1, <3>1
    <3>2. CASE ~(p < h)
      <4>1. h < p
        BY <1>1, <1>9, <3>2
      <4>2. \A d \in CellsOf(h) : d < Begin(p)
        BY <1>1, <4>1, RecordSectors
      <4>3. Begin(p) <= c /\ Begin(p) \in Nat
        <5>1. p \in Nat
          OBVIOUS
        <5>2. Begin(p) \in Nat
          BY <5>1, BeginGrows
        <5> QED BY <5>2, CellsOfRecord
      <4> QED BY <2>1, <4>2, <4>3
    <3> QED BY <3>1, <3>2
  <2>3. ~Erased(c)
    <3> SUFFICES ASSUME NEW d \in CellsOf(h), d % SectorCells = 0, Sec(c) = Sec(d)
                 PROVE  FALSE
      OBVIOUS
    <3>1. d \in Nat /\ Sec(d) \in Nat /\ Begin(h) <= d
      BY <1>1, <1>7, RecordSectors
    <3>2. CASE p < h
      <4>1. c < d
        BY <1>7, <2>1, <3>1, <3>2
      <4>2. Sec(c) < Sec(d)
        BY <2>1, <3>1, <4>1, StartIsFirst
      <4> QED BY <2>1, <3>1, <4>2
    <3>3. CASE ~(p < h)
      <4>1. h < p /\ n = h + 1
        BY <1>1, <1>3, <1>9, <3>3
      <4>2. Sec(d) <= s
        BY <1>1, <1>5, <4>1, RecordSectors
      <4> QED BY <1>4, <1>5, <1>9, <2>1, <3>1, <3>3, <4>2
    <3> QED BY <3>2, <3>3
  <2> QED BY <1>6, <2>1, <2>2, <2>3
<1>10. RecordsWhole'
  <2> SUFFICES ASSUME NEW p \in 0 .. N - 1, LiveAt(p)', NEW c \in CellsOf(p)
               PROVE  data'[c] = Completed' - AgeOf(p)' + 1
    BY DEF RecordsWhole
  <2>1. ~Empties
    BY <1>1, <1>2, <1>3 DEF LiveAt, Empties, h, t, n
  <2>2. CASE p = h
    <3>1. AgeOf(p)' = 1 /\ Completed' = saves
      BY <1>1, <1>2, <1>3, <2>2 DEF AgeOf, Completed
    <3> QED BY <1>1, <1>8, <2>2, <3>1
  <2>3. CASE p # h
    <3>1. LiveAt(p) /\ (p < h \/ (t > h /\ t <= p))
      BY <1>1, <1>2, <1>3, <2>3 DEF LiveAt, h, t
    <3>2. data[c] = Completed - AgeOf(p) + 1
      BY <1>3, <2>1, <3>1 DEF RecordsWhole
    <3>3. p < h \/ SectorOf(p) > s
      <4>1. t <= p => SectorOf(t) <= SectorOf(p)
        <5>1. t \in Nat /\ p \in Nat
          BY <1>1
        <5> QED BY <1>1, <1>4, <5>1, BeginGrows
      <4> QED BY <1>3, <1>4, <1>5, <3>1, <4>1
    <3>4. Completed' = Completed + 1 /\ AgeOf(p)' = AgeOf(p) + 1 /\ AgeOf(p) \in Int
      BY <1>1, <1>2, <1>3, <2>3, <3>1 DEF AgeOf, Completed, h
    <3>5. Completed \in Int
      BY <1>1 DEF Completed
    <3> QED BY <1>9, <2>3, <3>2, <3>3, <3>4, <3>5
  <2> QED BY <2>2, <2>3
<1>11. BlankAhead'
  <2> SUFFICES ASSUME Begin(n) % SectorCells # 0, NEW c \in Cell, c >= Begin(n), Sec(c) = s
               PROVE  data'[c] = Blank
    BY <1>2, <1>5 DEF BlankAhead
  <2>1. n = h + 1
    <3>1. n # 0
      BY StartOfSector DEF Begin
    <3> QED BY <1>3, <3>1
  <2>2. c \notin CellsOf(h)
    <3>1. \A d \in CellsOf(h) : d \in Nat /\ d < Begin(n)
      BY <1>1, <2>1, RecordSectors
    <3>2. Begin(n) \in Nat
      <4>1. n \in Nat
        BY <1>1
      <4> QED BY <4>1, BeginGrows
    <3> QED BY <3>1, <3>2
  <2>3. Erased(c) \/ data[c] = Blank
    <3>1. CASE s # SectorOf(h)
      BY <1>1, <1>3, <2>1, <3>1
    <3>2. CASE s = SectorOf(h) /\ Begin(h) % SectorCells # 0
      <4>1. c >= Begin(h)
        <5>1. \A d \in CellsOf(h) : d < Begin(n)
          BY <1>1, <2>1, RecordSectors
        <5>2. Begin(h) < Begin(n) /\ Begin(n) \in Nat
          <6>1. h \in Nat /\ n \in Nat /\ h < n
            BY <1>1, <2>1
          <6>2. Begin(n) \in Nat /\ Begin(h) + RecordCells <= Begin(n)
            BY <6>1, BeginGrows
          <6> QED BY <1>7, <6>2
        <5> QED BY <1>7, <5>2 DEF Cell
      <4> QED BY <1>3, <3>2, <4>1 DEF BlankAhead, h
    <3>3. CASE s = SectorOf(h) /\ Begin(h) % SectorCells = 0
      <4>1. Begin(h) \in CellsOf(h) /\ Sec(c) = Sec(Begin(h))
        BY <1>1, <1>4, <1>7, <3>3
      <4> QED BY <3>3, <4>1
    <3> QED BY <3>1, <3>2, <3>3
  <2> QED BY <1>6, <2>2, <2>3
<1>12. SectorReady'
  BY <1>2 DEF SectorReady
<1> QED BY <1>10, <1>11, <1>12

\* The steps that leave cells and head alone; the tail may move on.
LEMMA RingStepKeepsData ==
  ASSUME LogDataInv, ~harmed,
         UNCHANGED <<data, saves>>, ring'.head = ring.head,
         ring'.tail \in {ring.tail, IF ring.tail = ring.head THEN ring.tail ELSE After(ring.tail)},
         logStep # "data", logStep' # "data"
  PROVE  RecordsWhole' /\ BlankAhead' /\ SectorReady'
<1> USE TrackerLogAssumption
<1>1. ring.head \in 0 .. N - 1 /\ ring.tail \in 0 .. N - 1
  BY RingTyped DEF LogDataInv
<1>2. RecordsWhole /\ BlankAhead
  BY DEF LogDataInv
<1>3. ASSUME NEW p \in 0 .. N - 1, LiveAt(p)' PROVE LiveAt(p)
  BY <1>1, <1>3 DEF LiveAt, After
<1>4. \A p \in 0 .. N - 1 : AgeOf(p)' = AgeOf(p)
  BY DEF AgeOf
<1>5. RecordsWhole'
  BY <1>2, <1>3, <1>4 DEF RecordsWhole, Empties, Completed
<1>6. BlankAhead'
  BY <1>2 DEF BlankAhead
<1>7. SectorReady'
  BY DEF SectorReady
<1> QED BY <1>5, <1>6, <1>7

\* The empty log.
LEMMA LogDataStart == LogInit => LogDataInv
<1> SUFFICES ASSUME LogInit PROVE LogDataInv
  OBVIOUS
<1> USE TrackerLogAssumption
<1>1. /\ LogInv /\ saves = 0 /\ logStep = "idle" /\ recorded = {ring}
      /\ ring.head = 0 /\ ring.tail = 0 /\ \A c \in Cell : data[c] = Blank
  BY LogStart DEF LogInit, Empty
<1>2. RecordsWhole
  BY <1>1 DEF RecordsWhole, LiveAt
<1>3. BlankAhead /\ SectorReady
  BY <1>1 DEF BlankAhead, SectorReady
<1> QED BY <1>1, <1>2, <1>3 DEF LogDataInv

\* The invariant is inductive.
LEMMA LogDataNext == LogDataInv /\ [LogNext]_logVars => LogDataInv'
<1> SUFFICES ASSUME LogDataInv, [LogNext]_logVars PROVE LogDataInv'
  OBVIOUS
<1> USE TrackerLogAssumption
<1>1. LogInv /\ LogInv' /\ saves \in Nat
  BY LogNextKeeps DEF LogDataInv
<1>2. saves' \in Nat /\ (~harmed' => ~harmed)
  <2>1. saves' = saves \/ saves' = saves + 1
    <3>1. CASE SaveBegins \/ SaveData \/ RingErase \/ RingWrite
      BY <3>1 DEF SaveBegins, SaveData, RingErase, RingWrite
    <3>2. CASE DB_LoadDataLogTail \/ DB_LogRingReset \/ Reset_DB_InitLog
      BY <3>2 DEF DB_LoadDataLogTail, DB_LogRingReset, Reset_DB_InitLog
    <3> QED BY <3>1, <3>2 DEF LogNext, logVars
  <2>2. ~harmed' => ~harmed
    <3>1. CASE SaveBegins \/ SaveData \/ RingErase \/ RingWrite
      BY <3>1, Zenon DEF SaveBegins, SaveData, RingErase, RingWrite
    <3>2. CASE DB_LoadDataLogTail \/ DB_LogRingReset
      BY <3>2, Zenon DEF DB_LoadDataLogTail, DB_LogRingReset
    <3>3. CASE Reset_DB_InitLog
      BY <3>3, Zenon DEF Reset_DB_InitLog
    <3>4. CASE UNCHANGED logVars
      BY <3>4 DEF logVars
    <3> QED BY <3>1, <3>2, <3>3, <3>4 DEF LogNext
  <2> QED BY <1>1, <2>1, <2>2
<1> SUFFICES ASSUME ~harmed, ~harmed'
             PROVE  /\ RecordsWhole' /\ BlankAhead' /\ SectorReady'
                    /\ logStep' = "idle" => recorded' = {ring'}
  BY <1>1, <1>2 DEF LogDataInv
<1>3. CASE SaveBegins
  BY <1>3, SaveBeginsKeepsData DEF SaveBegins
<1>4. CASE SaveData
  BY <1>4, SaveDataKeepsData DEF SaveData
<1>5. CASE RingErase
  BY <1>5, RingStepKeepsData DEF RingErase
<1>6. CASE RingWrite
  BY <1>6, RingStepKeepsData DEF RingWrite
<1>7. CASE DB_LoadDataLogTail
  <2>1. ring' = [head |-> ring.head, tail |-> After(ring.tail)]
    BY <1>1, <1>7, RingTyped DEF DB_LoadDataLogTail
  <2> QED BY <1>7, <2>1, RingStepKeepsData DEF DB_LoadDataLogTail
<1>8. CASE DB_LogRingReset
  BY <1>8 DEF DB_LogRingReset
\* An unharmed log was recorded as it is.
<1>9. CASE Reset_DB_InitLog
  <2>1. /\ logStep = "idle" /\ ~spoiled /\ logStep' = "idle"
        /\ ring' = Found(ringFlash') /\ recorded' = recorded \union {Found(ringFlash')}
        /\ UNCHANGED saves
    BY <1>9 DEF Reset_DB_InitLog
  <2>2. ringFlash' = ringFlash /\ data' = data
    BY <1>9, <2>1 DEF Reset_DB_InitLog
  <2>3. Found(ringFlash) \in recorded /\ recorded = {ring}
    BY <1>1, <2>1 DEF LogDataInv, LogInv, RingSurvives
  <2> QED BY <2>1, <2>2, <2>3, RingStepKeepsData
<1>10. CASE UNCHANGED logVars
  BY <1>10 DEF logVars, LogDataInv, RecordsWhole, BlankAhead, SectorReady, Empties,
               LiveAt, AgeOf, Completed
<1> QED BY <1>3, <1>4, <1>5, <1>6, <1>7, <1>8, <1>9, <1>10 DEF LogNext

\* Cells and ring records agree at every step, for any sizes.
THEOREM LogDataInvariant == LogSpec => []LogDataInv
BY LogDataStart, LogDataNext, PTL DEF LogSpec

\* Between operations every record of the log is whole and the records are the
\* last ones saved, in order (DB_SaveDataLog, DB_LoadDataLogTail, DB_InitLog),
\* also where one crosses into the next sector and where the ring comes round.
THEOREM LogStaysIntact == LogSpec => []LogIsIntact
<1>1. ASSUME LogDataInv PROVE LogIsIntact
  <2> USE TrackerLogAssumption
  <2> SUFFICES ASSUME logStep = "idle", ~harmed, NEW k \in 1 .. Fill,
                      NEW c \in CellsOf((ring.tail + k - 1) % N)
               PROVE  data[c] = saves - Fill + k
    BY DEF LogIsIntact
  <2> DEFINE x == ring.tail + k - 1
             p == x % N
  <2>1. ring.head \in 0 .. N - 1 /\ ring.tail \in 0 .. N - 1 /\ saves \in Nat
    BY <1>1, RingTyped DEF LogDataInv
  <2>2. /\ Fill \in 0 .. N - 1 /\ k \in Nat /\ 1 <= k /\ k <= Fill
        /\ Fill = IF ring.head >= ring.tail THEN ring.head - ring.tail
                  ELSE N - ring.tail + ring.head
    BY <2>1 DEF Fill
  <2>3. x \in Nat /\ x < 2 * N
    BY <2>1, <2>2
  <2>4. p = IF x < N THEN x ELSE x - N
    <3> HIDE DEF x
    <3> QED BY <2>3, InTurn
  <2> HIDE DEF p
  <2>5. p \in 0 .. N - 1 /\ LiveAt(p) /\ AgeOf(p) = Fill - k + 1
    BY <2>1, <2>2, <2>3, <2>4 DEF LiveAt, AgeOf
  <2>6. data[c] = Completed - AgeOf(p) + 1
    BY <1>1, <2>5 DEF LogDataInv, RecordsWhole, Empties, p
  <2> QED BY <2>1, <2>2, <2>5, <2>6 DEF Completed
<1> QED BY <1>1, LogDataInvariant, PTL
=============================================================================
