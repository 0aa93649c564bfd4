------------------------------ MODULE U32Store ------------------------------
(***************************************************************************)
(* The variables the tracker keeps over a reset (db.c: DB_U32Load,         *)
(* DB_U32Save) in the serial flash (sst25.c), which erases by sectors and  *)
(* whose programming only clears bits.                                     *)
(*                                                                         *)
(* A variable has a sector; a save appends a record of 5 bytes, value and  *)
(* checksum, and reads it back; when the sector is full, it is erased and  *)
(* starts over at record 0.  819 records fit; a record after the last one  *)
(* would begin in the sector's last byte, go on in the next variable's     *)
(* sector, and erase that (SST25_Write).                                   *)
(*                                                                         *)
(* A record is blank, a value with its checksum, or torn: anything else.   *)
(* That a torn one is told from a good one is an assumption: the checksum  *)
(* is the sum of the bytes in one byte, which some bytes half programmed   *)
(* would satisfy too.                                                      *)
(* The value 0xffffffff, which a load takes for blank, is left out.  The   *)
(* power may be cut before any write or erasure; the loads of              *)
(* DB_FlashMemInit follow.                                                 *)
(***************************************************************************)
EXTENDS FlashMem

CONSTANTS
  LastVar,   \* the variables are 0 .. LastVar, in the order of their sectors
  Slots,     \* records that fit in a sector (819)
  Value      \* what is saved

Var == 0 .. LastVar
Slot == 0 .. Slots - 1

\* A variable that was never saved is 0.
ASSUME U32Assumption ==
  /\ LastVar \in Nat /\ Slots \in Nat \ {0}
  /\ 0 \in Value /\ Blank \notin Value /\ Torn \notin Value

VARIABLES
  flash,      \* flash[v][n]: record n of v
  lastByte,   \* lastByte[v]: the byte after the last record is blank
  cnt,        \* cnt[v] / 5
  value, oldValue,
  saving,     \* the variable being saved, -1 for none
  saveStep,   \* where DB_U32Save is
  acceptable, \* history: what a reset may find
  tornLast,   \* history: a cut tore the last record of a sector
  overrun     \* history: a record was written behind the last one

u32Vars == <<flash, lastByte, cnt, value, oldValue, saving, saveStep, acceptable,
             tornLast, overrun, cuts>>
history == <<acceptable, tornLast, overrun>>

\* DB_U32Load: the last good record, and the cursor behind it.
GoodRecords(f, v) == {n \in Slot : f[v][n] \in Value}
\* Mutant: the first good record is loaded.
IsFirst(n, N) == n \in N /\ \A m \in N : n <= m

IsLast(n, N) == n \in N /\ \A m \in N : m <= n
Loaded(f, v) ==
  IF GoodRecords(f, v) = {} THEN [cnt |-> 0, value |-> 0, old |-> 1]
  ELSE LET n == CHOOSE n \in Slot : IsLast(n, GoodRecords(f, v))
       IN  [cnt |-> n + 1, value |-> f[v][n], old |-> f[v][n]]

DB_U32Load(f) ==
  /\ cnt' = [v \in Var |-> Loaded(f, v).cnt]
  /\ value' = [v \in Var |-> Loaded(f, v).value]
  /\ oldValue' = [v \in Var |-> Loaded(f, v).old]

U32Init ==
  /\ flash = [v \in Var |-> [n \in Slot |-> Blank]]
  /\ lastByte = [v \in Var |-> TRUE]
  /\ cnt = [v \in Var |-> 0]
  /\ value = [v \in Var |-> 0]
  /\ oldValue = [v \in Var |-> 1]
  /\ saving = -1 /\ saveStep = "idle"
  /\ acceptable = [v \in Var |-> {0}]
  /\ tornLast = FALSE /\ overrun = FALSE
  /\ cuts = 0

-----------------------------------------------------------------------------
\* Somebody gives v a new value.
SetValue ==
  /\ saving = -1
  /\ \E v \in Var, x \in Value : value' = [value EXCEPT ![v] = x]
  /\ UNCHANGED <<flash, lastByte, cnt, oldValue, saving, saveStep, history, cuts>>

\* Mutant: the sector counts as full one record too late.
DB_U32SaveLate ==
  /\ saving = -1
  /\ \E v \in Var :
       /\ oldValue[v] # value[v]
       /\ saving' = v
       /\ oldValue' = [oldValue EXCEPT ![v] = value[v]]
       /\ cnt' = [cnt EXCEPT ![v] = IF @ > Slots THEN 0 ELSE @]
       /\ acceptable' = [acceptable EXCEPT ![v] = @ \union {value[v]}]
  /\ saveStep' = "erase"
  /\ UNCHANGED <<flash, lastByte, value, tornLast, overrun, cuts>>

\* DB_U32Save saves what has changed; a full sector starts over.
DB_U32Save ==
  /\ saving = -1
  /\ \E v \in Var :
       /\ oldValue[v] # value[v]
       /\ saving' = v
       /\ oldValue' = [oldValue EXCEPT ![v] = value[v]]
       /\ cnt' = [cnt EXCEPT ![v] = IF @ >= Slots THEN 0 ELSE @]
       /\ acceptable' = [acceptable EXCEPT ![v] = @ \union {value[v]}]
  /\ saveStep' = "erase"
  /\ UNCHANGED <<flash, lastByte, value, tornLast, overrun, cuts>>

\* SST25_Write erases a sector when it writes to its beginning.
SaveErase ==
  /\ saveStep = "erase"
  /\ IF cnt[saving] = 0
     THEN /\ flash' = [flash EXCEPT ![saving] = [n \in Slot |-> Blank]]
          /\ lastByte' = [lastByte EXCEPT ![saving] = TRUE]
          /\ acceptable' = [acceptable EXCEPT ![saving] = @ \union {0}]
     ELSE UNCHANGED <<flash, lastByte, acceptable>>
  /\ saveStep' = IF cnt[saving] = Slots THEN "overrun" ELSE "value"
  /\ UNCHANGED <<cnt, value, oldValue, saving, tornLast, overrun, cuts>>

\* The value; its checksum is there already when it is 0xff.  On a record
\* that was not blank the bits may not come out right.
SaveValue ==
  /\ saveStep = "value"
  /\ \E r \in {Torn, value[saving]} :
       flash' = [flash EXCEPT ![saving][cnt[saving]] = r]
  /\ saveStep' \in IF flash[saving][cnt[saving]] = Blank THEN {"checksum"}
                   ELSE {"checksum", "mismatch"}
  /\ UNCHANGED <<lastByte, cnt, value, oldValue, saving, history, cuts>>

\* The checksum, and the comparison with what was written.
SaveChecksum ==
  /\ saveStep = "checksum"
  /\ flash' = [flash EXCEPT ![saving][cnt[saving]] = value[saving]]
  /\ cnt' = [cnt EXCEPT ![saving] = @ + 1]
  /\ acceptable' = [acceptable EXCEPT ![saving] = {value[saving]}]
  /\ saving' = -1 /\ saveStep' = "idle"
  /\ UNCHANGED <<lastByte, value, oldValue, tornLast, overrun, cuts>>

\* They differ: the next record is tried.
SaveMismatch ==
  /\ saveStep = "mismatch"
  /\ flash' = [flash EXCEPT ![saving][cnt[saving]] = Torn]
  /\ cnt' = [cnt EXCEPT ![saving] = @ + 1]
  /\ saveStep' = "erase"
  /\ UNCHANGED <<lastByte, value, oldValue, saving, history, cuts>>

\* A record behind the last one: its first byte is the last of the sector,
\* the rest replaces the neighbour's.  It reads back right when that byte was
\* blank; otherwise the save gives up.
SaveOverrun ==
  /\ saveStep = "overrun"
  /\ lastByte' = [lastByte EXCEPT ![saving] = FALSE]
  /\ flash' = [v \in Var |-> IF v = saving + 1
                             THEN [n \in Slot |-> IF n = 0 THEN Torn ELSE Blank]
                             ELSE flash[v]]
  /\ cnt' = [cnt EXCEPT ![saving] = IF lastByte[saving] THEN @ + 1 ELSE 0]
  /\ acceptable' = [acceptable EXCEPT ![saving] = {value[saving]}]
  /\ overrun' = TRUE
  /\ saving' = -1 /\ saveStep' = "idle"
  /\ UNCHANGED <<value, oldValue, tornLast, cuts>>

PowerCut ==
  /\ cuts < MaxCuts
  /\ cuts' = cuts + 1
  /\ DB_U32Load(flash)
  /\ saving' = -1 /\ saveStep' = "idle"
  /\ tornLast' = (tornLast \/ (saveStep = "checksum" /\ cnt[saving] = Slots - 1))
  /\ UNCHANGED <<flash, lastByte, acceptable, overrun>>

U32Next ==
  \/ SetValue \/ DB_U32Save \/ SaveErase \/ SaveValue \/ SaveChecksum \/ SaveMismatch
  \/ SaveOverrun \/ PowerCut

U32Spec == U32Init /\ [][U32Next]_u32Vars

-----------------------------------------------------------------------------
\* A reset at any moment finds every variable as it was last saved; while it
\* is being saved, as it was or as it will be, and 0 only while its sector
\* starts over.  In particular no variable changes with the save of another:
\* the one exception is a record behind the last one.
SavedSurvives == ~overrun => \A v \in Var : Loaded(flash, v).value \in acceptable[v]

\* No record is written behind the last one, and no neighbour erased with
\* it, unless the power was cut just when a last record was written.
OverrunNeedsTornLast == overrun => tornLast
=============================================================================
