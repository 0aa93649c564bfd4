----------------------------- MODULE TrackerLog -----------------------------
(***************************************************************************)
(* The tracker's log in the serial flash (db.c: DB_InitLog, DB_LogRingSave,*)
(* DB_SaveDataLog, DB_LoadDataLogTail; sst25.c: SST25_Write): a ring of    *)
(* records, oldest overwritten first, and the sector in which every change *)
(* of its head and tail is recorded.                                       *)
(*                                                                         *)
(* The data area is a row of cells of LOG_WRITE_BYTES, a record some of    *)
(* them: records cross from one sector into the next.  The n-th record     *)
(* saved fills its cells with n.  A cell or ring record that is programmed *)
(* without having been erased is torn.  The timer interrupt runs an        *)
(* operation to its end; the power may be cut between its steps, or the    *)
(* device reset between operations, and DB_InitLog starts over.            *)
(***************************************************************************)
EXTENDS FlashMem

CONSTANTS
  RecordCells,  \* dataLogSize
  SectorCells,  \* SECTOR_SIZE
  AreaCells,    \* dataLogAreaSize
  RingSlots,    \* ring records in a sector (455)
  MaxSaves

N == AreaCells \div RecordCells
Cell == 0 .. AreaCells - 1
Ring == [head : 0 .. N - 1, tail : 0 .. N - 1]
SlotOf == 0 .. RingSlots - 1

\* N's range follows from the sizes; it is named for the proofs.
ASSUME TrackerLogAssumption ==
  /\ {RecordCells, SectorCells, AreaCells, RingSlots} \subseteq Nat \ {0}
  /\ RecordCells <= SectorCells /\ 2 * SectorCells <= AreaCells
  /\ N \in Nat \ {0} /\ MaxSaves \in Nat
  /\ Blank \notin Ring /\ Torn \notin Ring

VARIABLES
  data,         \* the cells
  ringFlash,    \* the ring records
  ring, ringCnt,
  logStep,      \* where the operation is, or idle
  nextHead,     \* u32temp of DB_SaveDataLog
  saves,        \* records saved
  recorded,     \* history: what a reset may find in the ring sector
  spoiled,      \* history: the newest ring record was written over a good one
  harmed        \* history: a reset came in an operation or found a spoiled
                \* ring, or DB_InitLog has dropped the log

logVars == <<data, ringFlash, ring, ringCnt, logStep, nextHead, saves, recorded,
             spoiled, harmed, cuts>>

Empty == [head |-> 0, tail |-> 0]

LogInit ==
  /\ data = [c \in Cell |-> Blank]
  /\ ringFlash = [n \in SlotOf |-> Blank]
  /\ ring = Empty /\ ringCnt = 0
  /\ logStep = "idle" /\ nextHead = 0
  /\ saves = 0
  /\ recorded = {Empty} /\ spoiled = FALSE /\ harmed = FALSE
  /\ cuts = 0

SectorOf(pos) == (pos * RecordCells) \div SectorCells
CellsOf(pos) == pos * RecordCells .. (pos + 1) * RecordCells - 1
CellsOfSector(s) == {c \in Cell : c \div SectorCells = s}
After(pos) == IF pos + 1 >= N THEN 0 ELSE pos + 1

\* The first record that begins behind sector s.
FirstBehind(s) ==
  LET pos == ((s + 1) * SectorCells + RecordCells - 1) \div RecordCells
  IN  IF pos >= N THEN 0 ELSE pos

-----------------------------------------------------------------------------
\* Mutant: the tail is left in the sector that is erased.
SaveBeginsKeepsTail ==
  /\ logStep = "idle" /\ saves < MaxSaves
  /\ saves' = saves + 1
  /\ nextHead' = After(ring.head)
  /\ LET s == SectorOf(nextHead')
     IN  data' = IF s # SectorOf(ring.head)
                 THEN [c \in Cell |-> IF c \in CellsOfSector(s) THEN Blank ELSE data[c]]
                 ELSE data
  /\ logStep' = "data"
  /\ UNCHANGED <<ring, ringFlash, ringCnt, recorded, spoiled, harmed, cuts>>

\* DB_SaveDataLog: the sector the head comes to is erased, and the tail moved
\* out of it.
SaveBegins ==
  /\ logStep = "idle" /\ saves < MaxSaves
  /\ saves' = saves + 1
  /\ nextHead' = After(ring.head)
  /\ LET s == SectorOf(nextHead')
     IN  /\ data' = IF s # SectorOf(ring.head)
                    THEN [c \in Cell |-> IF c \in CellsOfSector(s) THEN Blank ELSE data[c]]
                    ELSE data
         /\ ring' = IF s = SectorOf(ring.tail) /\ nextHead' <= ring.tail
                    THEN [ring EXCEPT !.tail = FirstBehind(s)]
                    ELSE ring
  /\ logStep' = "data"
  /\ UNCHANGED <<ringFlash, ringCnt, recorded, spoiled, harmed, cuts>>

\* The cells after the first k cells of the record at pos are written; one
\* at the beginning of a sector erases it.
Written(pos, k) ==
  LET cells == {c \in CellsOf(pos) : c < pos * RecordCells + k}
      erased == {c \in Cell : \E d \in cells : d % SectorCells = 0
                                               /\ c \div SectorCells = d \div SectorCells}
  IN  [c \in Cell |-> IF c \in cells
                      THEN IF c \in erased \/ data[c] = Blank THEN saves ELSE Torn
                      ELSE IF c \in erased THEN Blank ELSE data[c]]

SaveData ==
  /\ logStep = "data"
  /\ data' = Written(ring.head, RecordCells)
  /\ ring' = [ring EXCEPT !.head = nextHead]
  /\ logStep' = "ringErase"
  /\ UNCHANGED <<ringFlash, ringCnt, nextHead, saves, recorded, spoiled, harmed, cuts>>

\* Mutant: a full sector is started over without erasing it.
RingErasesNot ==
  /\ logStep = "ringErase"
  /\ ringCnt' = IF ringCnt >= RingSlots THEN 0 ELSE ringCnt
  /\ recorded' = recorded \union {ring}
  /\ spoiled' = FALSE
  /\ logStep' = "ringWrite"
  /\ UNCHANGED <<data, ringFlash, ring, nextHead, saves, harmed, cuts>>

\* DB_LogRingSave: a full sector starts over; so does one written at its
\* beginning.
RingErase ==
  /\ logStep = "ringErase"
  /\ LET begin == ringCnt >= RingSlots \/ ringCnt = 0
     IN  /\ ringFlash' = IF begin THEN [n \in SlotOf |-> Blank] ELSE ringFlash
         /\ ringCnt' = IF begin THEN 0 ELSE ringCnt
         /\ recorded' = recorded \union {ring} \union (IF begin THEN {Empty} ELSE {})
         /\ spoiled' = (~begin /\ (spoiled \/ ringFlash[ringCnt] # Blank))
  /\ logStep' = "ringWrite"
  /\ UNCHANGED <<data, ring, nextHead, saves, harmed, cuts>>

\* Over a record that was not erased, only what has the same bits comes out
\* right.
RingWrite ==
  /\ logStep = "ringWrite"
  /\ \E r \in IF ringFlash[ringCnt] = Blank THEN {ring} ELSE {ring, Torn} :
       ringFlash' = [ringFlash EXCEPT ![ringCnt] = r]
  /\ ringCnt' = ringCnt + 1
  /\ recorded' = {ring}
  /\ spoiled' = (ringFlash[ringCnt] # Blank)
  /\ logStep' = "idle"
  /\ UNCHANGED <<data, ring, nextHead, saves, harmed, cuts>>

\* DB_LoadDataLogTail: the tail moves on, whether its record was good or not.
DB_LoadDataLogTail ==
  /\ logStep = "idle" /\ ring.tail # ring.head
  /\ ring' = [ring EXCEPT !.tail = After(@)]
  /\ logStep' = "ringErase"
  /\ UNCHANGED <<data, ringFlash, ringCnt, nextHead, saves, recorded, spoiled, harmed, cuts>>

\* DB_LogRingReset, from a command that clears the log.
DB_LogRingReset ==
  /\ logStep = "idle" /\ ring # Empty
  /\ ring' = Empty
  /\ harmed' = TRUE
  /\ logStep' = "ringErase"
  /\ UNCHANGED <<data, ringFlash, ringCnt, nextHead, saves, recorded, spoiled, cuts>>

-----------------------------------------------------------------------------
\* The ring DB_InitLog finds: the last good record.
GoodRings(f) == {n \in SlotOf : f[n] \in Ring}
Newest(f) == CHOOSE n \in GoodRings(f) : \A m \in GoodRings(f) : m <= n
Found(f) == IF GoodRings(f) = {} THEN Empty ELSE f[Newest(f)]

\* Its cursor: on the newest record, not behind it; or on a torn one after
\* that, if it has a possible head and tail.
Cursors(f) ==
  {n \in SlotOf : /\ f[n] = Torn
                  /\ \A m \in GoodRings(f) : m < n}
  \union (IF GoodRings(f) = {} THEN {0} ELSE {Newest(f)})

\* A reset: what was being programmed is torn.  A log that does not fit the
\* number of ring records is dropped.
Reset_DB_InitLog ==
  /\ cuts < MaxCuts
  /\ cuts' = cuts + 1
  /\ \E k \in 0 .. RecordCells - 1 :
       data' = IF logStep = "data" THEN Written(ring.head, k) ELSE data
  /\ \E torn \in BOOLEAN :
       ringFlash' = IF logStep = "ringWrite" /\ torn
                    THEN [ringFlash EXCEPT ![ringCnt] = Torn] ELSE ringFlash
  /\ LET found == Found(ringFlash')
         drop == found.head > RingSlots \/ found.tail > RingSlots
     IN  /\ ring' = IF drop THEN Empty ELSE found
         /\ ringCnt' \in Cursors(ringFlash')
         /\ logStep' = IF drop THEN "ringErase" ELSE "idle"
         /\ recorded' = recorded \union {found}
         /\ harmed' = (harmed \/ logStep # "idle" \/ spoiled \/ drop)
  /\ spoiled' = FALSE
  /\ UNCHANGED <<nextHead, saves>>

LogNext ==
  \/ SaveBegins \/ SaveData \/ RingErase \/ RingWrite
  \/ DB_LoadDataLogTail \/ DB_LogRingReset \/ Reset_DB_InitLog

LogSpec == LogInit /\ [][LogNext]_logVars

-----------------------------------------------------------------------------
\* A reset finds head and tail as last recorded, or as they are just being
\* recorded, and an empty log only while the sector starts over; except that
\* the first operation after a reset writes over the newest ring record: until
\* the next operation, a reset then finds an older one.
RingSurvives == ~spoiled => Found(ringFlash) \in recorded

\* Between operations every record from tail to head is whole, and they are
\* the last ones saved, in their order, also where a record crosses into the
\* next sector and where the ring comes round; unless a reset has harmed it.
Fill == IF ring.head >= ring.tail THEN ring.head - ring.tail ELSE N - ring.tail + ring.head
LogIsIntact ==
  logStep = "idle" /\ ~harmed =>
    \A k \in 1 .. Fill :
      \A c \in CellsOf((ring.tail + k - 1) % N) : data[c] = saves - Fill + k
=============================================================================
