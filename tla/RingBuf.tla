------------------------------ MODULE RingBuf ------------------------------
(***************************************************************************)
(* The byte ring buffer of Libraries/common_lib/ringbuff/ringbuf.c, as the *)
(* firmware uses it between an interrupt handler and the main loop: UART1  *)
(* puts the modem's characters into commBuf, the main loop gets them.      *)
(*                                                                         *)
(* RINGBUF_Put runs in the interrupt handler, which the main loop cannot   *)
(* preempt: it is one step.  RINGBUF_Get runs in the main loop and the     *)
(* handler may run between any two of its accesses to the volatile fields, *)
(* so it is one step per access that matters: the comparison, the read of  *)
(* the byte, the increment of tail, the wrap of tail to 0.                 *)
(*                                                                         *)
(* A call that returns -1 (Put on a full buffer, Get on an empty one)      *)
(* changes nothing and is a stuttering step.                               *)
(***************************************************************************)
EXTENDS Naturals, Sequences

CONSTANTS
  RingSize,    \* the size given to RINGBUF_Init
  Byte,    \* the bytes that are put
  Burst    \* how many Puts may interrupt one Get between tail++ and the wrap

\* RINGBUF_Init refuses a size below 2.
ASSUME SizeAssumption == RingSize \in Nat /\ RingSize >= 2
ASSUME BurstAssumption == Burst \in Nat

VARIABLES
  head,    \* r->head: where the next byte is put
  tail,    \* r->tail: where the next byte is taken; the size between ++ and wrap
  pt,      \* r->pt: the array
  pc,      \* where the main loop is in RINGBUF_Get
  c,       \* the last byte Get stored through its pointer, <<>> at first
  puts     \* how many Puts ran since tail++ of the Get in progress

ringVars == <<head, tail, pt, pc, c, puts>>

Index == 0 .. RingSize - 1

RingInit ==
  /\ head = 0
  /\ tail = 0
  /\ pt \in [Index -> Byte]
  /\ pc = "idle"
  /\ c = <<>>
  /\ puts = 0

\* Mutant: > for >= in the wrap of the index.
IndexAfterWrapsLate(i) == IF i + 1 > RingSize THEN 0 ELSE i + 1

\* temp of RINGBUF_Put: the index after i.
IndexAfter(i) == IF i + 1 >= RingSize THEN 0 ELSE i + 1

\* Mutants: no test for a full buffer; a test that keeps two slots free.
CanPutAlways == TRUE
CanPutKeepsTwo == IndexAfter(head) # tail /\ IndexAfter(IndexAfter(head)) # tail

\* RINGBUF_Put's test: there is room for one more byte.
CanPut == IndexAfter(head) # tail

RINGBUF_Put(b) ==
  /\ pc = "wrap" => puts < Burst
  /\ CanPut
  /\ pt' = [pt EXCEPT ![head] = b]
  /\ head' = IndexAfter(head)
  /\ puts' = IF pc = "wrap" THEN puts + 1 ELSE puts
  /\ UNCHANGED <<tail, pc, c>>

-----------------------------------------------------------------------------
\* RINGBUF_Get, access by access.

GetTest ==
  /\ pc = "idle"
  /\ tail # head
  /\ pc' = "read"
  /\ UNCHANGED <<head, tail, pt, c, puts>>

\* Mutant: *c = r->pt[++tail].
GetReadNext ==
  /\ pc = "read"
  /\ c' = <<pt[IndexAfter(tail)]>>
  /\ pc' = "increment"
  /\ UNCHANGED <<head, tail, pt, puts>>

GetRead ==
  /\ pc = "read"
  /\ c' = <<pt[tail]>>
  /\ pc' = "increment"
  /\ UNCHANGED <<head, tail, pt, puts>>

GetIncrement ==
  /\ pc = "increment"
  /\ tail' = tail + 1
  /\ pc' = "wrap"
  /\ UNCHANGED <<head, pt, c, puts>>

GetWrap ==
  /\ pc = "wrap"
  /\ tail' = IF tail >= RingSize THEN 0 ELSE tail
  /\ pc' = "idle"
  /\ puts' = 0
  /\ UNCHANGED <<head, pt, c>>

RINGBUF_Get == GetTest \/ GetRead \/ GetIncrement \/ GetWrap

RingNext == RINGBUF_Get \/ \E b \in Byte : RINGBUF_Put(b)

RingSpec == RingInit /\ [][RingNext]_ringVars
RingFairSpec == RingSpec /\ WF_ringVars(RINGBUF_Get)

-----------------------------------------------------------------------------
(***************************************************************************)
(* Properties.                                                             *)
(***************************************************************************)

\* The slot of the oldest byte not yet read: tail, except between the read of
\* a byte and the wrap that frees its slot.
First ==
  IF pc = "increment" THEN IndexAfter(tail)
  ELSE IF tail >= RingSize THEN 0 ELSE tail

\* RINGBUF_GetFill with tail at First.
RINGBUF_GetFill ==
  IF head >= First THEN head - First ELSE RingSize - First + head

\* The slot of the i-th oldest byte.
SlotAt(i) ==
  IF First + i - 1 < RingSize THEN First + i - 1 ELSE First + i - 1 - RingSize

Contents == [i \in 1 .. RINGBUF_GetFill |-> pt[SlotAt(i)]]

RingTypeOK ==
  /\ head \in Index
  /\ tail \in 0 .. RingSize
  /\ pt \in [Index -> Byte]
  /\ pc \in {"idle", "read", "increment", "wrap"}
  /\ c \in {<<>>} \cup {<<b>> : b \in Byte}
  /\ puts \in 0 .. Burst

\* While main is inside RINGBUF_Get the handler's Puts never make the buffer
\* look empty again, and tail leaves the array only until the wrap.
GetWindow ==
  /\ pc \in {"read", "increment"} => tail # head
  /\ pc # "wrap" => tail < RingSize /\ puts = 0
  /\ pc = "wrap" => tail > 0
  /\ tail = RingSize /\ puts = 0 => head # RingSize - 1

\* A Put is refused only when size - 1 bytes are unread, counting the one main
\* has read and whose slot it has not given back yet (ringbuf.c:48).
PutRefusedOnlyWhenFull ==
  ~CanPut => RINGBUF_GetFill + (IF pc = "increment" THEN 1 ELSE 0) = RingSize - 1

\* Every accepted Put makes the fill one larger: no Put can make the bytes
\* already in the buffer disappear.
PutAddsOneByte ==
  [][head' # head => RINGBUF_GetFill' = RINGBUF_GetFill + 1]_ringVars

\* The buffer is a bounded FIFO: bytes come out in the order they were put,
\* none lost, none twice, none invented.
Fifo == INSTANCE ByteFifo WITH
          Capacity <- RingSize - 1, queue <- Contents, taken <- c

ImplementsFifo == Fifo!Spec
=============================================================================
