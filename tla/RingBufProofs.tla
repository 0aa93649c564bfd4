--------------------------- MODULE RingBufProofs ---------------------------
(***************************************************************************)
(* Theorems about RINGBUF for every size, every set of bytes and, where it *)
(* matters, at most one Put between tail++ and the wrap of one Get.        *)
(***************************************************************************)
EXTENDS RingBuf, SequenceTheorems, TLAPS

\* At most one character arrives between tail++ and the wrap.
OnePut == Burst <= 1

IInv == RingTypeOK /\ GetWindow

USE SizeAssumption, BurstAssumption

\* The empty buffer satisfies the invariant.
LEMMA InitIInv == RingInit => IInv
  BY DEF RingInit, IInv, RingTypeOK, GetWindow, Index

\* No access of Get, and no byte received between two of them, breaks it.
LEMMA NextIInv == IInv /\ [RingNext]_ringVars => IInv'
<1> SUFFICES ASSUME IInv, [RingNext]_ringVars PROVE IInv'
  OBVIOUS
<1> USE DEF IInv, RingTypeOK, GetWindow, Index
<1>1. ASSUME NEW b \in Byte, RINGBUF_Put(b) PROVE IInv'
  BY <1>1 DEF RINGBUF_Put, CanPut, IndexAfter
<1>2. CASE GetTest
  BY <1>2 DEF GetTest
<1>3. CASE GetRead
  <2>1. pt[tail] \in Byte
    BY <1>3 DEF GetRead
  <2> QED
    BY <1>3, <2>1 DEF GetRead
<1>4. CASE GetIncrement
  BY <1>4 DEF GetIncrement
<1>5. CASE GetWrap
  BY <1>5 DEF GetWrap
<1>6. CASE UNCHANGED ringVars
  BY <1>6 DEF ringVars
<1> QED
  BY <1>1, <1>2, <1>3, <1>4, <1>5, <1>6 DEF RingNext, RINGBUF_Get

\* Whatever the size and however many characters arrive, head and tail stay
\* in the array, except for the transient tail = size, and a Get that found a
\* byte still has it when it reads and frees the slot.
THEOREM GetIsSafe == RingSpec => [](RingTypeOK /\ GetWindow)
<1>1. RingInit => IInv
  BY InitIInv
<1>2. IInv /\ [RingNext]_ringVars => IInv'
  BY NextIInv
<1> QED
  BY <1>1, <1>2, PTL DEF RingSpec, IInv

\* head, tail and the bytes stay in their ranges whatever interrupts a Get: no
\* access leaves the array.
THEOREM RingBufTyped == RingSpec => []RingTypeOK
  BY GetIsSafe, PTL

\* A Put is refused only when the buffer holds RingSize - 1 bytes.
THEOREM RefusedOnlyWhenFull == RingSpec => []PutRefusedOnlyWhenFull
<1>1. IInv => PutRefusedOnlyWhenFull
  BY DEF IInv, RingTypeOK, GetWindow, Index, PutRefusedOnlyWhenFull, CanPut,
         IndexAfter, First, RINGBUF_GetFill
<1> QED
  BY <1>1, GetIsSafe, PTL DEF IInv

-----------------------------------------------------------------------------
\* The bytes in the buffer, as a sequence.

\* The tail of a buffer's content, byte by byte.
LEMMA TailIs ==
  ASSUME NEW S, NEW s \in Seq(S), Len(s) # 0
  PROVE  /\ s # <<>>
         /\ Tail(s) = [i \in 1 .. Len(s) - 1 |-> s[i + 1]]
         /\ Head(s) = s[1]
<1>1. s # <<>> /\ Len(s) \in Nat
  BY EmptySeq, LenProperties
<1>2. /\ Len(Tail(s)) = Len(s) - 1
      /\ Tail(s) \in [1 .. Len(s) - 1 -> S]
      /\ \A i \in 1 .. Len(s) - 1 : Tail(s)[i] = s[i + 1]
  <2>1. /\ Tail(s) \in Seq(S)
        /\ Len(Tail(s)) = Len(s) - 1
        /\ \A i \in 1 .. Len(Tail(s)) : Tail(s)[i] = s[i + 1]
    BY <1>1, HeadTailProperties
  <2>2. Tail(s) \in [1 .. Len(Tail(s)) -> S]
    BY <2>1, LenProperties
  <2> QED
    BY <2>1, <2>2
<1>3. Tail(s) = [i \in 1 .. Len(s) - 1 |-> s[i + 1]]
  BY <1>2
<1> QED
  BY <1>1, <1>3

\* The number of unread bytes is below RingSize.
LEMMA FillRange ==
  ASSUME IInv
  PROVE  /\ First \in Index
         /\ RINGBUF_GetFill \in 0 .. RingSize - 1
         /\ Contents \in Seq(Byte)
         /\ Len(Contents) = RINGBUF_GetFill
         /\ \A i \in 1 .. RINGBUF_GetFill : SlotAt(i) \in Index
<1>1. First \in Index
  BY DEF IInv, RingTypeOK, GetWindow, Index, First, IndexAfter
<1>2. RINGBUF_GetFill \in 0 .. RingSize - 1
  BY <1>1 DEF IInv, RingTypeOK, Index, RINGBUF_GetFill
<1>3. \A i \in 1 .. RINGBUF_GetFill : SlotAt(i) \in Index
  BY <1>1, <1>2 DEF SlotAt, Index
<1>4. Contents \in [1 .. RINGBUF_GetFill -> Byte]
  BY <1>3 DEF Contents, IInv, RingTypeOK
<1>5. RINGBUF_GetFill \in Nat
  BY <1>2
<1>6. Contents \in Seq(Byte)
  BY <1>4, <1>5
<1>7. Len(Contents) = RINGBUF_GetFill
  BY <1>5 DEF Contents
<1> QED
  BY <1>1, <1>2, <1>3, <1>6, <1>7

\* An accepted Put appends its byte: it does not touch an unread slot, and
\* with one Put at most in the window it does not fill the last slot.
LEMMA PutAppends ==
  ASSUME IInv, OnePut, NEW b \in Byte, RINGBUF_Put(b)
  PROVE  /\ RINGBUF_GetFill < RingSize - 1
         /\ RINGBUF_GetFill' = RINGBUF_GetFill + 1
         /\ Contents' = Append(Contents, b)
<1> USE DEF IInv, RingTypeOK, GetWindow, Index
<1>1. First' = First /\ First \in Index
  BY DEF RINGBUF_Put, First, IndexAfter
<1>2. head' = IndexAfter(head) /\ head \in Index /\ head' \in Index
  BY DEF RINGBUF_Put, IndexAfter
<1>3. IndexAfter(head) # First
  BY DEF RINGBUF_Put, CanPut, OnePut, IndexAfter, First
<1>4. /\ RINGBUF_GetFill < RingSize - 1
      /\ RINGBUF_GetFill' = RINGBUF_GetFill + 1
  BY <1>1, <1>2, <1>3 DEF RINGBUF_GetFill, IndexAfter
<1>5. IInv'
  BY NextIInv DEF RingNext
<1>6. \A i \in Nat : SlotAt(i)' = SlotAt(i)
  BY <1>1 DEF SlotAt
<1>7. SlotAt(RINGBUF_GetFill + 1) = head
  BY <1>1, <1>2, <1>4 DEF RINGBUF_GetFill, SlotAt
<1>8. Contents' = [i \in 1 .. RINGBUF_GetFill + 1 |->
                    IF i = RINGBUF_GetFill + 1 THEN b ELSE Contents[i]]
  <2>1. RINGBUF_GetFill \in Nat
    BY FillRange
  <2>2. ASSUME NEW i \in 1 .. RINGBUF_GetFill PROVE pt'[SlotAt(i)'] = Contents[i]
    <3>1. SlotAt(i) \in Index
      BY FillRange
    <3>2. SlotAt(i) # head
      BY <1>1, <1>2, <1>4 DEF RINGBUF_GetFill, SlotAt
    <3>3. SlotAt(i)' = SlotAt(i)
      BY <1>6, <2>1
    <3> QED
      BY <1>2, <3>1, <3>2, <3>3 DEF RINGBUF_Put, Contents
  <2>3. pt'[SlotAt(RINGBUF_GetFill + 1)] = b
    BY <1>2, <1>7 DEF RINGBUF_Put
  <2>4. Contents' = [i \in 1 .. RINGBUF_GetFill + 1 |-> pt'[SlotAt(i)']]
    BY <1>4 DEF Contents
  <2>5. \A i \in 1 .. RINGBUF_GetFill + 1 :
          pt'[SlotAt(i)'] = IF i = RINGBUF_GetFill + 1 THEN b ELSE Contents[i]
    BY <1>6, <2>1, <2>2, <2>3
  <2> QED
    BY <2>4, <2>5
<1>9. Append(Contents, b) = [i \in 1 .. RINGBUF_GetFill + 1 |->
                    IF i = RINGBUF_GetFill + 1 THEN b ELSE Contents[i]]
  <2>1. Contents \in Seq(Byte) /\ Len(Contents) = RINGBUF_GetFill
    BY FillRange
  <2> QED
    BY <2>1, AppendProperties
<1> QED
  BY <1>4, <1>8, <1>9

\* Reading a byte takes the oldest one and leaves the others in order.
LEMMA ReadTakesHead ==
  ASSUME IInv, GetRead
  PROVE  /\ Contents # <<>>
         /\ Contents' = Tail(Contents)
         /\ c' = <<Head(Contents)>>
<1> USE DEF IInv, RingTypeOK, GetWindow, Index
<1>1. /\ First = tail
      /\ First' = IndexAfter(tail)
      /\ tail # head
      /\ head' = head
      /\ pt' = pt
  BY DEF GetRead, First
<1>2. RINGBUF_GetFill \in Nat \ {0} /\ RINGBUF_GetFill' = RINGBUF_GetFill - 1
  <2>1. head \in Index /\ tail \in Index
    BY DEF GetRead
  <2>2. First' = IF tail = RingSize - 1 THEN 0 ELSE tail + 1
    BY <1>1, <2>1 DEF IndexAfter
  <2> QED
    BY <1>1, <2>1, <2>2 DEF RINGBUF_GetFill
<1>3. \A i \in 1 .. RINGBUF_GetFill - 1 : SlotAt(i)' = SlotAt(i + 1)
  BY <1>1, <1>2 DEF SlotAt, IndexAfter, RINGBUF_GetFill
<1>4. Contents' = [i \in 1 .. RINGBUF_GetFill - 1 |-> Contents[i + 1]]
  <2>1. Contents' = [i \in 1 .. RINGBUF_GetFill - 1 |-> pt[SlotAt(i)']]
    BY <1>1, <1>2 DEF Contents
  <2>2. \A i \in 1 .. RINGBUF_GetFill - 1 : pt[SlotAt(i)'] = Contents[i + 1]
    BY <1>2, <1>3 DEF Contents
  <2> QED
    BY <2>1, <2>2
<1>5. Contents \in Seq(Byte) /\ Len(Contents) = RINGBUF_GetFill
  BY FillRange
<1>6. /\ Contents # <<>>
      /\ Tail(Contents) = [i \in 1 .. RINGBUF_GetFill - 1 |-> Contents[i + 1]]
      /\ Head(Contents) = Contents[1]
  BY <1>2, <1>5, TailIs
<1>7. Head(Contents) = pt[tail]
  <2>1. Contents[1] = pt[SlotAt(1)]
    <3>1. 1 \in 1 .. RINGBUF_GetFill
      BY <1>2
    <3> QED
      BY <3>1 DEF Contents
  <2>2. SlotAt(1) = tail
    BY <1>1 DEF SlotAt, GetRead
  <2> QED
    BY <1>6, <2>1, <2>2
<1> QED
  BY <1>4, <1>6, <1>7 DEF GetRead

\* The other accesses of Get move no byte.
LEMMA GetMovesNoByte ==
  ASSUME IInv, GetTest \/ GetIncrement \/ GetWrap \/ UNCHANGED ringVars
  PROVE  UNCHANGED <<Contents, RINGBUF_GetFill, c>>
<1>1. UNCHANGED <<First, head, pt, c>>
  BY DEF IInv, RingTypeOK, GetWindow, Index, First, IndexAfter,
         GetTest, GetIncrement, GetWrap, ringVars
<1>2. UNCHANGED RINGBUF_GetFill
  BY <1>1 DEF RINGBUF_GetFill
<1>3. UNCHANGED Contents
  BY <1>1, <1>2 DEF Contents, SlotAt
<1> QED
  BY <1>1, <1>2, <1>3

\* With at most one Put in the window no accepted Put loses what was there.
THEOREM PutLosesNothing == ASSUME OnePut PROVE RingSpec => PutAddsOneByte
<1>1. IInv /\ [RingNext]_ringVars =>
         [head' # head => RINGBUF_GetFill' = RINGBUF_GetFill + 1]_ringVars
  <2> SUFFICES ASSUME IInv, RingNext, head' # head
               PROVE  RINGBUF_GetFill' = RINGBUF_GetFill + 1
    BY DEF ringVars
  <2>1. ~RINGBUF_Get
    BY DEF RINGBUF_Get, GetTest, GetRead, GetIncrement, GetWrap
  <2> QED
    BY <2>1, PutAppends DEF RingNext
<1> QED
  BY <1>1, GetIsSafe, PTL DEF RingSpec, IInv, PutAddsOneByte

\* With at most one Put in the window the buffer is a FIFO of size - 1 bytes.
THEOREM RingBufIsFifo == ASSUME OnePut PROVE RingSpec => ImplementsFifo
<1>1. RingInit => Fifo!Init
  <2> SUFFICES ASSUME RingInit PROVE Contents = <<>> /\ c = <<>>
    BY DEF Fifo!Init
  <2>1. RINGBUF_GetFill = 0
    BY DEF RingInit, RINGBUF_GetFill, First
  <2> QED
    BY <2>1 DEF RingInit, Contents
<1>2. IInv /\ [RingNext]_ringVars => [Fifo!Next]_(Fifo!vars)
  <2> SUFFICES ASSUME IInv, [RingNext]_ringVars PROVE [Fifo!Next]_(Fifo!vars)
    OBVIOUS
  <2>1. ASSUME NEW b \in Byte, RINGBUF_Put(b) PROVE Fifo!Add(b)
    <3>1. Len(Contents) < RingSize - 1 /\ Contents' = Append(Contents, b)
      BY <2>1, PutAppends, FillRange
    <3> QED
      BY <2>1, <3>1 DEF Fifo!Add, RINGBUF_Put
  <2>2. CASE GetRead
    BY <2>2, ReadTakesHead DEF Fifo!Take, Fifo!Next
  <2>3. CASE GetTest \/ GetIncrement \/ GetWrap \/ UNCHANGED ringVars
    BY <2>3, GetMovesNoByte DEF Fifo!vars
  <2> QED
    BY <2>1, <2>2, <2>3 DEF RingNext, RINGBUF_Get, Fifo!Next
<1> QED
  BY <1>1, <1>2, GetIsSafe, PTL DEF RingSpec, IInv, ImplementsFifo, Fifo!Spec
=============================================================================
