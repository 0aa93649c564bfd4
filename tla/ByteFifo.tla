------------------------------ MODULE ByteFifo ------------------------------
(***************************************************************************)
(* What a RINGBUF promises its two users: a bounded first-in first-out     *)
(* queue of bytes with one producer and one consumer.  The consumer sees   *)
(* the queue only through the byte its last successful RINGBUF_Get         *)
(* returned; a RINGBUF_Put that finds the queue full is refused and leaves *)
(* it as it was, which is a stuttering step here.                          *)
(***************************************************************************)
EXTENDS Naturals, Sequences

CONSTANTS
  Capacity,   \* how many bytes the queue holds
  Byte        \* the bytes

VARIABLES
  queue,      \* the bytes put and not yet taken, oldest first
  taken       \* the byte the last Take returned, <<>> before the first

vars == <<queue, taken>>

Init ==
  /\ queue = <<>>
  /\ taken = <<>>

Add(c) ==
  /\ Len(queue) < Capacity
  /\ queue' = Append(queue, c)
  /\ UNCHANGED taken

Take ==
  /\ queue # <<>>
  /\ queue' = Tail(queue)
  /\ taken' = <<Head(queue)>>

Next == Take \/ \E c \in Byte : Add(c)

Spec == Init /\ [][Next]_vars
=============================================================================
