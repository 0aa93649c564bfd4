------------------------------ MODULE FlashMem ------------------------------
(***************************************************************************)
(* What the modules of the device's flash memories have in common: a unit  *)
(* that is erased, a unit whose bits are nobody's value, and the cuts of   *)
(* the power that may come between any two writes (drivers/FTFA/           *)
(* flash_FTFA.c, flash_mem/sst25.c).                                       *)
(***************************************************************************)
EXTENDS Integers

CONSTANTS
  Blank,    \* erased
  Torn,     \* programmed only in part, or over something else
  MaxCuts   \* bound on the cuts of the power and the resets

ASSUME FlashAssumption == Blank # Torn /\ MaxCuts \in Nat

VARIABLE cuts   \* so far
=============================================================================
