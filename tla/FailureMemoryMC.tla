--------------------------- MODULE FailureMemoryMC -----------------------------
(***************************************************************************)
(* Instances of FailureMemory for TLC.  A unit of time is two minutes, the *)
(* default cooldown; the settings keep the backoff short but let it double *)
(* twice before it meets its cap.                                          *)
(***************************************************************************)
EXTENDS FailureMemory

CONSTANTS w1, w2

TwoSlots == {w1, w2}
================================================================================
