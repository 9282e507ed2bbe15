------------------------- MODULE MC_SpinSpscQueue ---------------------------
(***************************************************************************)
(* SpinSpscQueue over CustomSpscQueue for TLC: a ring of two slots whose   *)
(* counters wrap after four values, and six pushes, so that both counters  *)
(* wrap with items of either value in the ring.                            *)
(***************************************************************************)
EXTENDS SpinSpscQueue

CONSTANTS a, b
=============================================================================
