-------------------------- MODULE MC_BaseGenerator --------------------------
(***************************************************************************)
(* BaseGenerator for TLC: a second of four ticks and rates of two and      *)
(* three per second, the latter with a truncated interval; a queue of one  *)
(* message, so that the loop meets a full queue, and two threads.          *)
(***************************************************************************)
EXTENDS BaseGenerator

SomeRates  == {0, 2, 3}
\* A file with a symbol of four letters; the same and one with no symbol: an
\* empty line and one that is too long.
GoodFile   == {{4, 9}}
AnyFile    == {{0, 9}, {4, 9}}
=============================================================================
