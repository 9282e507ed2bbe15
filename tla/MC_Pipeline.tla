---------------------------- MODULE MC_Pipeline -----------------------------
(***************************************************************************)
(* Pipeline for TLC: four messages through a queue of two and a network   *)
(* buffer of two, with a clock of a few ticks.                             *)
(***************************************************************************)
EXTENDS Pipeline
=============================================================================
