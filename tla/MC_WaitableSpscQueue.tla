----------------------- MODULE MC_WaitableSpscQueue -------------------------
(***************************************************************************)
(* WaitableSpscQueue for TLC.  The configurations differ in BufferSize: 0  *)
(* is sequential consistency, 1 lets one store of a thread be overtaken by *)
(* its later loads.                                                        *)
(***************************************************************************)
EXTENDS WaitableSpscQueue
=============================================================================
