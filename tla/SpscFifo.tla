------------------------------ MODULE SpscFifo ------------------------------
(***************************************************************************)
(* What a bounded single-producer single-consumer queue promises to its    *)
(* two clients, whatever it is built of: an accepted item is handed out    *)
(* exactly once, in the order of acceptance, and never more than Capacity  *)
(* accepted items are waiting.  This is the reading of the requirement     *)
(* SpscQueueStorage (src/src/utils/QueueConcepts.h) that WaitableSpscQueue *)
(* and SpinSpscQueue rely on.                                              *)
(*                                                                         *)
(* A push that returns false and a pop that returns false change nothing,  *)
(* so they are stuttering steps here.                                      *)
(***************************************************************************)
EXTENDS Naturals, Sequences

CONSTANTS Capacity,   \* number of items that may wait in the queue
          Item        \* the values of the element type T

VARIABLES pushed,     \* every item a push accepted, in that order
          delivered   \* every item a pop handed out, in that order

fifoVars == <<pushed, delivered>>

FifoInit == /\ pushed = << >>
            /\ delivered = << >>

\* push(item) returns true.
Accept(v) == /\ Len(pushed) - Len(delivered) < Capacity
             /\ pushed' = Append(pushed, v)
             /\ UNCHANGED delivered

\* pop(item) returns true: the oldest item not handed out yet.
HandOut == /\ Len(delivered) < Len(pushed)
           /\ delivered' = Append(delivered, pushed[Len(delivered) + 1])
           /\ UNCHANGED pushed

FifoNext == HandOut \/ \E v \in Item : Accept(v)

FifoSpec == FifoInit /\ [][FifoNext]_fifoVars
=============================================================================
