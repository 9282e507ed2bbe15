--------------------------- MODULE SpinSpscQueue ----------------------------
(***************************************************************************)
(* src/src/utils/SpinSpscQueue.h over the ring of CustomSpscQueue: pop     *)
(* retries until it gets an item or a stop is requested.  The consumer     *)
(* thread calls pop until it returns false, as IDisseminator::run_loop     *)
(* does; another thread requests the stop, joins the consumer and then     *)
(* lets the queue be destroyed, as run_benchmark_pipeline does.            *)
(***************************************************************************)
EXTENDS CustomSpscQueue

VARIABLES
  spinPc,          \* place of the consumer thread in SpinSpscQueue::pop
  stopRequested,   \* the state behind the std::stop_token
  stopAt           \* number of items handed out when the stop was requested

spinVars == <<spinPc, stopRequested, stopAt>>
allVars  == <<vars, spinVars>>

SpinInit == /\ Init
            /\ spinPc = "outside"
            /\ stopRequested = FALSE
            /\ stopAt = 0

\* The consumer thread calls pop.
SpinCall ==
  /\ spinPc = "outside"
  /\ spinPc' = "test"
  /\ UNCHANGED <<vars, stopRequested, stopAt>>

-----------------------------------------------------------------------------
\* A fault: the token is looked at once, before the loop.
TestOnce ==
  /\ spinPc = "test"
  /\ PopCall
  /\ spinPc' = "attempt"
  /\ UNCHANGED <<stopRequested, stopAt>>

-----------------------------------------------------------------------------
\* while (!stoken.stop_requested()): return false, or begin queue_.pop(item).
SpinTest ==
  /\ spinPc = "test"
  /\ \/ /\ stopRequested
        /\ spinPc' = "ended"
        /\ UNCHANGED vars
     \/ /\ ~stopRequested
        /\ PopCall
        /\ spinPc' = "attempt"
  /\ UNCHANGED <<stopRequested, stopAt>>

\* The rest of queue_.pop(item): back to the test when it found nothing,
\* out of pop when it has the item.
SpinAttempt ==
  /\ spinPc = "attempt"
  /\ \/ /\ PopLoadWrite
        /\ spinPc' = IF popPc' = "idle" THEN "test" ELSE "attempt"
     \/ /\ PopMove \/ PopDestroy
        /\ UNCHANGED spinPc
     \/ /\ PopRelease
        /\ spinPc' = "outside"
  /\ UNCHANGED <<stopRequested, stopAt>>

\* request_stop() on the consumer's stop source.
RequestStop ==
  /\ ~stopRequested
  /\ stopRequested' = TRUE
  /\ stopAt' = Len(delivered)
  /\ UNCHANGED <<vars, spinPc>>

\* The owner destroys the queue once the consumer has been joined.
DestroyJoined ==
  /\ spinPc = "ended"
  /\ Destroy
  /\ UNCHANGED spinVars

SpinConsumer == SpinCall \/ SpinTest \/ SpinAttempt

SpinNext == \/ (Push \/ Empty) /\ UNCHANGED spinVars
            \/ SpinConsumer
            \/ RequestStop
            \/ DestroyJoined

\* The consumer thread keeps running, and it does not see the same old value
\* of write_ for ever: a store becomes visible to an acquire load in a finite
\* time.  Nothing obliges the producer to push or the owner to stop.
SeeNewest == SpinAttempt /\ popPc = "load" /\ popView' = Len(write_)

SpinSpec == /\ SpinInit /\ [][SpinNext]_allVars
            /\ WF_allVars(SpinConsumer)
            /\ SF_allVars(SeeNewest)

-----------------------------------------------------------------------------
\* Every accepted item is handed out unless a stop is requested: an idle
\* consumer spinning on old counter values does get to see the item.
EveryItemHandedOut ==
  \A k \in 1 .. MaxPushes :
    (Len(pushed) >= k) ~> (Len(delivered) >= k \/ stopRequested)

\* After a stop request at most the one attempt that was already under way
\* hands out an item; what is still queued then is left there.
AtMostOneAfterStop ==
  stopRequested => Len(delivered) <= stopAt + 1
=============================================================================
