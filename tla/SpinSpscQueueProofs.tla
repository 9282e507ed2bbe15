------------------------ MODULE SpinSpscQueueProofs -------------------------
(***************************************************************************)
(* Proofs about SpinSpscQueue, for every capacity, counter width, element  *)
(* type and number of pushes.  Each step of the spinning pop is a step of  *)
(* the ring or does not touch it, so what is proved of the ring holds of   *)
(* the queue the pipeline uses.                                            *)
(***************************************************************************)
EXTENDS SpinSpscQueue, CustomSpscQueueProofs

\* The consumer is inside queue_.pop exactly while an attempt is under way; a
\* stop leaves either the count of the request, or one more and no attempt.
SpinInv ==
  /\ stopRequested \in BOOLEAN
  /\ popPc # "idle" => spinPc = "attempt"
  /\ spinPc \in {"outside", "test", "ended"} => popPc = "idle"
  /\ stopRequested => \/ Len(delivered) = stopAt
                      \/ Len(delivered) = stopAt + 1 /\ spinPc # "attempt"

-----------------------------------------------------------------------------
\* A step of the producer, the consumer or the owner is a step of the ring, or
\* leaves the ring alone.
LEMMA SpinStepIsRingStep == [SpinNext]_allVars => [Next]_vars
<1> SUFFICES ASSUME [SpinNext]_allVars PROVE Next \/ UNCHANGED vars
  OBVIOUS
<1>1. CASE (Push \/ Empty) /\ UNCHANGED spinVars
  BY <1>1 DEF Next
<1>2. CASE SpinCall
  BY <1>2 DEF SpinCall
<1>3. CASE SpinTest
  BY <1>3 DEF SpinTest, Next, Pop
<1>4. CASE SpinAttempt
  BY <1>4 DEF SpinAttempt, Next, Pop
<1>5. CASE RequestStop
  BY <1>5 DEF RequestStop
<1>6. CASE DestroyJoined
  BY <1>6 DEF DestroyJoined, Next
<1>7. CASE UNCHANGED allVars
  BY <1>7 DEF allVars
<1> QED
  BY <1>1, <1>2, <1>3, <1>4, <1>5, <1>6, <1>7 DEF SpinNext, SpinConsumer

\* Only the release of read_ at the end of a pop that has an item adds to what
\* was handed out; the other steps of a pop leave it alone.
LEMMA ReleaseHandsOutOne ==
  ASSUME IInv, PopRelease
  PROVE  Len(delivered') = Len(delivered) + 1 /\ popPc' = "idle"
<1>1. delivered \in Seq(Item) /\ popItem \in Item \cup {Raw}
  BY DEF IInv, TypeOK
<1> QED
  BY <1>1 DEF PopRelease

LEMMA InitSpinInv == SpinInit => SpinInv
  BY DEF SpinInit, Init, SpinInv

\* The inductive step, one case per action.
LEMMA NextSpinInv == IInv /\ SpinInv /\ [SpinNext]_allVars => SpinInv'
<1> SUFFICES ASSUME IInv, SpinInv, [SpinNext]_allVars PROVE SpinInv'
  OBVIOUS
<1> USE DEF SpinInv
<1>0. Len(delivered) \in Nat /\ popPc \in {"idle", "load", "move", "destroy", "release"}
  BY DEF IInv, TypeOK
<1>1. CASE (Push \/ Empty) /\ UNCHANGED spinVars
  <2>1. UNCHANGED <<popPc, delivered, spinPc, stopRequested, stopAt>>
    BY <1>1 DEF Push, PushCall, PushLoadRead, PushConstruct, PushPublish, Empty,
                popVars, spinVars
  <2> QED
    BY <2>1
<1>2. CASE SpinCall
  BY <1>2 DEF SpinCall, vars, popVars
<1>3. CASE SpinTest
  <2>1. CASE stopRequested /\ spinPc' = "ended" /\ UNCHANGED vars
    BY <1>3, <2>1 DEF SpinTest, vars, popVars
  <2>2. CASE ~stopRequested /\ PopCall /\ spinPc' = "attempt"
    BY <1>3, <2>2 DEF SpinTest, PopCall
  <2> QED
    BY <1>3, <2>1, <2>2 DEF SpinTest
<1>4. CASE SpinAttempt
  <2>1. /\ spinPc = "attempt" /\ UNCHANGED <<stopRequested, stopAt>>
        /\ stopRequested => Len(delivered) = stopAt
    BY <1>4 DEF SpinAttempt
  <2>2. CASE PopLoadWrite /\ spinPc' = IF popPc' = "idle" THEN "test" ELSE "attempt"
    BY <2>1, <2>2 DEF PopLoadWrite
  <2>3. CASE (PopMove \/ PopDestroy) /\ UNCHANGED spinPc
    BY <2>1, <2>3 DEF PopMove, PopDestroy
  <2>4. CASE PopRelease /\ spinPc' = "outside"
    BY <2>1, <2>4, ReleaseHandsOutOne
  <2> QED
    BY <1>4, <2>2, <2>3, <2>4 DEF SpinAttempt
<1>5. CASE RequestStop
  BY <1>5 DEF RequestStop, vars, popVars
<1>6. CASE DestroyJoined
  BY <1>6 DEF DestroyJoined, Destroy, spinVars, popVars
<1>7. CASE UNCHANGED allVars
  BY <1>7 DEF allVars, vars, spinVars, popVars
<1> QED
  BY <1>1, <1>2, <1>3, <1>4, <1>5, <1>6, <1>7 DEF SpinNext, SpinConsumer

-----------------------------------------------------------------------------
\* The queue with the spinning pop is a ring: all that is proved of Spec, the
\* order of the items, the ownership of the slots, the destructor, holds of it.
THEOREM SpinUsesTheRing == SpinSpec => Spec
<1>1. SpinInit => Init
  BY DEF SpinInit
<1> QED
  BY <1>1, SpinStepIsRingStep, PTL DEF SpinSpec, Spec

\* After request_stop() at most one more item is handed out: the attempt that
\* was under way, however the producer, the consumer and the request interleave.
THEOREM StopTakesEffect == SpinSpec => []AtMostOneAfterStop
<1>1. SpinInit => SpinInv
  BY InitSpinInv
<1>2. IInv /\ SpinInv /\ [SpinNext]_allVars => SpinInv'
  BY NextSpinInv
<1>3. IInv /\ SpinInv => AtMostOneAfterStop
  <2> SUFFICES ASSUME IInv, SpinInv, stopRequested
               PROVE  Len(delivered) <= stopAt + 1
    BY DEF AtMostOneAfterStop
  <2>1. Len(delivered) \in Nat
    BY DEF IInv, TypeOK
  <2> QED
    BY <2>1 DEF SpinInv
<1> QED
  BY <1>1, <1>2, <1>3, SpinUsesTheRing, RingInvariant, PTL DEF SpinSpec

\* The items come out of the spinning pop in the order in which push took them.
THEOREM SpinKeepsOrder == SpinSpec => []FifoOrder /\ []SlotOwnership
  BY SpinUsesTheRing, FifoCorrect, SlotsOwned, PTL
=============================================================================
