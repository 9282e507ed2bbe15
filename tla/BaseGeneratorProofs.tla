------------------------ MODULE BaseGeneratorProofs -------------------------
(***************************************************************************)
(* Proofs about BaseGenerator for every rate, capacity, clock and number   *)
(* of starts: the generator never runs ahead of its schedule, loses a      *)
(* message only to a stop, and stamps messages in the order it queues them.*)
(***************************************************************************)
EXTENDS BaseGenerator, TLAPS

-----------------------------------------------------------------------------
(* The inductive invariant *)

\* Places of the loop inside a round, past the test of the token.
InRound == loopPc \in {"clock", "generate", "retry", "push"}

\* Places of the loop at which it holds a message.
Holding == loopPc \in {"retry", "push"}

\* The types TypeOK leaves out, and what the clock bounds.
TypesInv ==
  /\ started \in 0 .. now
  /\ msg \in 0 .. now \cup {NoMsg}
  /\ starts \in Nat

\* Only a running thread is inside a round, and it holds a message exactly
\* between its generation and the end of the retries.
PlaceInv ==
  /\ InRound => generating_thread_ = "running"
  /\ Holding <=> msg # NoMsg
  /\ loopPc = "begin" => rounds = 0
  /\ generating_thread_ # "none" => starts > 0
  /\ stopRequested => starts > 0

\* The number of intervals the schedule has advanced since the start: one per
\* round that has ended.
Slots == IF Holding THEN rounds - 1 ELSE rounds

\* The schedule is the start and a whole number of intervals, and no message is
\* made before its time has come.
ScheduleInv ==
  generating_thread_ = "running" /\ loopPc # "begin" =>
    /\ next_time = started + Slots * interval_
    /\ loopPc = "generate" \/ Holding => next_time <= now
    /\ rounds = 0 \/ next_time <= now + interval_
    /\ Holding => rounds > 0

\* Every thread has given up at most one message, and the last one none unless
\* it has been stopped and is past its round.
LostInv ==
  /\ lost <= starts
  /\ starts > 0 /\ ~stopRequested => lost <= starts - 1
  /\ InRound => lost <= starts - 1

\* The messages in the queue's history are sorted and not younger than the clock
\* or the message in hand.
StampsInv ==
  /\ \A i, j \in 1 .. Len(accepted) : i <= j => accepted[i] <= accepted[j]
  /\ \A i \in 1 .. Len(accepted) :
       accepted[i] <= now /\ (msg # NoMsg => accepted[i] <= msg)

GenInv == /\ TypeOK /\ TypesInv /\ PlaceInv
          /\ ScheduleInv /\ LostInv /\ StampsInv

-----------------------------------------------------------------------------
(* Lemmas *)

\* One interval more is one slot more.
LEMMA OneSlotMore ==
  ASSUME NEW r \in Int, NEW d \in Int
  PROVE  (r - 1) * d + d = r * d
  OBVIOUS

\* The interval of a rate that set_rate accepts lies within a second.
LEMMA IntervalBound ==
  ASSUME NEW rate \in Rates, rate >= 1
  PROVE  rate \in Nat /\ interval_for(rate) \in 0 .. Second
<1>1. rate \in Nat \ {0} /\ Second \in Nat
  BY RatesAssumption, SecondAssumption
<1> DEFINE q == Second \div rate
           m == Second % rate
<1>2. q \in Int /\ m \in 0 .. (rate - 1) /\ Second = rate * q + m
  BY <1>1
<1>3. q >= 0 /\ q <= Second
  <2> HIDE DEF q, m
  <2>1. q <= -1 => rate * q <= -rate
    BY <1>1, <1>2
  <2>2. q >= 0 => q <= rate * q
    BY <1>1, <1>2
  <2> QED
    BY <1>1, <1>2, <2>1, <2>2
<1> QED
  BY <1>1, <1>2, <1>3 DEF interval_for

\* A sequence of time stamps with one more.
LEMMA AppendStamp ==
  ASSUME NEW S, NEW q \in Seq(S), NEW e \in S, NEW q1, q1 = Append(q, e)
  PROVE  /\ q1 \in Seq(S) /\ Len(q1) = Len(q) + 1
         /\ \A k \in 1 .. Len(q) : q1[k] = q[k]
         /\ q1[Len(q) + 1] = e
  OBVIOUS

\* The constants that bound the state are naturals.
LEMMA Bounds == Second \in Nat \ {0} /\ Capacity \in Nat /\ MaxTime \in Nat
  BY GeneratorBounds, SecondAssumption

\* The elements of a sequence.
LEMMA ElementsOfSeq ==
  ASSUME NEW S, NEW q \in Seq(S)
  PROVE  Len(q) \in Nat /\ \A k \in 1 .. Len(q) : q[k] \in S
  OBVIOUS

LEMMA EmptyIsSeq == ASSUME NEW S PROVE << >> \in Seq(S)
  OBVIOUS

LEMMA InitInv == ASSUME Init PROVE GenInv
<1> USE DEF Init
<1>1. TypeOK
  <2>1. accepted \in Seq(0 .. MaxTime)
    BY EmptyIsSeq
  <2>2. now \in 0 .. MaxTime /\ waiting \in 0 .. Capacity /\ interval_ \in 0 .. Second
    BY Bounds
  <2> QED
    BY <2>1, <2>2 DEF TypeOK
<1>2. TypesInv /\ PlaceInv
  BY DEF TypesInv, PlaceInv, InRound, Holding, NoMsg
<1>3. ScheduleInv /\ LostInv
  BY DEF ScheduleInv, LostInv, InRound
<1>4. StampsInv
  BY DEF StampsInv
<1> QED
  BY <1>1, <1>2, <1>3, <1>4 DEF GenInv

-----------------------------------------------------------------------------
(* The steps of the client *)

\* configure changes the interval, but there is no running thread then.
LEMMA configureStep ==
  ASSUME GenInv, NEW rate \in Rates, NEW file \in Files, configure(rate, file)
  PROVE  GenInv'
<1> USE DEF configure, clientVars, loopVars, queueVars
<1>1. TypeOK'
  BY IntervalBound DEF GenInv, TypeOK
<1>2. ScheduleInv'
  BY DEF ScheduleInv
<1> QED
  BY <1>1, <1>2 DEF GenInv, TypesInv, PlaceInv, LostInv, StampsInv, InRound, Holding

\* A new thread has lost nothing yet.
LEMMA startStep == ASSUME GenInv, start PROVE GenInv'
<1> USE DEF start, confVars, queueVars
<1>1. starts' = starts + 1 /\ starts \in Nat /\ lost \in Nat
  BY DEF GenInv, TypesInv, TypeOK
<1>2a. TypeOK'
  BY DEF GenInv, TypeOK
<1>2b. TypesInv'
  BY <1>1 DEF GenInv, TypesInv
<1>3. PlaceInv'
  BY <1>1 DEF GenInv, PlaceInv, InRound, Holding
<1>4. ScheduleInv'
  BY DEF ScheduleInv
<1>5. LostInv'
  BY <1>1 DEF GenInv, LostInv, InRound
<1> QED
  BY <1>2a, <1>2b, <1>3, <1>4, <1>5 DEF GenInv, StampsInv

LEMMA stopStep == ASSUME GenInv, stop_request \/ stop_join PROVE GenInv'
<1> USE DEF stop_request, stop_join, confVars, loopVars, queueVars
<1>1. TypeOK' /\ TypesInv'
  BY DEF GenInv, TypeOK, TypesInv
<1>2. PlaceInv'
  BY DEF GenInv, PlaceInv, InRound, Holding
<1>3. ScheduleInv'
  BY DEF GenInv, ScheduleInv, Slots, Holding
<1>4. LostInv'
  BY DEF GenInv, LostInv, InRound
<1> QED
  BY <1>1, <1>2, <1>3, <1>4 DEF GenInv, StampsInv

-----------------------------------------------------------------------------
(* The steps of the loop *)

LEMMA LoopBeginStep == ASSUME GenInv, LoopBegin PROVE GenInv'
<1> USE DEF LoopBegin, confVars, clientVars, queueVars
<1>1. TypeOK' /\ TypesInv'
  BY DEF GenInv, TypeOK, TypesInv
<1>2. PlaceInv'
  BY DEF GenInv, PlaceInv, InRound, Holding
<1>3. ScheduleInv'
  BY DEF GenInv, ScheduleInv, PlaceInv, Slots, Holding, TypeOK
<1>4. LostInv'
  BY DEF GenInv, LostInv, InRound
<1> QED
  BY <1>1, <1>2, <1>3, <1>4 DEF GenInv, StampsInv

\* A thread that has been asked to stop begins no further round.
LEMMA LoopTestStep == ASSUME GenInv, LoopTest PROVE GenInv'
<1> USE DEF LoopTest, confVars, queueVars
<1>1. TypeOK' /\ TypesInv'
  BY DEF GenInv, TypeOK, TypesInv
<1>2. PlaceInv'
  BY DEF GenInv, PlaceInv, InRound, Holding
<1>3. ScheduleInv'
  BY DEF GenInv, ScheduleInv, Slots, Holding
<1>4. LostInv'
  BY DEF GenInv, LostInv, PlaceInv, InRound
<1> QED
  BY <1>1, <1>2, <1>3, <1>4 DEF GenInv, StampsInv

LEMMA LoopClockStep == ASSUME GenInv, LoopClock PROVE GenInv'
<1> USE DEF LoopClock, confVars, clientVars, queueVars
<1>1. TypeOK' /\ TypesInv'
  BY DEF GenInv, TypeOK, TypesInv
<1>2. PlaceInv'
  BY DEF GenInv, PlaceInv, InRound, Holding
<1>3. ScheduleInv'
  BY DEF GenInv, ScheduleInv, Slots, Holding, Due, TypeOK
<1>4. LostInv'
  BY DEF GenInv, LostInv, InRound
<1> QED
  BY <1>1, <1>2, <1>3, <1>4 DEF GenInv, StampsInv

\* The new message is as young as the clock, so older than none that is queued.
LEMMA LoopGenerateStep == ASSUME GenInv, LoopGenerate PROVE GenInv'
<1> USE DEF LoopGenerate, Stamp, confVars, clientVars, queueVars
<1>1. TypeOK' /\ TypesInv'
  BY DEF GenInv, TypeOK, TypesInv
<1>2. PlaceInv'
  BY DEF GenInv, PlaceInv, TypeOK, InRound, Holding, NoMsg
<1>3. ScheduleInv'
  <2>1. rounds \in Nat /\ rounds' - 1 = rounds
    BY DEF GenInv, TypeOK
  <2>2. next_time' <= now' + interval_'
    BY DEF GenInv, ScheduleInv, PlaceInv, InRound, TypeOK
  <2> QED
    BY <2>1, <2>2 DEF GenInv, ScheduleInv, PlaceInv, InRound, Slots, Holding
<1>4. LostInv'
  BY DEF GenInv, LostInv, InRound
<1>5. StampsInv'
  BY DEF GenInv, StampsInv
<1> QED
  BY <1>1, <1>2, <1>3, <1>4, <1>5 DEF GenInv

\* The end of a round advances the schedule by the slot of its message.
LEMMA RoundDoneSchedule ==
  ASSUME GenInv, Holding, RoundDone,
         UNCHANGED <<confVars, clientVars, now, started, rounds>>
  PROVE  ScheduleInv'
<1> USE DEF RoundDone, confVars, clientVars
<1>1. /\ rounds \in Nat /\ interval_ \in Nat /\ started \in Nat
      /\ next_time = started + (rounds - 1) * interval_
      /\ next_time <= now
  BY Bounds DEF GenInv, TypeOK, TypesInv, PlaceInv, InRound, Holding, ScheduleInv, Slots
<1>2. next_time' = next_time + interval_
  BY DEF Schedule
<1>3. (rounds - 1) * interval_ + interval_ = rounds * interval_
  BY <1>1, OneSlotMore
<1>4. next_time' = started + rounds * interval_
  <2> DEFINE p == (rounds - 1) * interval_
             q == rounds * interval_
  <2>1. p \in Int /\ q \in Int
    BY <1>1
  <2> HIDE DEF p, q
  <2> QED
    BY <1>1, <1>2, <1>3, <2>1 DEF p, q
<1>5. next_time' <= now + interval_
  BY <1>1, <1>2 DEF GenInv, TypeOK
<1>6. Slots' = rounds /\ ~Holding' /\ loopPc' = "test"
  BY DEF Slots, Holding
<1> QED
  BY <1>4, <1>5, <1>6 DEF ScheduleInv

\* The message in hand is given up: the one of this thread.
LEMMA LoopRetryStep == ASSUME GenInv, LoopRetry PROVE GenInv'
<1> USE DEF LoopRetry, StopSeen, confVars, clientVars, queueVars
<1>1. CASE stopRequested
  <2> USE <1>1
  <2>0. RoundDone
    BY DEF LoopRetry
  <2>1. ScheduleInv'
    BY <2>0, RoundDoneSchedule DEF Holding
  <2> USE DEF RoundDone
  <2>2. TypeOK'
    BY Bounds DEF GenInv, TypeOK, Schedule
  <2>3. TypesInv' /\ PlaceInv'
    BY DEF GenInv, TypesInv, PlaceInv, InRound, Holding
  <2>4. LostInv'
    BY DEF GenInv, TypeOK, TypesInv, LostInv, PlaceInv, InRound
  <2> QED
    BY <2>1, <2>2, <2>3, <2>4 DEF GenInv, StampsInv
<1>2. CASE ~stopRequested
  <2> USE <1>2
  <2>1. TypeOK' /\ TypesInv'
    BY DEF GenInv, TypeOK, TypesInv
  <2>2. PlaceInv' /\ LostInv'
    BY DEF GenInv, PlaceInv, LostInv, InRound, Holding
  <2>3. ScheduleInv'
    BY DEF GenInv, ScheduleInv, Slots, Holding
  <2> QED
    BY <2>1, <2>2, <2>3 DEF GenInv, StampsInv
<1> QED
  BY <1>1, <1>2

\* The message in hand becomes the youngest of the queue's history.
LEMMA LoopPushStep == ASSUME GenInv, LoopPush PROVE GenInv'
<1> USE DEF LoopPush, HasRoom, confVars, clientVars, queueVars
<1>1. CASE waiting < Capacity
  <2> USE <1>1
  <2>0. RoundDone /\ waiting' = waiting + 1 /\ accepted' = Append(accepted, msg)
    BY DEF LoopPush, GenInv, TypeOK
  <2>1. ScheduleInv'
    BY <2>0, RoundDoneSchedule DEF Holding
  <2> USE DEF RoundDone
  <2>2. msg # NoMsg /\ msg \in 0 .. now /\ msg \in 0 .. MaxTime /\ now \in 0 .. MaxTime
    <3>1. msg # NoMsg /\ msg \in 0 .. now /\ now \in 0 .. MaxTime
      BY DEF GenInv, TypeOK, TypesInv, PlaceInv, Holding
    <3> QED
      BY <3>1, Bounds
  <2>3. /\ accepted' \in Seq(0 .. MaxTime) /\ Len(accepted') = Len(accepted) + 1
        /\ \A k \in 1 .. Len(accepted) : (accepted')[k] = accepted[k]
        /\ (accepted')[Len(accepted) + 1] = msg
    BY <2>0, <2>2, AppendStamp DEF GenInv, TypeOK
  <2>4. TypeOK'
    BY <2>0, <2>3, Bounds DEF GenInv, TypeOK, Schedule
  <2>5. TypesInv' /\ PlaceInv'
    BY <2>0 DEF GenInv, TypesInv, PlaceInv, InRound, Holding
  <2>6. LostInv'
    BY <2>0 DEF GenInv, LostInv, InRound
  <2>7. StampsInv'
    <3>1. Len(accepted) \in Nat /\ accepted \in Seq(0 .. MaxTime)
      BY DEF GenInv, TypeOK
    <3>2. \A i \in 1 .. Len(accepted) : accepted[i] <= now /\ accepted[i] <= msg
      BY <2>2 DEF GenInv, StampsInv
    <3>3. \A i, j \in 1 .. Len(accepted') :
            i <= j => (accepted')[i] <= (accepted')[j]
      BY <2>2, <2>3, <3>1, <3>2 DEF GenInv, StampsInv
    <3>4. \A i \in 1 .. Len(accepted') : (accepted')[i] <= now
      BY <2>2, <2>3, <3>1, <3>2
    <3>5. msg' = NoMsg /\ now' = now
      BY <2>0
    <3> QED
      BY <3>3, <3>4, <3>5 DEF StampsInv
  <2> QED
    BY <2>1, <2>4, <2>5, <2>6, <2>7 DEF GenInv
<1>2. CASE ~(waiting < Capacity)
  <2> USE <1>2
  <2>1. TypeOK' /\ TypesInv'
    BY DEF GenInv, TypeOK, TypesInv
  <2>2. PlaceInv' /\ LostInv'
    BY DEF GenInv, PlaceInv, LostInv, InRound, Holding
  <2>3. ScheduleInv'
    BY DEF GenInv, ScheduleInv, Slots, Holding
  <2> QED
    BY <2>1, <2>2, <2>3 DEF GenInv, StampsInv
<1> QED
  BY <1>1, <1>2

-----------------------------------------------------------------------------
(* The surroundings *)

LEMMA ConsumeStep == ASSUME GenInv, Consume PROVE GenInv'
<1> USE DEF Consume, confVars, clientVars, loopVars
<1>1. TypeOK' /\ TypesInv'
  BY Bounds DEF GenInv, TypeOK, TypesInv
<1>2. PlaceInv' /\ LostInv'
  BY DEF GenInv, PlaceInv, LostInv, InRound, Holding
<1>3. ScheduleInv'
  BY DEF GenInv, ScheduleInv, Slots, Holding
<1> QED
  BY <1>1, <1>2, <1>3 DEF GenInv, StampsInv

\* Time makes a message due, never undue.
LEMMA TickStep == ASSUME GenInv, Tick PROVE GenInv'
<1> USE DEF Tick, confVars, clientVars, loopVars, queueVars
<1>0. now \in Nat /\ now' = now + 1 /\ interval_ \in Nat
  BY Bounds DEF GenInv, TypeOK
<1>1. TypeOK' /\ TypesInv'
  BY <1>0, Bounds DEF GenInv, TypeOK, TypesInv
<1>2. PlaceInv' /\ LostInv'
  BY DEF GenInv, PlaceInv, LostInv, InRound, Holding
<1>3. ScheduleInv'
  BY <1>0 DEF GenInv, TypeOK, ScheduleInv, Slots, Holding
<1>4. StampsInv'
  <2>1. \A i \in 1 .. Len(accepted) : accepted[i] \in 0 .. MaxTime
    BY ElementsOfSeq DEF GenInv, TypeOK
  <2> QED
    BY <1>0, <2>1, Bounds DEF GenInv, StampsInv
<1> QED
  BY <1>1, <1>2, <1>3, <1>4 DEF GenInv

\* Every step of generator, client and surroundings preserves the invariant.
LEMMA NextInv == ASSUME GenInv, [Next]_vars PROVE GenInv'
<1>1. CASE \E rate \in Rates, file \in Files : configure(rate, file)
  BY <1>1, configureStep
<1>2. CASE start
  BY <1>2, startStep
<1>3. CASE stop_request \/ stop_join
  BY <1>3, stopStep
<1>4. CASE LoopBegin
  BY <1>4, LoopBeginStep
<1>5. CASE LoopTest
  BY <1>5, LoopTestStep
<1>6. CASE LoopClock
  BY <1>6, LoopClockStep
<1>7. CASE LoopGenerate
  BY <1>7, LoopGenerateStep
<1>8. CASE LoopRetry
  BY <1>8, LoopRetryStep
<1>9. CASE LoopPush
  BY <1>9, LoopPushStep
<1>10. CASE Consume
  BY <1>10, ConsumeStep
<1>11. CASE Tick
  BY <1>11, TickStep
<1>12. CASE UNCHANGED vars
  <2> USE <1>12 DEF vars, confVars, clientVars, loopVars, queueVars
  <2>1. TypeOK' /\ TypesInv'
    BY DEF GenInv, TypeOK, TypesInv
  <2>2. PlaceInv' /\ LostInv'
    BY DEF GenInv, PlaceInv, LostInv, InRound, Holding
  <2>3. ScheduleInv' /\ StampsInv'
    BY DEF GenInv, ScheduleInv, StampsInv, Slots, Holding
  <2> QED
    BY <2>1, <2>2, <2>3 DEF GenInv
<1> QED
  BY <1>1, <1>2, <1>3, <1>4, <1>5, <1>6, <1>7, <1>8, <1>9, <1>10, <1>11, <1>12
     DEF Next, Client, Loop

-----------------------------------------------------------------------------
(* Theorems *)

\* The inductive invariant holds in every reachable state of the generator.
THEOREM GeneratorInvariant == Spec => []GenInv
<1>1. Init => GenInv
  BY InitInv
<1>2. GenInv /\ [Next]_vars => GenInv'
  BY NextInv
<1> QED
  BY <1>1, <1>2, PTL DEF Spec

\* The state of configure, start, stop and the loop keeps its types, and the
\* queue its capacity.
THEOREM GeneratorTypeCorrect == Spec => []TypeOK
<1>1. GenInv => TypeOK
  BY DEF GenInv
<1> QED
  BY <1>1, GeneratorInvariant, PTL

\* Whatever the rate and however long the loop was held up, it has never made
\* more messages than intervals have passed since its start, and the first.
THEOREM PacedBySchedule == Spec => []NeverAheadOfSchedule
<1>1. ASSUME GenInv PROVE NeverAheadOfSchedule
  <2> SUFFICES ASSUME generating_thread_ = "running", loopPc # "begin"
               PROVE  (rounds - 1) * interval_ <= now - started
    BY DEF NeverAheadOfSchedule
  <2>1. /\ rounds \in Nat /\ interval_ \in Nat /\ started \in Nat
        /\ now \in Nat /\ started <= now /\ next_time \in Nat
    BY <1>1, Bounds DEF GenInv, TypeOK, TypesInv
  <2> DEFINE p == (rounds - 1) * interval_
             q == rounds * interval_
  <2>2. p \in Int /\ q \in Int /\ p + interval_ = q
    BY <2>1, OneSlotMore
  <2>3. rounds = 0 => p <= 0
    BY <2>1
  <2>4. \/ Holding /\ next_time = started + p /\ next_time <= now
        \/ ~Holding /\ next_time = started + q /\ (rounds = 0 \/ next_time <= now + interval_)
    BY <1>1 DEF GenInv, ScheduleInv, Slots
  <2> HIDE DEF p, q
  <2>5. p <= now - started
    BY <2>1, <2>2, <2>3, <2>4
  <2> QED
    BY <2>5 DEF p
<1> QED
  BY <1>1, GeneratorInvariant, PTL

\* A full queue never loses a message: each stopped thread gives up at most the
\* one it holds, and a thread that was not stopped gives up none.
THEOREM OnlyStopsLose == Spec => []LostOnlyByStop
<1>1. GenInv => LostOnlyByStop
  BY DEF GenInv, LostInv, LostOnlyByStop, TypeOK, TypesInv
<1> QED
  BY <1>1, GeneratorInvariant, PTL

\* Messages enter the queue in the order of their enqueue time stamps, also when
\* a push had to be retried and across restarts of the thread.
THEOREM StampsAreOrdered == Spec => []TimestampsInOrder
<1>1. ASSUME GenInv PROVE TimestampsInOrder
  <2>1. accepted \in Seq(0 .. MaxTime) /\ Len(accepted) \in Nat
    BY <1>1 DEF GenInv, TypeOK
  <2>2. \A i \in 1 .. (Len(accepted) - 1) : accepted[i] <= accepted[i + 1]
    BY <1>1, <2>1 DEF GenInv, StampsInv
  <2>3. msg # NoMsg /\ accepted # << >> => accepted[Len(accepted)] <= msg
    <3>1. accepted # << >> => Len(accepted) \in 1 .. Len(accepted)
      BY <2>1
    <3> QED
      BY <1>1, <3>1 DEF GenInv, StampsInv
  <2> QED
    BY <2>2, <2>3 DEF TimestampsInOrder
<1> QED
  BY <1>1, GeneratorInvariant, PTL

-----------------------------------------------------------------------------
(* Symbols to draw from *)

\* A rate comes with symbols, and a thread with a rate.
ConfiguredInv ==
  /\ messages_per_sec_ # 0 => symbols_ # {}
  /\ generating_thread_ # "none" => messages_per_sec_ # 0

\* When every file names a usable symbol, configure leaves no rate without
\* symbols and the loop always has one to draw: files without a symbol are the
\* only way to run on a generator that configure has refused.
THEOREM UsableFilesSuffice ==
  ASSUME \A file \in Files : read_symbols_file(file) # {}
  PROVE  Spec => []GeneratesOnlyConfigured
<1>1. Init => ConfiguredInv
  BY DEF Init, ConfiguredInv
<1>2. GenInv /\ ConfiguredInv /\ [Next]_vars => ConfiguredInv'
  <2> SUFFICES ASSUME GenInv, ConfiguredInv, [Next]_vars PROVE ConfiguredInv'
    OBVIOUS
  <2> USE DEF ConfiguredInv
  <2>1. CASE \E rate \in Rates, file \in Files : configure(rate, file)
    BY <2>1 DEF configure, clientVars
  <2>2. CASE start
    BY <2>2 DEF start, confVars
  <2>3. CASE stop_request \/ stop_join
    BY <2>3 DEF stop_request, stop_join, confVars
  <2>4. CASE LoopTest
    BY <2>4 DEF LoopTest, confVars
  <2>5. CASE LoopBegin \/ LoopClock \/ LoopGenerate \/ LoopRetry \/ LoopPush \/ Consume
             \/ Tick \/ UNCHANGED vars
    BY <2>5 DEF LoopBegin, LoopClock, LoopGenerate, LoopRetry, LoopPush, Consume, Tick,
                vars, confVars, clientVars
  <2> QED
    BY <2>1, <2>2, <2>3, <2>4, <2>5 DEF Next, Client, Loop
<1>3. GenInv /\ ConfiguredInv => GeneratesOnlyConfigured
  BY DEF GenInv, PlaceInv, InRound, ConfiguredInv, GeneratesOnlyConfigured
<1> QED
  BY <1>1, <1>2, <1>3, GeneratorInvariant, PTL DEF Spec
=============================================================================
