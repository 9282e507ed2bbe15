--------------------------- MODULE BaseGenerator ----------------------------
(***************************************************************************)
(* src/src/generator/BaseGenerator.h with RandomWalkGenerator.h as its     *)
(* derived class: configuration, start, stop, and the loop that produces   *)
(* one message per interval and retries a push until it succeeds or the    *)
(* stop is requested.                                                      *)
(*                                                                         *)
(* Time is a counter of clock ticks that advances by itself, also between  *)
(* any two steps of the loop: a thread may be descheduled anywhere.  A     *)
(* message is represented by its enqueue_timestamp; symbol, prices and      *)
(* sizes are random and no property depends on them.                       *)
(***************************************************************************)
EXTENDS Integers, Sequences

CONSTANTS
  Second,        \* ticks in a second (1'000'000'000)
  Rates,         \* rates clients configure, 0 among them
  Files,         \* symbols files; a line is represented by the number of its
                 \* characters that are not white space
  Capacity,      \* capacity of the queue
  MaxTime,       \* bound: the clock stops here
  MaxStarts      \* bound: number of threads started

ASSUME SecondAssumption == Second \in Nat \ {0}

\* A rate above one message per tick makes the interval 0, and the loop unpaced.
ASSUME RatesAssumption == Rates \subseteq Nat

ASSUME GeneratorBounds == {Capacity, MaxTime, MaxStarts} \subseteq Nat

VARIABLES
  messages_per_sec_, interval_,  \* the configuration
  symbols_,                      \* lines read from the file
  generating_thread_,            \* "none" (not joinable), "running" or "ended"
  stopRequested, clientPc,       \* stop state; "free" or "joining"
  now,                           \* steady_clock::now()
  next_time, loopPc, msg,        \* locals of generation_loop
  waiting,                       \* messages in the queue
  accepted,                      \* messages that entered the queue, in order
  started,                       \* clock when the thread entered its loop
  rounds,                        \* messages generated by this thread
  lost,                          \* messages generated and not queued
  starts                         \* threads started

confVars   == <<messages_per_sec_, interval_, symbols_>>
clientVars == <<generating_thread_, stopRequested, clientPc, starts>>
loopVars   == <<next_time, loopPc, msg, started, rounds, lost>>
queueVars  == <<waiting, accepted>>
vars == <<confVars, clientVars, now, loopVars, queueVars>>

NoMsg == -1

Init ==
  /\ messages_per_sec_ = 0 /\ interval_ = 0 /\ symbols_ = {}
  /\ generating_thread_ = "none" /\ stopRequested = FALSE /\ clientPc = "free"
  /\ now = 0
  /\ next_time = 0 /\ loopPc = "begin" /\ msg = NoMsg
  /\ started = 0 /\ rounds = 0 /\ lost = 0 /\ starts = 0
  /\ waiting = 0 /\ accepted = << >>

-----------------------------------------------------------------------------
(* Faults a change to the code could introduce *)

\* The schedule restarts from the current time after every message.
FromNow(t) == now + interval_

\* The clock is not compared with the schedule.
AlwaysDue == TRUE

\* The queue is not asked whether it has room.
AlwaysRoom == TRUE

\* A full queue ends the retries as a stop does.
StopOrFull == stopRequested \/ waiting = Capacity

\* The message is stamped with the time since the loop began.
SinceStart == now - started

\* The token is not tested while the push is being retried.
NeverSeen == FALSE

-----------------------------------------------------------------------------
(* The client *)

\* set_rate: the division truncates.
interval_for(rate) == Second \div rate

\* The lines that are symbols.
read_symbols_file(file) == {line \in file : line > 0 /\ line < 9}

\* configure(rate, file): set_rate throws for 0 and changes nothing; an unusable
\* file throws after the rate has been set.  main and the tests configure a
\* generator that is not running.
configure(rate, file) ==
  /\ clientPc = "free" /\ generating_thread_ = "none"
  /\ \/ /\ rate < 1
        /\ UNCHANGED <<messages_per_sec_, interval_, symbols_>>
     \/ /\ rate >= 1
        /\ messages_per_sec_' = rate
        /\ interval_' = interval_for(rate)
        /\ symbols_' = read_symbols_file(file)
  /\ UNCHANGED <<clientVars, now, loopVars, queueVars>>

\* start(): throws without a rate, does nothing while there is a thread.
start ==
  /\ clientPc = "free" /\ generating_thread_ = "none"
  /\ messages_per_sec_ # 0
  /\ starts < MaxStarts
  /\ generating_thread_' = "running"
  /\ stopRequested' = FALSE
  /\ starts' = starts + 1
  /\ loopPc' = "begin" /\ rounds' = 0
  /\ UNCHANGED <<confVars, clientPc, now, next_time, msg, started, lost, queueVars>>

\* stop(): request_stop ...
stop_request ==
  /\ clientPc = "free" /\ generating_thread_ # "none"
  /\ stopRequested' = TRUE
  /\ clientPc' = "joining"
  /\ UNCHANGED <<confVars, generating_thread_, starts, now, loopVars, queueVars>>

\* ... and join.
stop_join ==
  /\ clientPc = "joining" /\ generating_thread_ = "ended"
  /\ generating_thread_' = "none"
  /\ clientPc' = "free"
  /\ UNCHANGED <<confVars, stopRequested, starts, now, loopVars, queueVars>>

-----------------------------------------------------------------------------
(* generation_loop *)

\* auto next_time = now()
LoopBegin ==
  /\ generating_thread_ = "running" /\ loopPc = "begin"
  /\ next_time' = now /\ started' = now
  /\ loopPc' = "test"
  /\ UNCHANGED <<confVars, clientVars, now, msg, rounds, lost, queueVars>>

\* while (!stop_tok.stop_requested())
LoopTest ==
  /\ generating_thread_ = "running" /\ loopPc = "test"
  /\ IF stopRequested THEN /\ generating_thread_' = "ended"
                           /\ UNCHANGED loopPc
                      ELSE /\ loopPc' = "clock"
                           /\ UNCHANGED generating_thread_
  /\ UNCHANGED <<confVars, stopRequested, clientPc, starts, now, next_time, msg,
                 started, rounds, lost, queueVars>>

\* if (now >= next_time)
Due == now >= next_time

LoopClock ==
  /\ loopPc = "clock"
  /\ loopPc' = IF Due THEN "generate" ELSE "test"
  /\ UNCHANGED <<confVars, clientVars, now, next_time, msg, started, rounds, lost,
                 queueVars>>

\* enqueue_timestamp
Stamp == now

\* generate_msg_impl() and the enqueue timestamp.
LoopGenerate ==
  /\ loopPc = "generate"
  /\ msg' = Stamp
  /\ rounds' = rounds + 1
  /\ loopPc' = "retry"
  /\ UNCHANGED <<confVars, clientVars, now, next_time, started, lost, queueVars>>

\* next_time += interval_
Schedule(t) == t + interval_

\* The end of a round, with or without the message queued.
RoundDone ==
  /\ loopPc' = "test" /\ msg' = NoMsg
  /\ next_time' = Schedule(next_time)

\* The conditions of while (!stop_tok.stop_requested() && !queue_.push(msg)).
StopSeen == stopRequested
HasRoom  == waiting < Capacity

\* A stop ends the retries and the message in hand is given up.
LoopRetry ==
  /\ loopPc = "retry"
  /\ \/ /\ StopSeen
        /\ RoundDone
        /\ lost' = lost + 1
     \/ /\ ~StopSeen
        /\ loopPc' = "push"
        /\ UNCHANGED <<next_time, msg, lost>>
  /\ UNCHANGED <<confVars, clientVars, now, started, rounds, queueVars>>

\* queue_.push(msg): one that finds the queue full is tried again.
LoopPush ==
  /\ loopPc = "push"
  /\ \/ /\ HasRoom
        /\ RoundDone
        /\ waiting' = waiting + 1
        /\ accepted' = Append(accepted, msg)
     \/ /\ ~HasRoom
        /\ loopPc' = "retry"
        /\ UNCHANGED <<next_time, msg, queueVars>>
  /\ UNCHANGED <<confVars, clientVars, now, started, rounds, lost>>

-----------------------------------------------------------------------------
(* The surroundings *)

\* The disseminator takes a message from the queue.
Consume ==
  /\ waiting > 0
  /\ waiting' = waiting - 1
  /\ UNCHANGED <<confVars, clientVars, now, loopVars, accepted>>

Tick ==
  /\ now < MaxTime
  /\ now' = now + 1
  /\ UNCHANGED <<confVars, clientVars, loopVars, queueVars>>

-----------------------------------------------------------------------------
Client == \/ \E rate \in Rates, file \in Files : configure(rate, file)
          \/ start \/ stop_request \/ stop_join

Loop == LoopBegin \/ LoopTest \/ LoopClock \/ LoopGenerate \/ LoopRetry
        \/ LoopPush

Next == Client \/ Loop \/ Consume \/ Tick

Spec == Init /\ [][Next]_vars

\* The generating thread keeps running, join returns when it has ended, time
\* goes on, and the disseminator keeps taking messages until the generator is
\* asked to stop; from then on it may stall.  Nothing obliges the client to call
\* anything.
FairSpec == /\ Spec
            /\ WF_vars(Loop) /\ WF_vars(stop_join) /\ WF_vars(Tick)
            /\ WF_vars(Consume /\ ~stopRequested)

-----------------------------------------------------------------------------
(* Properties *)

\* The generator's state keeps its types, and the queue its capacity.
TypeOK ==
  /\ messages_per_sec_ \in Nat /\ interval_ \in 0 .. Second
  /\ generating_thread_ \in {"none", "running", "ended"}
  /\ clientPc \in {"free", "joining"} /\ stopRequested \in BOOLEAN
  /\ loopPc \in {"begin", "test", "clock", "generate", "retry", "push"}
  /\ now \in 0 .. MaxTime /\ next_time \in Nat
  /\ waiting \in 0 .. Capacity /\ accepted \in Seq(0 .. MaxTime)
  /\ rounds \in Nat /\ lost \in Nat

\* The generator never runs ahead of its schedule, however long it was held up
\* by a full queue or by the scheduler and however fast it catches up: in any
\* time since its start it has produced at most one message per elapsed
\* interval, and the first.
NeverAheadOfSchedule ==
  generating_thread_ = "running" /\ loopPc # "begin" =>
    (rounds - 1) * interval_ <= now - started

\* A message is given up only because of a stop, and every stopped thread gives
\* up at most the one it holds: a full queue by itself loses nothing.
LostOnlyByStop == lost <= IF stopRequested \/ starts = 0 THEN starts ELSE starts - 1

\* Messages enter the queue in the order of their enqueue timestamps, across
\* restarts too, which is what makes the time in the queue a latency.
TimestampsInOrder ==
  /\ \A i \in 1 .. (Len(accepted) - 1) : accepted[i] <= accepted[i + 1]
  /\ msg # NoMsg /\ accepted # << >> => accepted[Len(accepted)] <= msg

\* The generating loop only runs with symbols to draw from: start() throws on a
\* generator that has not been configured.
GeneratesOnlyConfigured == loopPc = "generate" => symbols_ # {}

\* stop() returns, also when the queue is full and nobody takes from it.
StopReturns == (clientPc = "joining") ~> (generating_thread_ = "none")

\* No slot of the schedule is skipped: when the time of the k-th message has
\* come it is generated, late if need be, unless the generator is stopped.
CatchesUp ==
  \A k \in 1 .. (MaxTime + 1) :
    (generating_thread_ = "running" /\ loopPc # "begin"
       /\ now - started >= (k - 1) * interval_)
      ~> (rounds >= k \/ stopRequested)
=============================================================================
