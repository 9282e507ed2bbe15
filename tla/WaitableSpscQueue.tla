------------------------- MODULE WaitableSpscQueue --------------------------
(***************************************************************************)
(* The sleep and wake-up protocol of src/src/utils/WaitableSpscQueue.h,    *)
(* with the three threads that take part in it:                            *)
(*   producer   calls push (the generator);                                *)
(*   consumer   calls pop until it returns false (IDisseminator::run_loop);*)
(*   stopper    calls IDisseminator::stop: request_stop, then join.        *)
(*                                                                         *)
(* The underlying queue is the one CustomSpscQueue is shown to implement,  *)
(* reduced to its two counters: queue_.push is a load of read_ and a store *)
(* of write_, queue_.pop a load of write_ and a store of read_.            *)
(*                                                                         *)
(* Memory model: x86-TSO, the machine the project is built and measured    *)
(* on.  A store waits in the storing thread's buffer, in order, until it   *)
(* drains to memory; a load takes the thread's own youngest waiting store  *)
(* or else memory.  relaxed and release stores are plain stores there; the *)
(* seq_cst store and the futex operations behind notify drain the buffer.  *)
(* BufferSize bounds the stores that wait in a buffer while the thread     *)
(* goes on; with 0 every store is in memory before the thread's next step, *)
(* which is sequential consistency.                                        *)
(***************************************************************************)
EXTENDS Integers, Sequences

CONSTANTS
  Capacity,     \* capacity of the underlying queue
  BufferSize,   \* stores that may wait while their thread goes on
  MaxPushes     \* bound: number of pushes that succeed

ASSUME CapacityAssumption == Capacity \in Nat \ {0}
ASSUME BufferAssumption == BufferSize \in Nat
ASSUME BoundAssumption == MaxPushes \in Nat

Thread == {"producer", "consumer", "stopper"}

VARIABLES
  mem,            \* memory: the counters write_ and read_, and is_sleeping_
  buf,            \* per thread, the stores waiting to reach memory
  pushPc,         \* place of the producer in push
  popPc,          \* place of the consumer in pop
  popRet,         \* the value pop is about to return
  registered,     \* pop's stop_callback is in the stop state's list
  stopRequested,  \* the stop state's flag
  stopPc          \* place of the stopper in stop

vars == <<mem, buf, pushPc, popPc, popRet, registered, stopRequested, stopPc>>
stopVars == <<registered, stopRequested, stopPc>>

-----------------------------------------------------------------------------
(* Loads and stores *)

\* A thread takes its next step only with at most BufferSize stores waiting.
Ready(t) == Len(buf[t]) <= BufferSize

Drained(t) == buf[t] = << >>

Waiting(t, loc) == {i \in 1 .. Len(buf[t]) : buf[t][i].loc = loc}

Load(t, loc) ==
  IF Waiting(t, loc) = {} THEN mem[loc]
  ELSE buf[t][CHOOSE i \in Waiting(t, loc) :
                \A j \in Waiting(t, loc) : j <= i].val

Store(t, location, value) ==
  buf' = [buf EXCEPT ![t] = Append(@, [loc |-> location, val |-> value])]

\* The oldest waiting store of a thread reaches memory.
Drain(t) ==
  /\ buf[t] # << >>
  /\ mem' = [mem EXCEPT ![Head(buf[t]).loc] = Head(buf[t]).val]
  /\ buf' = [buf EXCEPT ![t] = Tail(@)]
  /\ UNCHANGED <<pushPc, popPc, popRet, stopVars>>

\* notify_one and notify_all: there is only one thread that ever waits.  A
\* notified wait looks at the value again.
Wake == popPc' = IF popPc = "blocked" THEN "wait" ELSE popPc

-----------------------------------------------------------------------------
Init ==
  /\ mem = [write_ |-> 0, read_ |-> 0, is_sleeping_ |-> FALSE]
  /\ buf = [t \in Thread |-> << >>]
  /\ pushPc = "idle"
  /\ popPc = "outside"
  /\ popRet = TRUE
  /\ registered = FALSE
  /\ stopRequested = FALSE
  /\ stopPc = "idle"

-----------------------------------------------------------------------------
(* Faults a change to the header could introduce, for testing the properties *)

\* The second thread's counter is not looked at.
LooksFilled == FALSE

\* push takes the queue for full one item late.
FullOneLate(w, r) == w - r = Capacity + 1

\* The waker clears the flag and does not notify.
ClearOnly ==
  /\ pushPc = "clear" /\ Ready("producer")
  /\ Store("producer", "is_sleeping_", FALSE)
  /\ pushPc' = "idle"
  /\ UNCHANGED <<mem, popPc, popRet, stopVars>>

\* The flag is not looked at after a push.
PushUnchecked ==
  /\ pushPc = "check" /\ Ready("producer")
  /\ pushPc' = "idle"
  /\ UNCHANGED <<mem, buf, popPc, popRet, stopVars>>

\* The second attempt before going to sleep is left out.
SleepAtOnce ==
  /\ popPc = "sleep" /\ Drained("consumer")
  /\ mem' = [mem EXCEPT !.is_sleeping_ = TRUE]
  /\ popPc' = "wait"
  /\ UNCHANGED <<buf, pushPc, popRet, stopVars>>

\* The callback sets the flag back and does not notify.
CallbackSilent ==
  /\ stopPc = "notify" /\ Drained("stopper")
  /\ stopPc' = "join"
  /\ UNCHANGED <<mem, buf, pushPc, popPc, popRet, registered, stopRequested>>

-----------------------------------------------------------------------------
(* push *)

\* w - r == RealCapacity in CustomSpscQueue::push
Full(w, r) == w - r = Capacity

\* queue_.push(item) succeeds.  A push that finds the queue
\* full returns false without looking at the flag and changes nothing.
PushStore ==
  LET w == Load("producer", "write_")
  IN  /\ pushPc = "idle" /\ Ready("producer")
      /\ w < MaxPushes
      /\ ~Full(w, Load("producer", "read_"))
      /\ Store("producer", "write_", w + 1)
      /\ pushPc' = "check"
      /\ UNCHANGED <<mem, popPc, popRet, stopVars>>

\* if (is_sleeping_.load(relaxed))
PushCheck ==
  /\ pushPc = "check" /\ Ready("producer")
  /\ pushPc' = IF Load("producer", "is_sleeping_") THEN "clear" ELSE "idle"
  /\ UNCHANGED <<mem, buf, popPc, popRet, stopVars>>

\* is_sleeping_.store(false, release)
PushClear ==
  /\ pushPc = "clear" /\ Ready("producer")
  /\ Store("producer", "is_sleeping_", FALSE)
  /\ pushPc' = "notify"
  /\ UNCHANGED <<mem, popPc, popRet, stopVars>>

\* is_sleeping_.notify_one()
PushNotify ==
  /\ pushPc = "notify" /\ Drained("producer")
  /\ pushPc' = "idle"
  /\ Wake
  /\ UNCHANGED <<mem, buf, popRet, stopVars>>

-----------------------------------------------------------------------------
(* pop *)

\* The call, and the constructor of the stop_callback: it enters the callback
\* in the list, under the stop state's lock, or runs it at once when the stop
\* has been requested (the notify_all of that run has no thread to wake).
PopCall ==
  /\ popPc = "outside" /\ Ready("consumer")
  /\ popPc' = "test"
  /\ \/ /\ stopRequested
        /\ Store("consumer", "is_sleeping_", FALSE)
        /\ UNCHANGED registered
     \/ /\ ~stopRequested /\ Drained("consumer")
        /\ registered' = TRUE
        /\ UNCHANGED buf
  /\ UNCHANGED <<mem, pushPc, popRet, stopRequested, stopPc>>

\* while (!stoken.stop_requested())
PopTest ==
  /\ popPc = "test" /\ Ready("consumer")
  /\ popPc' = IF stopRequested THEN "return" ELSE "first"
  /\ popRet' = ~stopRequested
  /\ UNCHANGED <<mem, buf, pushPc, stopVars>>

QueueEmpty == Load("consumer", "read_") = Load("consumer", "write_")

TakeItem == Store("consumer", "read_", Load("consumer", "read_") + 1)

\* The first queue_.pop(item).
PopFirst ==
  /\ popPc = "first" /\ Ready("consumer")
  /\ \/ /\ QueueEmpty
        /\ popPc' = "sleep"
        /\ UNCHANGED buf
     \/ /\ ~QueueEmpty
        /\ TakeItem
        /\ popPc' = "return"
  /\ UNCHANGED <<mem, pushPc, popRet, stopVars>>

\* is_sleeping_.store(true, seq_cst)
PopSleep ==
  /\ popPc = "sleep" /\ Drained("consumer")
  /\ mem' = [mem EXCEPT !.is_sleeping_ = TRUE]
  /\ popPc' = "second"
  /\ UNCHANGED <<buf, pushPc, popRet, stopVars>>

\* The second queue_.pop(item).
PopSecond ==
  /\ popPc = "second" /\ Ready("consumer")
  /\ \/ /\ QueueEmpty
        /\ popPc' = "wait"
        /\ UNCHANGED buf
     \/ /\ ~QueueEmpty
        /\ TakeItem
        /\ popPc' = "awake"
  /\ UNCHANGED <<mem, pushPc, popRet, stopVars>>

\* is_sleeping_.store(false, relaxed), after the second attempt succeeded
PopAwake ==
  /\ popPc = "awake" /\ Ready("consumer")
  /\ Store("consumer", "is_sleeping_", FALSE)
  /\ popPc' = "return"
  /\ UNCHANGED <<mem, pushPc, popRet, stopVars>>

\* is_sleeping_.wait(true, acquire): compares and blocks in one step, as the
\* futex does; a blocked wait only goes on after a notification.
PopWait ==
  /\ popPc = "wait" /\ Ready("consumer")
  /\ popPc' = IF Load("consumer", "is_sleeping_") THEN "blocked" ELSE "test"
  /\ UNCHANGED <<mem, buf, pushPc, popRet, stopVars>>

\* The destructor of the stop_callback, which takes the lock and waits for a
\* run of the callback on the stopper's thread, and the return from pop.
PopReturn ==
  /\ popPc = "return" /\ Ready("consumer")
  /\ registered => Drained("consumer")
  /\ ~(registered /\ stopPc \in {"callback", "notify"})
  /\ registered' = FALSE
  /\ popPc' = IF popRet THEN "outside" ELSE "ended"
  /\ UNCHANGED <<mem, buf, pushPc, popRet, stopRequested, stopPc>>

-----------------------------------------------------------------------------
(* stop *)

\* worker_.request_stop(): sets the flag and takes the callback to run.
StopRequest ==
  /\ stopPc = "idle"
  /\ stopRequested' = TRUE
  /\ stopPc' = IF registered THEN "callback" ELSE "join"
  /\ UNCHANGED <<mem, buf, pushPc, popPc, popRet, registered>>

\* The callback: is_sleeping_.store(false, release)
StopCallback ==
  /\ stopPc = "callback" /\ Ready("stopper")
  /\ Store("stopper", "is_sleeping_", FALSE)
  /\ stopPc' = "notify"
  /\ UNCHANGED <<mem, pushPc, popPc, popRet, registered, stopRequested>>

\* The callback: is_sleeping_.notify_all()
StopNotify ==
  /\ stopPc = "notify" /\ Drained("stopper")
  /\ stopPc' = "join"
  /\ Wake
  /\ UNCHANGED <<mem, buf, pushPc, popRet, registered, stopRequested>>

\* worker_.join()
StopJoin ==
  /\ stopPc = "join" /\ popPc = "ended"
  /\ stopPc' = "joined"
  /\ UNCHANGED <<mem, buf, pushPc, popPc, popRet, registered, stopRequested>>

-----------------------------------------------------------------------------
PushRest == PushCheck \/ PushClear \/ PushNotify

Consumer == \/ PopCall \/ PopTest \/ PopFirst \/ PopSleep \/ PopSecond
            \/ PopAwake \/ PopWait \/ PopReturn

StopRest == StopCallback \/ StopNotify \/ StopJoin

Next == \/ PushStore \/ PushRest
        \/ Consumer
        \/ StopRequest \/ StopRest
        \/ \E t \in Thread : Drain(t)

Spec == Init /\ [][Next]_vars

\* Threads that can go on do, and every store reaches memory.  Nothing obliges
\* the producer to push again or the owner to call stop.
FairSpec == /\ Spec
            /\ WF_vars(PushRest)
            /\ WF_vars(Consumer)
            /\ WF_vars(StopRest)
            /\ \A t \in Thread : WF_vars(Drain(t))

-----------------------------------------------------------------------------
(* Properties *)

\* The state keeps its types, and no buffer holds more than BufferSize stores and
\* the one just made.
TypeOK ==
  /\ mem.write_ \in 0 .. MaxPushes
  /\ mem.read_ \in 0 .. MaxPushes
  /\ mem.is_sleeping_ \in BOOLEAN
  /\ \A t \in Thread : Len(buf[t]) <= BufferSize + 1
  /\ pushPc \in {"idle", "check", "clear", "notify"}
  /\ popPc \in {"outside", "test", "first", "sleep", "second", "awake", "wait",
                "blocked", "return", "ended"}
  /\ popRet \in BOOLEAN /\ registered \in BOOLEAN /\ stopRequested \in BOOLEAN
  /\ stopPc \in {"idle", "callback", "notify", "join", "joined"}

\* A consumer never stays blocked on a flag that has been cleared: whoever
\* cleared it, push or the stop callback, has its notification still to come.
NoMissedNotify ==
  popPc = "blocked" /\ ~mem.is_sleeping_ =>
    pushPc = "notify" \/ stopPc = "notify"

\* The producer never finds the queue full while the consumer sleeps with no
\* wake-up on its way.  A failed push does not notify, so the retry loop of
\* BaseGenerator::loop would then spin for ever.  Only up to BufferSize pushes
\* can miss the flag, so this needs BufferSize < Capacity.
NoFullStall ==
  /\ popPc = "blocked"
  /\ Load("producer", "write_") - Load("producer", "read_") = Capacity
  => pushPc # "idle" \/ stopPc \in {"callback", "notify"}

\* A consumer that is asleep when request_stop runs the callback leaves pop.
StopWakesSleeper ==
  (stopPc = "callback" /\ popPc = "blocked") ~> (popPc = "ended")

\* A push whose store has reached memory before it looks at the flag gets its
\* item, and every older one that was missed, to the consumer without the help of
\* a later push: the second attempt of
\* pop and the flag together leave no gap for it.  (With no store buffers every
\* push is of this kind.)
VisiblePushWakes ==
  \A k \in 1 .. MaxPushes :
    (pushPc = "check" /\ mem.write_ >= k) ~> (mem.read_ >= k \/ stopRequested)

\* What memory shows of the queue is a bounded queue in the sense of SpscFifo:
\* the store buffers of the two sides never let write_ run more than Capacity
\* ahead of read_, nor read_ pass write_.  Items are represented by their numbers.
Fifo == INSTANCE SpscFifo WITH Item <- 1 .. MaxPushes,
                               pushed <- [i \in 1 .. mem.write_ |-> i],
                               delivered <- [i \in 1 .. mem.read_ |-> i]
ImplementsFifo == Fifo!FifoSpec

\* Every push that succeeds reaches the consumer, without the help of a later
\* push: "This should trigger `notify_one()` and wake the consumer."
PushWakesConsumer ==
  \A k \in 1 .. MaxPushes :
    (mem.write_ >= k) ~> (mem.read_ >= k \/ stopRequested)

\* A stop request makes pop return false, so that stop() can join: "Pop should
\* have safely returned false when woken by stop request."
StopReturns == stopRequested ~> (popPc = "ended")
=============================================================================
