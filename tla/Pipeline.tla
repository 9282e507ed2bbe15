------------------------------ MODULE Pipeline ------------------------------
(***************************************************************************)
(* main of src/src/main.cpp, with dispatch_size, dispatch_types and        *)
(* run_benchmark_pipeline, and the path of a message through it: generator *)
(* thread, queue, disseminator thread (run_loop of IDisseminator.h and     *)
(* send_impl of the two transports), network, receive thread,              *)
(* LatencyMonitor.  main builds the objects, starts the three threads,     *)
(* stops them, and destroys the objects in reverse order.  A constructor,  *)
(* configure, a subscription or the creation of a thread may throw; then   *)
(* the objects built so far are destroyed and main reports the failure.    *)
(*                                                                         *)
(* The queue is the one SpinSpscQueue and CustomSpscQueue are shown to     *)
(* provide: bounded, in order, a pop that waits for an item or the stop    *)
(* request.  Every symbol is subscribed (UdpFeedHandler and ZmqFeedHandler *)
(* are about that).  A message is its number and its time stamps; quotes   *)
(* and trades take the same path.                                          *)
(* The clock advances between any two steps; a time stamp has the width of *)
(* uint64_t, with Modulus values.                                          *)
(***************************************************************************)
EXTENDS Integers, SequencesExt

CONSTANTS
  QueueCapacity,   \* config.queue_size
  NetCapacity,     \* datagrams the socket buffers, or messages ZMQ, holds
  Modulus,         \* number of values of uint64_t
  MaxMessages,     \* bound: messages the generator makes
  MaxTime          \* bound: the clock stops here

ASSUME CapacitiesAssumption == {QueueCapacity, NetCapacity} \subseteq Nat \ {0}
ASSUME StampAssumption == MaxTime \in Nat /\ Modulus \in Nat /\ MaxTime < Modulus
ASSUME MessagesAssumption == MaxMessages \in Nat

Worker == {"generator", "disseminator", "feedhandler"}
Object == Worker \cup {"queue", "monitor"}

VARIABLES
  phase,       \* of main: "options", "dispatch", "go" along the Plan, "join" in
               \* a stop(), "unwind" the objects, "done" or "abort"
  step,        \* position of main in Plan
  built,       \* the objects alive, in the order they were built
  open,        \* owners of the sockets that are open
  thread,      \* per worker: "none", "running" or "ended"
  stopping,    \* workers whose stop has been requested
  pc,          \* per worker: "test" of the token, "run", or "hold" a message
  now,         \* steady_clock
  made,        \* number of messages generated
  genMsg,      \* message the generator tries to push
  queue,       \* the market data queue
  disMsg,      \* message the disseminator has popped
  net,         \* messages on their way to the feed handler
  recvMsg,     \* message the receive loop has received
  records,     \* what the monitor has recorded, quotes and trades
  saved        \* what the monitor's destructor wrote

mainVars == <<phase, step, built, open, stopping, saved>>
dataVars == <<made, genMsg, queue, disMsg, net, recvMsg, records>>
vars     == <<mainVars, thread, pc, now, dataVars>>

\* Subtraction of two time stamps as uint64_t.
Elapsed(from, to) == (to - from + Modulus) % Modulus

\* A message, as a message variable has it before the first one.
NoMsg == [no |-> 0, enqueue_timestamp |-> 0, disseminate_timestamp |-> 0]

\* What dispatch_types builds before it calls run_benchmark_pipeline.
DispatchSteps == << <<"build", "queue">>, <<"build", "disseminator">>,
                    <<"build", "feedhandler">> >>

\* What run_benchmark_pipeline does.
BenchmarkSteps == << <<"build", "monitor">>, <<"build", "generator">>,
                     <<"configure", "generator">>,
                     <<"start", "feedhandler">>, <<"subscribe", "feedhandler">>,
                     <<"start", "disseminator">>, <<"start", "generator">>,
                     <<"stop", "generator">>, <<"stop", "disseminator">>,
                     <<"stop", "feedhandler">> >>

\* What main does, in this order, once the options are parsed.
Plan == DispatchSteps \o BenchmarkSteps

Init ==
  /\ phase = "options" /\ step = 1 /\ built = << >> /\ open = {}
  /\ thread = [w \in Worker |-> "none"]
  /\ stopping = {}
  /\ pc = [w \in Worker |-> "test"]
  /\ now = 0
  /\ made = 0 /\ genMsg = NoMsg /\ queue = << >> /\ disMsg = NoMsg
  /\ net = << >> /\ recvMsg = NoMsg /\ records = << >>
  /\ saved = << >>

-----------------------------------------------------------------------------
(* Faults a change to the code could introduce *)

\* join does not wait for the thread
JoinNothing(w) == TRUE

\* the destructor leaves its socket open
CloseNothing(o) == {}

\* the token is not tested while there is nothing in the queue
SeenIfQueued(w) == w \in stopping /\ queue # << >>

\* the queue is not asked whether it has room
AnyRoom == TRUE

\* a push that fails is not tried again
TryOnce == TRUE

\* the message is sent before it is stamped
Unstamped(m) == m

\* the receive loop leaves in the buffer what it has read
Peek == net

-----------------------------------------------------------------------------
\* stop_requested()
StopSeen(w) == w \in stopping

\* queue_.push finds a free slot.
HasRoom == Len(queue) < QueueCapacity

\* The retry loop ends without a push.
GivesUp == "generator" \in stopping

\* The time stamp run_loop sets.
Stamped(m) == [m EXCEPT !.disseminate_timestamp = now]

\* What a receive leaves on the network.
AfterReceive == Tail(net)

-----------------------------------------------------------------------------
(* main *)

\* The options are parsed; --help ends the program, and an
\* option that is not known throws outside of main's try block.
ParseOptions ==
  /\ phase = "options"
  /\ phase' \in {"dispatch", "done", "abort"}
  /\ UNCHANGED <<step, built, open, stopping, saved, thread, pc, now, dataVars>>

\* An unsupported size throws before anything is built.
dispatch_size ==
  /\ phase = "dispatch"
  /\ phase' \in {"go", "unwind"}
  /\ UNCHANGED <<step, built, open, stopping, saved, thread, pc, now, dataVars>>

At(what, o) == phase = "go" /\ step <= Len(Plan) /\ Plan[step] = <<what, o>>

\* The socket a constructor opens.
Opens(o) == {o} \cap {"disseminator", "feedhandler"}

\* The constructor of an object.
Build(o) ==
  /\ At("build", o)
  /\ built' = Append(built, o)
  /\ open' = open \cup Opens(o)
  /\ step' = step + 1
  /\ UNCHANGED <<phase, stopping, saved, thread, pc, now, dataVars>>

\* configure, and the subscriptions; what they do is for the modules of the
\* generator and the feed handlers.
Prepare(o) ==
  /\ At("configure", o) \/ At("subscribe", o)
  /\ step' = step + 1
  /\ UNCHANGED <<phase, built, open, stopping, saved, thread, pc, now, dataVars>>

\* start() of a worker.
Start(w) ==
  /\ At("start", w)
  /\ thread' = [thread EXCEPT ![w] = "running"]
  /\ step' = step + 1
  /\ UNCHANGED <<phase, built, open, stopping, saved, pc, now, dataVars>>

\* Anything but a stop may throw.  An object whose constructor throws is not
\* there to be destroyed, and that of UdpFeedHandler may have opened its socket.
Throw ==
  /\ phase = "go" /\ step <= Len(Plan) /\ Plan[step][1] # "stop"
  /\ phase' = "unwind"
  /\ \/ UNCHANGED open
     \/ At("build", "feedhandler") /\ open' = open \cup {"feedhandler"}
  /\ UNCHANGED <<step, built, stopping, saved, thread, pc, now, dataVars>>

\* stop() of a worker: request_stop ...
Stop(w) ==
  /\ At("stop", w)
  /\ stopping' = stopping \cup {w}
  /\ phase' = "join"
  /\ UNCHANGED <<step, built, open, saved, thread, pc, now, dataVars>>

\* join() returns.
Joinable(w) == thread[w] = "ended"

\* ... and join.
Join(w) ==
  /\ phase = "join" /\ Plan[step] = <<"stop", w>>
  /\ Joinable(w)
  /\ thread' = [thread EXCEPT ![w] = "none"]
  /\ phase' = "go" /\ step' = step + 1
  /\ UNCHANGED <<built, open, stopping, saved, pc, now, dataVars>>

\* The end of run_benchmark_pipeline.
Return ==
  /\ phase = "go" /\ step = Len(Plan) + 1
  /\ phase' = "unwind"
  /\ UNCHANGED <<step, built, open, stopping, saved, thread, pc, now, dataVars>>

\* The destructor of the youngest object finds its thread running: stop().
DestroyStop(w) ==
  /\ phase = "unwind" /\ built # << >> /\ Last(built) = w
  /\ thread[w] # "none"
  /\ \/ /\ w \notin stopping
        /\ stopping' = stopping \cup {w}
        /\ UNCHANGED thread
     \/ /\ w \in stopping /\ Joinable(w)
        /\ thread' = [thread EXCEPT ![w] = "none"]
        /\ UNCHANGED stopping
  /\ UNCHANGED <<phase, step, built, open, saved, pc, now, dataVars>>

\* The socket a destructor closes.
Closes(o) == {o}

\* The rest of the destructor; that of the monitor runs save_to_csv.
Destroy(o) ==
  /\ phase = "unwind" /\ built # << >> /\ Last(built) = o
  /\ o \in Worker => thread[o] = "none"
  /\ saved' = IF o = "monitor" THEN records ELSE saved
  /\ built' = Front(built)
  /\ open' = open \ Closes(o)
  /\ UNCHANGED <<phase, step, stopping, thread, pc, now, dataVars>>

\* main returns 0, or 1 from its handler.
Exit ==
  /\ phase = "unwind" /\ built = << >>
  /\ phase' = "done"
  /\ UNCHANGED <<step, built, open, stopping, saved, thread, pc, now, dataVars>>

\* The sleeps before generator.stop() and disseminator.stop() end at any time
\* relative to the work of the threads.
Main ==
  \/ ParseOptions \/ dispatch_size \/ Return \/ Exit
  \/ \E o \in Object : Build(o) \/ Prepare(o) \/ Destroy(o)
  \/ \E w \in Worker : Start(w) \/ Stop(w) \/ Join(w) \/ DestroyStop(w)

-----------------------------------------------------------------------------
(* The three loops *)

\* The test of the stop token at the top of a worker's loop.
LoopTest(w) ==
  /\ thread[w] = "running" /\ pc[w] = "test"
  /\ \/ /\ StopSeen(w)
        /\ thread' = [thread EXCEPT ![w] = "ended"]
        /\ UNCHANGED pc
     \/ /\ ~StopSeen(w)
        /\ pc' = [pc EXCEPT ![w] = "run"]
        /\ UNCHANGED thread
  /\ UNCHANGED <<mainVars, now, dataVars>>

Goto(w, place) == pc' = [pc EXCEPT ![w] = place]

\* A round without a message: it is not time for one, or there is none.
LoopIdle(w) ==
  /\ pc[w] = "run"
  /\ w = "disseminator" => queue = << >>
  /\ w = "feedhandler" => net = << >>
  /\ Goto(w, "test")
  /\ UNCHANGED <<mainVars, thread, now, dataVars>>

\* The generator makes a message and stamps it.
Generate ==
  /\ pc["generator"] = "run" /\ made < MaxMessages
  /\ made' = made + 1
  /\ genMsg' = [NoMsg EXCEPT !.no = made + 1, !.enqueue_timestamp = now]
  /\ Goto("generator", "hold")
  /\ UNCHANGED <<mainVars, thread, now, queue, disMsg, net, recvMsg, records>>

\* queue_.push(msg) succeeds; one that fails is tried again.  An attempt that was
\* under way when the stop was requested may still succeed.
Push ==
  /\ pc["generator"] = "hold"
  /\ HasRoom
  /\ queue' = Append(queue, genMsg)
  /\ Goto("generator", "test")
  /\ UNCHANGED <<mainVars, thread, now, made, genMsg, disMsg, net, recvMsg, records>>

\* The retry loop sees the stop and gives the message up.
GiveUp ==
  /\ pc["generator"] = "hold" /\ GivesUp
  /\ Goto("generator", "test")
  /\ UNCHANGED <<mainVars, thread, now, dataVars>>

\* queue_.pop(msg, stoken) returns true.
Pop ==
  /\ pc["disseminator"] = "run" /\ queue # << >>
  /\ disMsg' = Head(queue)
  /\ queue' = Tail(queue)
  /\ Goto("disseminator", "hold")
  /\ UNCHANGED <<mainVars, thread, now, made, genMsg, net, recvMsg, records>>

\* sendto reports nothing the code looks at and a PUB socket drops at its limit:
\* a message may be lost whether or not there is room for it.
send_impl(m) == \/ /\ Len(net) < NetCapacity
                   /\ net' = Append(net, m)
                \/ UNCHANGED net

\* The rest of the round: time stamp, topic, send_impl.
Send ==
  /\ pc["disseminator"] = "hold"
  /\ send_impl(Stamped(disMsg))
  /\ Goto("disseminator", "test")
  /\ UNCHANGED <<mainVars, thread, now, made, genMsg, queue, disMsg, recvMsg, records>>

\* recvfrom, or recv of both parts, yields a message.
Receive ==
  /\ pc["feedhandler"] = "run" /\ net # << >>
  /\ recvMsg' = Head(net)
  /\ net' = AfterReceive
  /\ Goto("feedhandler", "hold")
  /\ UNCHANGED <<mainVars, thread, now, made, genMsg, queue, disMsg, records>>

\* What on_quote and on_trade compute from the three time stamps.
LatencyRecord(m, receive_timestamp) ==
  [no |-> m.no,
   queue_ns   |-> Elapsed(m.enqueue_timestamp, m.disseminate_timestamp),
   network_ns |-> Elapsed(m.disseminate_timestamp, receive_timestamp),
   total_ns   |-> Elapsed(m.enqueue_timestamp, receive_timestamp)]

\* deliver_to_client stamps the receipt and calls the monitor.
Record ==
  /\ pc["feedhandler"] = "hold"
  /\ records' = Append(records, LatencyRecord(recvMsg, now))
  /\ Goto("feedhandler", "test")
  /\ UNCHANGED <<mainVars, thread, now, made, genMsg, queue, disMsg, net, recvMsg>>

-----------------------------------------------------------------------------
Tick == /\ now < MaxTime
        /\ now' = now + 1
        /\ UNCHANGED <<mainVars, thread, pc, dataVars>>

GeneratorStep == \/ LoopTest("generator") \/ LoopIdle("generator")
                 \/ Generate \/ Push \/ GiveUp

DisseminatorStep == LoopTest("disseminator") \/ LoopIdle("disseminator") \/ Pop \/ Send

FeedHandlerStep == LoopTest("feedhandler") \/ LoopIdle("feedhandler") \/ Receive \/ Record

Next == Main \/ Throw \/ GeneratorStep \/ DisseminatorStep \/ FeedHandlerStep \/ Tick

\* Every thread that can go on does, and the sleeps of main end.  Nothing has to
\* throw.
Spec == /\ Init /\ [][Next]_vars
        /\ WF_vars(Main)
        /\ WF_vars(GeneratorStep)
        /\ WF_vars(DisseminatorStep)
        /\ WF_vars(FeedHandlerStep)

-----------------------------------------------------------------------------
(* Properties *)

\* The threads are in one of their states, and the queue and the network buffer
\* keep their capacity.
TypeOK ==
  /\ \A w \in Worker : /\ thread[w] \in {"none", "running", "ended"}
                       /\ pc[w] \in {"test", "run", "hold"}
  /\ stopping \subseteq Worker /\ open \subseteq Worker
  /\ phase \in {"options", "dispatch", "go", "join", "unwind", "done", "abort"}
  /\ step \in 1 .. Len(Plan) + 1
  /\ ToSet(built) \subseteq Object
  /\ now \in 0 .. MaxTime /\ made \in 0 .. MaxMessages
  /\ Len(queue) <= QueueCapacity /\ Len(net) <= NetCapacity

\* The three latencies of a record are true durations: none has wrapped below
\* zero, and the time in the queue and on the network add up to the total.
LatenciesAreTrue ==
  \A i \in 1 .. Len(records) :
    /\ records[i].total_ns <= now
    /\ records[i].queue_ns + records[i].network_ns = records[i].total_ns

\* Numbers of the messages that are inside the process and not sent yet.
Inside == {queue[i].no : i \in 1 .. Len(queue)}
          \cup (IF pc["generator"] = "hold" THEN {genMsg.no} ELSE {})
          \cup (IF pc["disseminator"] = "hold" THEN {disMsg.no} ELSE {})

\* A message is lost on the network or not at all, until the generator is asked
\* to stop: the messages not sent yet are the youngest ones, without a gap.
NothingLostInside ==
  "generator" \notin stopping => \A n \in Inside : n .. made \subseteq Inside

\* A thread never uses an object that is being or has been destroyed, whichever
\* step of main throws: the callbacks refer to the monitor, which goes before the
\* feed handler; ~RandomWalkGenerator destroys the members its loop uses before
\* its base class stops the loop.  That no message is on its way to the monitor
\* when a step throws is due to the generator being started last; a message of
\* another sender on the multicast group is outside of the model.
UsesAreAlive ==
  /\ thread["generator"] = "running" =>
       /\ {"queue", "generator"} \subseteq ToSet(built)
       /\ ~(phase = "unwind" /\ Last(built) = "generator")
  /\ thread["disseminator"] = "running" =>
       {"queue", "disseminator"} \subseteq ToSet(built)
  /\ thread["feedhandler"] = "running" => "feedhandler" \in ToSet(built)
  /\ pc["feedhandler"] = "hold" => "monitor" \in ToSet(built)

\* When main is done, on whichever way, no thread is left, all that was recorded
\* has been saved, and the sockets are closed; only a constructor of the feed
\* handler that throws leaves its own socket open.
EndsClean ==
  phase = "done" =>
    /\ \A w \in Worker : thread[w] = "none"
    /\ saved = records
    /\ open # {} => open = {"feedhandler"} /\ Plan[step] = <<"build", "feedhandler">>

\* From generator to monitor, the pipeline is a channel that loses messages and
\* does nothing else to them.
Channel == INSTANCE LossyChannel WITH
  sent     <- made,
  received <- [i \in 1 .. Len(records) |-> records[i].no]
ImplementsChannel == Channel!ChannelSpec

\* The benchmark ends, also when a step of main throws.
Terminates == <>(phase \in {"done", "abort"})
=============================================================================
