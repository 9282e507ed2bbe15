--------------------------- MODULE ZmqFeedHandler ---------------------------
(***************************************************************************)
(* src/src/feedhandler/ZmqFeedHandler.h over its base IFeedHandler, fed by *)
(* send_impl of src/src/disseminator/ZmqDisseminator.h: the client thread, *)
(* the receive loop, and between them and the publisher the SUB and PUB    *)
(* sockets of libzmq, modelled from how the two classes use them.          *)
(*                                                                         *)
(* libzmq.  A subscription is a prefix of the topic; the SUB socket counts *)
(* the subscriptions to each prefix, tells the publisher of every new one  *)
(* and of the end of the last, and applies them itself when it hands out a *)
(* message.  The publisher filters by what has reached it and drops what   *)
(* finds the pipe at its high-water mark.  The parts of a message travel   *)
(* together.  A socket may be used by one thread at a time: a call made    *)
(* while the receive thread runs is a race; the option takes effect or is  *)
(* lost.                                                                   *)
(***************************************************************************)
EXTENDS IFeedHandler, SymbolCodec, Subscriptions, SequencesExt

CONSTANTS
  Name,          \* the symbol names clients and generator use
  Kind,          \* messages: <<type, payload size>>, "none" without second part
  Hwm,           \* messages the pipe between the sockets holds
  MaxCalls,      \* bound: calls of subscribe and unsubscribe
  MaxMessages    \* bound: messages published

ASSUME HwmAssumption == Hwm \in Nat \ {0}
ASSUME CallsAssumption == {MaxCalls, MaxMessages} \subseteq Nat

VARIABLES
  count,         \* per topic, the SUB socket's count of subscriptions
  control,       \* subscription messages on their way to the publisher
  pubFilter,     \* topics the publisher forwards
  pipe,          \* messages on their way, each a sequence of parts
  rest,          \* parts not received yet of the message being received
  terminated,    \* the context of the socket has been shut down
  loopPc, topic_msg, payload_msg,   \* place and locals of the loop
  symbol,        \* the argument of the client's call under way
  asked,         \* per name, subscribe calls minus unsubscribe calls
  raced,         \* the client has used the socket of a running loop
  wanted,        \* names asked for and not withdrawn by a call that counts
  delivered,     \* <<name, type, payload>> of each callback called
  calls, taken   \* number of client calls, and of messages out of the pipe

subVars    == <<count, control, raced>>
loopVars   == <<loopPc, topic_msg, payload_msg, rest, taken, delivered>>
clientVars == <<symbol, asked, wanted, calls>>
vars == <<baseVars, subVars, pubFilter, pipe, loopVars, clientVars, terminated>>

Topic == {"Q", "T"} \X Name

\* Number of messages that got into the pipe.
piped == taken + Len(pipe)

\* A part of a message, and the messages send_impl makes of a topic_buf and a
\* payload: two parts, sent with sndmore and without.
Part(n, type, payload) == [no |-> piped + 1, name |-> n, type |-> type, payload |-> payload]
Message(n, k) == IF k[2] = "none" THEN <<Part(n, k[1], "none")>>
                 ELSE <<Part(n, k[1], "none"), Part(n, "none", k[2])>>

NoPart == [no |-> 0, name |-> << >>, type |-> "none", payload |-> "none"]

\* The topic of a subscription is a prefix of the 10 bytes of topic_buf.
Matches(t, p) == t[1] = p.type /\ IsPrefix(t[2], symbol_field(p.name))

-----------------------------------------------------------------------------
(* Faults a change to the code could introduce *)

\* both topics get the same letter
SameTopic(n) == <<"Q", n>>

\* the PUB socket has no limit
NoMark == TRUE

\* unsubscribe_impl subscribes with its second call
AlwaysAdds == TRUE

\* the second part is not asked for
MoreOrNot == TRUE

\* recv waits without a limit
Forever == FALSE

-----------------------------------------------------------------------------
q_topic(n) == <<"Q", n>>
t_topic(n) == <<"T", n>>

\* The second call of subscribe_impl subscribes, that of unsubscribe_impl does not.
SecondAdds == clientPc = "subscribe"

\* get(rcvmore)
RcvMore == rest # << >>

\* The pipe is below its high-water mark.
BelowMark == Len(pipe) < Hwm

\* rcvtimeo is set, so a recv that finds nothing returns.
RcvTimeo == TRUE

\* The client sets its callbacks before anything else, as main and the tests do.
Init ==
  /\ receiver_thread_ = "none" /\ stopRequested = FALSE
  /\ clientPc = "free" /\ callbacks = {"Q", "T"} /\ starts = 0
  /\ count = [t \in Topic |-> 0] /\ control = << >> /\ pubFilter = {}
  /\ pipe = << >> /\ rest = << >> /\ terminated = FALSE
  /\ loopPc = "test" /\ topic_msg = NoPart /\ payload_msg = NoPart
  /\ symbol = << >> /\ asked = [n \in Name |-> 0] /\ wanted = {}
  /\ raced = FALSE
  /\ delivered = << >>
  /\ calls = 0 /\ taken = 0

-----------------------------------------------------------------------------
(* The client *)

Start == start /\ loopPc' = "test"
         /\ UNCHANGED <<subVars, pubFilter, pipe, topic_msg, payload_msg, rest,
                        taken, delivered, clientVars, terminated>>

\* How the destructor ends: on a socket whose context is gone, set(linger) throws
\* out of the destructor, which aborts the process.
Destroyed == IF terminated THEN "aborted" ELSE "gone"

\* stop() and the destructor.
BaseCall ==
  /\ stop_request \/ stop_join(Destroyed) \/ DestroyIdle(Destroyed)
  /\ UNCHANGED <<subVars, pubFilter, pipe, loopVars, clientVars, terminated>>

\* The SUB socket takes a subscription, or gives one up: the publisher hears of
\* the last one only.
Option(add, t) ==
  \/ /\ add
     /\ count' = [count EXCEPT ![t] = @ + 1]
     /\ control' = Append(control, [is_subscribe |-> TRUE, symbol_id |-> t])
  \/ /\ ~add /\ count[t] > 0
     /\ count' = [count EXCEPT ![t] = @ - 1]
     /\ control' = IF count[t] = 1 THEN Append(control, [is_subscribe |-> FALSE, symbol_id |-> t])
                   ELSE control
  \/ /\ ~add /\ count[t] = 0
     /\ UNCHANGED <<count, control>>

\* multicast_sub_.set(subscribe or unsubscribe, topic)
SetOption(add, t) ==
  /\ ~terminated
  /\ \/ Option(add, t)
     \/ receiver_thread_ = "running" /\ UNCHANGED <<count, control>>
  /\ raced' = (raced \/ receiver_thread_ = "running")
  /\ UNCHANGED <<receiver_thread_, stopRequested, callbacks, starts, pubFilter,
                 pipe, loopVars, terminated>>

\* The client is free to call, up to the bound MaxCalls, on a running loop too.
MayCall == clientPc = "free" /\ calls < MaxCalls

\* The first of the two options of subscribe_impl and unsubscribe_impl ...
subscribe(n) ==
  /\ MayCall
  /\ SetOption(TRUE, q_topic(n))
  /\ clientPc' = "subscribe" /\ symbol' = n /\ calls' = calls + 1
  /\ asked' = [asked EXCEPT ![n] = @ + 1]
  /\ wanted' = wanted \cup {n}

\* The last withdrawal counts, unless a call has raced with the loop: the counts
\* of the socket may then be off.
unsubscribe(n) ==
  /\ MayCall
  /\ SetOption(FALSE, q_topic(n))
  /\ clientPc' = "unsubscribe" /\ symbol' = n /\ calls' = calls + 1
  /\ asked' = [asked EXCEPT ![n] = IF @ > 0 THEN @ - 1 ELSE 0]
  /\ wanted' = IF raced' \/ asked[n] > 1 THEN wanted ELSE wanted \ {n}

\* ... and the second.
SecondOption ==
  /\ clientPc \in {"subscribe", "unsubscribe"}
  /\ SetOption(SecondAdds, t_topic(symbol))
  /\ clientPc' = "free" /\ symbol' = << >>
  /\ UNCHANGED <<asked, wanted, calls>>

\* On a socket whose context is gone, set throws zmq::error_t with ETERM out of
\* subscribe or unsubscribe, from the first option or from the second.
SetThrows ==
  /\ terminated
  /\ \/ MayCall /\ calls' = calls + 1
     \/ clientPc \in {"subscribe", "unsubscribe"} /\ UNCHANGED calls
  /\ clientPc' = "free" /\ symbol' = << >>
  /\ raced' = (raced \/ receiver_thread_ = "running")
  /\ UNCHANGED <<receiver_thread_, stopRequested, callbacks, starts, count, control,
                 asked, wanted, pubFilter, pipe, loopVars, terminated>>

-----------------------------------------------------------------------------
(* The publisher and the sockets, outside the program but for send_impl *)

\* The sockets are connected; without a peer, a PUB socket drops everything.
Connected == ~terminated /\ clientPc # "gone"

\* A subscription message reaches the publisher.
ApplyControl(filter, cmd) == IF cmd.is_subscribe THEN filter \cup {cmd.symbol_id}
                             ELSE filter \ {cmd.symbol_id}

ControlArrives ==
  /\ Connected /\ control # << >>
  /\ pubFilter' = ApplyControl(pubFilter, Head(control))
  /\ control' = Tail(control)
  /\ UNCHANGED <<baseVars, count, raced, pipe, loopVars, clientVars, terminated>>

\* send_impl: the PUB socket decides on the topic and keeps the parts together.
\* A message nobody is known to want, or that finds the pipe full, is dropped and
\* changes nothing.
send_impl(n, k) ==
  /\ Connected /\ piped < MaxMessages
  /\ \E t \in pubFilter : Matches(t, Message(n, k)[1])
  /\ BelowMark
  /\ pipe' = Append(pipe, Message(n, k))
  /\ UNCHANGED <<baseVars, subVars, pubFilter, loopVars, clientVars, terminated>>

\* The owner of a socket that was passed to the constructor shuts its context
\* down; every call on the socket then fails with ETERM.
Terminate ==
  /\ ~terminated /\ receiver_thread_ = "running"
  /\ terminated' = TRUE
  /\ UNCHANGED <<baseVars, subVars, pubFilter, pipe, loopVars, clientVars>>

-----------------------------------------------------------------------------
(* receive_loop_impl *)

InSocket == loopPc \in {"topic", "more", "payload"}

unseen == <<subVars, pubFilter, clientVars, terminated>>

\* while (!st.stop_requested())
LoopTest ==
  /\ receiver_thread_ = "running" /\ loopPc = "test"
  /\ \/ stopRequested /\ EndThread /\ UNCHANGED loopPc
     \/ ~stopRequested /\ loopPc' = "topic" /\ UNCHANGED baseVars
  /\ UNCHANGED <<unseen, pipe, topic_msg, payload_msg, rest, taken, delivered>>

\* What recv hands out: the next part of the message begun, or the first of a
\* message that passes the subscriptions of the socket.
NextPart == IF rest # << >> THEN Head(rest) ELSE Head(Head(pipe))
Passes(m) == \E t \in Topic : count[t] > 0 /\ Matches(t, m[1])

Recv ==
  /\ ~terminated
  /\ \/ /\ rest # << >>
        /\ rest' = Tail(rest)
        /\ UNCHANGED <<pipe, taken>>
     \/ /\ rest = << >> /\ pipe # << >> /\ Passes(Head(pipe))
        /\ rest' = Tail(Head(pipe))
        /\ pipe' = Tail(pipe) /\ taken' = taken + 1

\* recv discards a message that does not pass, and waits on.
RecvSkips ==
  /\ loopPc \in {"topic", "payload"} /\ ~terminated
  /\ rest = << >> /\ pipe # << >> /\ ~Passes(Head(pipe))
  /\ pipe' = Tail(pipe) /\ taken' = taken + 1
  /\ UNCHANGED <<baseVars, unseen, loopPc, topic_msg, payload_msg, rest, delivered>>

\* recv finds nothing until rcvtimeo has passed, or fails for another reason that
\* is logged: the next round.
RecvNothing ==
  /\ loopPc \in {"topic", "payload"} /\ ~terminated
  /\ RcvTimeo /\ rest = << >> /\ pipe = << >>
  /\ loopPc' = "test" /\ topic_msg' = NoPart
  /\ UNCHANGED <<baseVars, unseen, pipe, payload_msg, rest, taken, delivered>>

\* recv(topic_msg)
LoopTopic ==
  /\ loopPc = "topic" /\ Recv
  /\ topic_msg' = NextPart
  /\ loopPc' = "more"
  /\ UNCHANGED <<baseVars, unseen, payload_msg, delivered>>

\* A message of one part is discarded.
LoopMore ==
  /\ loopPc = "more" /\ ~terminated
  /\ loopPc' = IF RcvMore THEN "payload" ELSE "test"
  /\ topic_msg' = IF loopPc' = "test" THEN NoPart ELSE topic_msg
  /\ UNCHANGED <<baseVars, unseen, pipe, payload_msg, rest, taken, delivered>>

\* recv(payload_msg), and the checks of type and size.
LoopPayload ==
  /\ loopPc = "payload" /\ Recv
  /\ IF <<topic_msg.type, NextPart.payload>> \in {<<"Q", "Quote">>, <<"T", "Trade">>}
       THEN loopPc' = "deliver" /\ payload_msg' = NextPart /\ UNCHANGED topic_msg
       ELSE loopPc' = "test" /\ topic_msg' = NoPart /\ UNCHANGED payload_msg
  /\ UNCHANGED <<baseVars, unseen, delivered>>

\* deliver_to_client
LoopDeliver ==
  /\ loopPc = "deliver"
  /\ delivered' = IF topic_msg.type \in callbacks
                    THEN Append(delivered, <<topic_msg.name, topic_msg.type, payload_msg.payload>>)
                    ELSE delivered
  /\ loopPc' = "test" /\ topic_msg' = NoPart /\ payload_msg' = NoPart
  /\ UNCHANGED <<baseVars, unseen, pipe, rest, taken>>

\* zmq::error_t with ETERM ends the loop.
LoopTerm ==
  /\ InSocket /\ terminated
  /\ EndThread
  /\ loopPc' = "test" /\ topic_msg' = NoPart
  /\ UNCHANGED <<unseen, pipe, payload_msg, rest, taken, delivered>>

-----------------------------------------------------------------------------
Client == \/ Start \/ BaseCall \/ SecondOption \/ SetThrows
          \/ \E n \in Name : subscribe(n) \/ unsubscribe(n)

Loop == \/ LoopTest \/ RecvSkips \/ RecvNothing \/ LoopTopic \/ LoopMore
        \/ LoopPayload \/ LoopDeliver \/ LoopTerm

Next == \/ Client \/ Loop \/ ControlArrives \/ Terminate
        \/ \E n \in Name, k \in Kind : send_impl(n, k)

\* The receive thread keeps running, a recv returns at its time-out at the
\* latest, and join returns when the thread has ended.
Spec == /\ Init /\ [][Next]_vars
        /\ WF_vars(Loop)
        /\ WF_vars(BaseCall /\ stop_join(Destroyed))

-----------------------------------------------------------------------------
(* Properties *)

\* The handler's state keeps its types, and the pipe its high-water mark.
TypeOK ==
  /\ BaseTypeOK
  /\ clientPc \in {"free", "joining", "dying", "gone", "aborted"}
                 \cup {"subscribe", "unsubscribe"}
  /\ count \in [Topic -> Nat] /\ asked \in [Name -> Nat] /\ wanted \subseteq Name
  /\ pubFilter \subseteq Topic
  /\ Len(pipe) <= Hwm /\ Len(rest) <= 1
  /\ loopPc \in {"test", "topic", "more", "payload", "deliver"}
  /\ piped <= MaxMessages

\* A round begins with the first part of a message and takes for its payload the
\* second part of the same message: a message of one part does not leave the loop
\* out of step, reading topics as payloads, from then on.
PartsPaired ==
  ~terminated => /\ loopPc \in {"test", "topic"} => rest = << >>
                 /\ loopPc = "payload" => rest # << >> /\ Head(rest).no = topic_msg.no

\* Once the subscription messages under way have arrived, the publisher forwards
\* exactly the quotes and the trades of the symbols asked for, whatever was
\* subscribed repeatedly, withdrawn and subscribed again; unless the client used
\* the socket of a running loop, as main.cpp does.
SubscriptionsAddUp ==
  ~raced /\ clientPc \notin {"subscribe", "unsubscribe"} =>
    Outcome(Topic, pubFilter, control) = {"Q", "T"} \X {n \in Name : asked[n] > 0}

\* "must stop the base class thread before destroying sockets": the destructor
\* does not close the socket under the loop.
ClosedUnused == clientPc = "gone" => receiver_thread_ = "none" /\ ~InSocket

\* The handler keeps the contract of its interface, also for a client that uses
\* the socket of a running loop, as main.cpp does to subscribe: it is called for
\* symbols it subscribed to only.  What such a client is not promised is that a
\* withdrawal takes effect.  There is no late delivery after one that counts.
Contract == INSTANCE FeedContract WITH
  Id    <- Name,
  grace <- {}
ImplementsContract == Contract!FeedSpec

\* The loop ends although it blocks in recv, so that stop() returns, also in the
\* destructor; and a loop whose context is gone ends by itself: it does not spin
\* on the error.
LoopEnds == (stopRequested \/ terminated) ~> (receiver_thread_ # "running")
=============================================================================
