--------------------------- MODULE UdpFeedHandler ---------------------------
(***************************************************************************)
(* src/src/feedhandler/UdpFeedHandler.h over its base IFeedHandler: the    *)
(* client thread that starts, stops, subscribes, unsubscribes and destroys *)
(* the handler, the receive loop on its own thread, and the operating      *)
(* system's receive buffer that datagrams arrive in.                       *)
(*                                                                         *)
(* command_queue_ is used as the queue CustomSpscQueue implements: a push  *)
(* or a pop is one step.  recvfrom is non-blocking.                        *)
(***************************************************************************)
EXTENDS IFeedHandler, SymbolCodec, Subscriptions

CONSTANTS
  Name,           \* the symbol names clients and generator use
  Kind,           \* datagrams as <<type character, payload size>> pairs
  CmdCapacity,    \* slots of command_queue_ (128)
  SockCapacity,   \* datagrams the receive buffer of the socket holds
  MaxDatagrams    \* bound: datagrams that reach the host

ASSUME CmdAssumption == CmdCapacity \in Nat \ {0}
ASSUME SockAssumption == SockCapacity \in Nat \ {0}
ASSUME BoundAssumption == MaxDatagrams \in Nat

VARIABLES
  command_queue_,        \* SubCommands not taken by the loop yet
  local_subscriptions_,  \* the loop's set of packed symbols
  loopPc, buffer,        \* place of the loop and the datagram it looks at
  socket,                \* datagrams in the receive buffer, oldest first
  delivered,             \* <<symbol, type, payload>> of each callback called
  arrived, taken,        \* counts of datagrams
  commands,              \* calls made, counted up to one more than CmdCapacity
  accepted,              \* ids all the commands that were queued ask for
  forgotten              \* the accepted ones that a restart has dropped

netVars    == <<socket, arrived, taken>>
clientVars == <<commands, accepted, forgotten>>
vars == <<baseVars, command_queue_, local_subscriptions_, loopPc, buffer,
          delivered, netVars, clientVars>>

Id == {pack_symbol(n) : n \in Name} \cup {symbol_field(n) : n \in Name}

SubCommand == Commands(Id)

\* What the generator and the disseminator put on the wire, and what the
\* checks of the loop can tell apart about it.
Datagram(n, k) == [name |-> n, symbol |-> symbol_field(n),
                   type |-> k[1], payload |-> k[2]]

\* The buffer while its content is not looked at any more.
Idle == [name |-> << >>, symbol |-> << >>, type |-> "none", payload |-> "none"]

\* A datagram that is shorter than a topic.
Short == [Idle EXCEPT !.payload = "short"]

-----------------------------------------------------------------------------
(* Faults a change to the handler could introduce *)

\* the subscription is not looked up
AllPass(d) == TRUE

\* every command is taken for a subscription
OnlyInsert(subs, cmd) == subs \cup {cmd.symbol_id}

\* one command is taken per round of the loop
OneTaken == "recv"

\* the loop does not look at the token again
NeverStopped == FALSE

\* a command is queued without looking for a free slot
AnyRoom == TRUE

\* the pop that takes the commands waits for one, as those of the other queues do
PopBlocks == stopRequested /\ command_queue_ = << >>

-----------------------------------------------------------------------------
\* What the loop makes of a command: insert into or erase from local_subscriptions_.
Apply(subs, cmd) == IF cmd.is_subscribe THEN subs \cup {cmd.symbol_id}
                    ELSE subs \ {cmd.symbol_id}

\* command_queue_.push finds a free slot.
HasRoom == Len(command_queue_) < CmdCapacity

\* st.stop_requested()
Stopped == stopRequested

\* command_queue_.pop(cmd) returns false.
Drained == command_queue_ = << >>

\* Where the loop goes after a command.
AfterCommand == "drain"

\* local_subscriptions_.contains(incoming_symbol)
Subscribed(d) == d.symbol \in local_subscriptions_

\* The type and size checks before the payload is unpacked.
WellFormed(d) == \/ d.type = "Q" /\ d.payload = "Quote"
                 \/ d.type = "T" /\ d.payload = "Trade"

Init ==
  /\ BaseInit
  /\ command_queue_ = << >>
  /\ local_subscriptions_ = {} /\ loopPc = "test" /\ buffer = Idle
  /\ socket = << >> /\ arrived = 0 /\ taken = 0
  /\ delivered = << >>
  /\ commands = 0 /\ accepted = {} /\ forgotten = {}

-----------------------------------------------------------------------------
(* The client *)

\* A command about the symbol waits for the loop.
Queued(id) == \E i \in 1 .. Len(command_queue_) : command_queue_[i].symbol_id = id

\* start(): the thread runs receive_loop_impl from its beginning, where
\* local_subscriptions_ is created empty.  The subscriptions an earlier thread
\* had taken from the queue are gone with it, the commands still queued are not.
Start ==
  /\ start
  /\ local_subscriptions_' = {} /\ loopPc' = "test" /\ buffer' = Idle
  /\ forgotten' = {id \in accepted : ~Queued(id)}
  /\ UNCHANGED <<command_queue_, delivered, netVars, commands, accepted>>

\* stop(), the destructor, and the callbacks, which main and the tests set
\* before they subscribe to anything, with or without a running thread.
BaseCall ==
  /\ \/ stop_request \/ stop_join("gone") \/ DestroyIdle("gone")
     \/ commands = 0 /\ \E type \in {"Q", "T"} : SetCallback(type)
  /\ UNCHANGED <<command_queue_, local_subscriptions_, loopPc, buffer, delivered,
                 netVars, clientVars>>

\* command_queue_.push, whose result subscribe_impl and unsubscribe_impl drop.
\* There is no limit to the calls; they are counted as far as anyone asks.
SendCommand(cmd) ==
  /\ clientPc = "free"
  /\ commands' = IF commands <= CmdCapacity THEN commands + 1 ELSE commands
  /\ \/ /\ HasRoom
        /\ command_queue_' = Append(command_queue_, cmd)
        /\ accepted' = Meant(accepted, cmd)
        /\ forgotten' = forgotten \ {cmd.symbol_id}
     \/ /\ ~HasRoom
        /\ UNCHANGED <<command_queue_, accepted, forgotten>>
  /\ UNCHANGED <<baseVars, local_subscriptions_, loopPc, buffer, delivered, netVars>>

subscribe(n) ==
  SendCommand([is_subscribe |-> TRUE, symbol_id |-> pack_symbol(n)])

unsubscribe(n) ==
  SendCommand([is_subscribe |-> FALSE, symbol_id |-> pack_symbol(n)])

-----------------------------------------------------------------------------
(* The network and the receive buffer, outside the program *)

\* A datagram reaches the host and finds room.  One that finds none, or no
\* socket, is dropped and changes nothing.
Arrive(d) ==
  /\ arrived < MaxDatagrams
  /\ clientPc # "gone" /\ Len(socket) < SockCapacity
  /\ socket' = Append(socket, d)
  /\ arrived' = arrived + 1
  /\ UNCHANGED <<baseVars, command_queue_, local_subscriptions_, loopPc, buffer,
                 delivered, taken, clientVars>>

-----------------------------------------------------------------------------
(* receive_loop_impl *)

\* while (!st.stop_requested())
LoopTest ==
  /\ receiver_thread_ = "running" /\ loopPc = "test"
  /\ \/ Stopped /\ EndThread /\ UNCHANGED loopPc
     \/ ~Stopped /\ loopPc' = "drain" /\ UNCHANGED baseVars
  /\ UNCHANGED <<command_queue_, local_subscriptions_, buffer, delivered, netVars,
                 clientVars>>

\* command_queue_.pop(cmd) returns true: the command is applied.
LoopCommand ==
  /\ loopPc = "drain" /\ command_queue_ # << >>
  /\ local_subscriptions_' = Apply(local_subscriptions_, Head(command_queue_))
  /\ command_queue_' = Tail(command_queue_)
  /\ loopPc' = AfterCommand
  /\ UNCHANGED <<baseVars, buffer, delivered, netVars, clientVars>>

\* The inner loop ends.
LoopDrained ==
  /\ loopPc = "drain" /\ Drained
  /\ loopPc' = "recv"
  /\ UNCHANGED <<baseVars, command_queue_, local_subscriptions_, buffer, delivered,
                 netVars, clientVars>>

\* recvfrom: nothing there (EAGAIN), or a datagram, which is discarded at once
\* when it is shorter than a topic.
LoopRecv ==
  /\ loopPc = "recv"
  /\ \/ /\ socket = << >>
        /\ loopPc' = "test"
        /\ UNCHANGED <<buffer, socket, taken>>
     \/ /\ socket # << >>
        /\ socket' = Tail(socket)
        /\ taken' = taken + 1
        /\ IF Head(socket).payload = "short"
             THEN loopPc' = "test" /\ UNCHANGED buffer
             ELSE loopPc' = "filter" /\ buffer' = Head(socket)
  /\ UNCHANGED <<baseVars, command_queue_, local_subscriptions_, delivered, arrived,
                 clientVars>>

\* The symbol, type and size checks.
LoopFilter ==
  /\ loopPc = "filter"
  /\ \/ /\ Subscribed(buffer) /\ WellFormed(buffer)
        /\ loopPc' = "deliver"
     \/ /\ ~(Subscribed(buffer) /\ WellFormed(buffer))
        /\ loopPc' = "test"
  /\ buffer' = IF loopPc' = "test" THEN Idle ELSE buffer
  /\ UNCHANGED <<baseVars, command_queue_, local_subscriptions_, delivered, netVars,
                 clientVars>>

\* deliver_to_client: calls the callback of the type, if there is one.
LoopDeliver ==
  /\ loopPc = "deliver"
  /\ loopPc' = "test" /\ buffer' = Idle
  /\ \/ /\ buffer.type \in callbacks
        /\ delivered' = Append(delivered, <<buffer.symbol, buffer.type, buffer.payload>>)
     \/ /\ buffer.type \notin callbacks
        /\ UNCHANGED delivered
  /\ UNCHANGED <<baseVars, command_queue_, local_subscriptions_, netVars, clientVars>>

-----------------------------------------------------------------------------
Command == \E n \in Name : subscribe(n) \/ unsubscribe(n)

Client == Start \/ BaseCall \/ Command

Loop == LoopTest \/ LoopCommand \/ LoopDrained \/ LoopRecv \/ LoopFilter \/ LoopDeliver

Next == \/ Client \/ Loop
        \/ \E n \in Name, k \in Kind : Arrive(Datagram(n, k))
        \/ Arrive(Short)

\* The receive thread keeps running and join returns when it has ended;
\* nothing obliges the client to call anything or a datagram to arrive.
Spec == /\ Init /\ [][Next]_vars
        /\ WF_vars(Loop)
        /\ WF_vars(BaseCall /\ stop_join("gone"))

-----------------------------------------------------------------------------
(* Properties *)

\* The handler's state keeps its types, and neither queue outgrows its capacity.
TypeOK ==
  /\ BaseTypeOK
  /\ clientPc \in {"free", "joining", "dying", "gone"}
  /\ command_queue_ \in Seq(SubCommand) /\ Len(command_queue_) <= CmdCapacity
  /\ local_subscriptions_ \subseteq Id /\ forgotten \subseteq accepted
  /\ loopPc \in {"test", "drain", "recv", "filter", "deliver"}
  /\ Len(socket) <= SockCapacity
  /\ taken <= arrived

\* No callback is called, or even looked at, before the client has subscribed:
\* a client that sets its callbacks first never writes a std::function that the
\* running receive thread may be reading.
CallbackNotInUse == loopPc = "deliver" => commands > 0

\* The symbols the client has asked for and that still count.
Standing == accepted \ forgotten

\* The set the loop filters with, and the commands still queued for it, always
\* add up to what the accepted commands ask for, of the whole life of the handler,
\* less the subscriptions a restart has dropped: those that an earlier thread had
\* taken from the queue and that no command was about since.  None is applied
\* twice, out of order or left behind while the thread runs.
SubscriptionsAddUp ==
  receiver_thread_ = "running" =>
    Outcome(Id, local_subscriptions_, command_queue_) = Standing

\* A datagram generated for a name passes the filter whenever the loop has that
\* very name subscribed: "the idea is that we shove the 8 char symbol into this
\* 64bit uint", and main.cpp subscribes every name of up to 8 characters.
SubscribedNamePasses ==
  loopPc = "filter" /\ pack_symbol(buffer.name) \in local_subscriptions_
    => Subscribed(buffer)

\* A symbol the client subscribes to is subscribed when the call returns, at the
\* latest once the loop has taken the commands: main.cpp counts its calls and
\* reports "Feedhandler subscribed to {} symbols."
SubscribeCounts ==
  [][\A n \in Name : subscribe(n) => pack_symbol(n) \in accepted']_vars

\* The handler keeps the contract of its interface for the subscriptions that
\* stand: whole messages of wanted symbols only, and at most one delivery
\* that was past the filter when its symbol was unsubscribed.  A symbol is in
\* that grace while the loop is past its commands and still has it in its set.
Contract == INSTANCE FeedContract WITH
  wanted <- Standing,
  grace  <- IF loopPc \in {"recv", "filter", "deliver"}
              THEN local_subscriptions_ \ Standing ELSE {}
ImplementsContract == Contract!FeedSpec

\* Every datagram in the receive buffer is taken out as long as the handler is
\* not stopped, unless the client goes on putting commands into the queue for
\* ever: the inner loop over the commands then need never end, and that is the
\* only thing that can keep the loop from the network.
DatagramsTaken ==
  \/ []<><<Command>>_vars
  \/ \A k \in 1 .. MaxDatagrams :
       (arrived >= k) ~> (taken >= k \/ receiver_thread_ # "running")

\* stop() returns, also when the destructor calls it.
StopReturns == (clientPc \in {"joining", "dying"}) ~> (receiver_thread_ = "none")
=============================================================================
