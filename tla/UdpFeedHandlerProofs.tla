------------------------ MODULE UdpFeedHandlerProofs ------------------------
(***************************************************************************)
(* Proofs about the UDP feed handler, for every set of names, every kind   *)
(* of datagram, every capacity and every bound.                            *)
(*                                                                         *)
(* The inductive invariant says where the thread is when the loop is past  *)
(* its test, that the set of the loop and the commands queued for it add   *)
(* up to what was accepted and not dropped by a restart, and what the loop *)
(* has already checked about the datagram it holds.                        *)
(***************************************************************************)
EXTENDS UdpFeedHandler, SubscriptionsProofs

-----------------------------------------------------------------------------
(* The inductive invariant *)

\* Everything that can be in the receive buffer of the socket.
Wire == {Datagram(n, k) : n \in Name, k \in Kind} \cup {Short}

TypesInv ==
  /\ BaseTypeOK
  /\ clientPc \in {"free", "joining", "dying", "gone"}
  /\ command_queue_ \in Seq(SubCommand) /\ Len(command_queue_) <= CmdCapacity
  /\ local_subscriptions_ \subseteq Id
  /\ accepted \subseteq Id /\ forgotten \subseteq accepted
  /\ loopPc \in {"test", "drain", "recv", "filter", "deliver"}
  /\ socket \in Seq(Wire) /\ Len(socket) <= SockCapacity
  /\ taken \in Nat /\ arrived \in Nat /\ commands \in Nat
  /\ arrived = taken + Len(socket)

\* Only a running thread is past the test of its loop.
PlaceInv == loopPc # "test" => receiver_thread_ = "running"

\* The set of the loop holds what the queued commands will leave of it; the
\* subscriptions of a thread that has ended count until the next one starts.
AddUpInv == Outcome(Id, local_subscriptions_, command_queue_) = Standing

\* What a restart has dropped is dropped for good until a command is about it.
ForgottenInv == \A id \in forgotten : ~Queued(id)

\* Nothing is subscribed, or about to be, before the first command.
FirstInv == (local_subscriptions_ # {} \/ Len(command_queue_) > 0) => commands > 0

\* What the loop knows of the datagram it holds.
BufferInv ==
  /\ loopPc \in {"filter", "deliver"} =>
       \E n \in Name, k \in Kind : buffer = Datagram(n, k)
  /\ loopPc = "deliver" => Subscribed(buffer) /\ WellFormed(buffer)

HandlerInv == TypesInv /\ PlaceInv /\ AddUpInv /\ ForgottenInv /\ FirstInv /\ BufferInv

-----------------------------------------------------------------------------
(* Every step keeps the invariant *)

LEMMA InitHandler == Init => HandlerInv
<1> SUFFICES ASSUME Init PROVE HandlerInv
  OBVIOUS
<1> USE DEF Init, BaseInit
<1>1. TypesInv
  <2>1. Len(command_queue_) = 0 /\ Len(socket) = 0
    OBVIOUS
  <2>2. BaseTypeOK
    <3>1. starts \in 0 .. MaxStarts
      BY StartsAssumption
    <3> QED
      BY <3>1 DEF BaseTypeOK
  <2>3. command_queue_ \in Seq(SubCommand) /\ socket \in Seq(Wire)
    OBVIOUS
  <2>4. 0 <= CmdCapacity /\ 0 <= SockCapacity /\ arrived = taken + Len(socket)
    BY <2>1, CmdAssumption, SockAssumption
  <2> QED
    BY <2>1, <2>2, <2>3, <2>4 DEF TypesInv
<1>2. AddUpInv
  <2>1. \A i \in 1 .. Len(command_queue_) : FALSE
    OBVIOUS
  <2> QED
    BY <2>1 DEF AddUpInv, Outcome, Standing
<1>3. FirstInv
  <2>1. Len(command_queue_) = 0
    OBVIOUS
  <2> QED
    BY <2>1 DEF FirstInv
<1> QED
  BY <1>1, <1>2, <1>3 DEF HandlerInv, PlaceInv, ForgottenInv, BufferInv

\* A step that leaves the loop and its data alone.
LEMMA LoopKept ==
  ASSUME HandlerInv, BaseTypeOK', clientPc' \in {"free", "joining", "dying", "gone"},
         loopPc # "test" => receiver_thread_' = "running",
         UNCHANGED <<command_queue_, local_subscriptions_, loopPc, buffer, netVars,
                     clientVars>>
  PROVE  HandlerInv'
BY DEF HandlerInv, TypesInv, PlaceInv, AddUpInv, ForgottenInv, FirstInv, BufferInv, netVars,
       clientVars, Outcome, Standing, Queued, Subscribed, WellFormed

\* What stands after a start is what the queued commands alone ask for: a symbol
\* that a queued command is about stands or not by that command, and one that
\* none is about has been dropped.
LEMMA StandingRestarted ==
  ASSUME HandlerInv
  PROVE  Outcome(Id, {}, command_queue_) = {id \in accepted : Queued(id)}
<1>0. /\ accepted \subseteq Id
      /\ Outcome(Id, local_subscriptions_, command_queue_) = accepted \ forgotten
      /\ \A id \in forgotten : ~Queued(id)
  BY DEF HandlerInv, TypesInv, AddUpInv, ForgottenInv, Standing
<1>1. ASSUME NEW id \in Id
      PROVE  id \in Outcome(Id, {}, command_queue_) <=> id \in accepted /\ Queued(id)
  <2>1. CASE Queued(id)
    <3>1. id \in Outcome(Id, {}, command_queue_)
            <=> id \in Outcome(Id, local_subscriptions_, command_queue_)
      BY <2>1 DEF Outcome, Queued
    <3> QED
      BY <1>0, <2>1, <3>1
  <2>2. CASE ~Queued(id)
    BY <2>2 DEF Outcome, Queued
  <2> QED
    BY <2>1, <2>2
<1>2. Outcome(Id, {}, command_queue_) \subseteq Id
  BY DEF Outcome
<1> QED
  BY <1>0, <1>1, <1>2

LEMMA StartStep == ASSUME HandlerInv, Start PROVE HandlerInv'
<1> USE DEF HandlerInv
<1>1. /\ local_subscriptions_' = {} /\ loopPc' = "test" /\ receiver_thread_' = "running"
      /\ forgotten' = {id \in accepted : ~Queued(id)} /\ command_queue_' = command_queue_
      /\ accepted' = accepted /\ UNCHANGED <<netVars, commands>>
  BY DEF Start, start
<1>2. BaseTypeOK' /\ clientPc' = clientPc
  <2>1. starts \in 0 .. MaxStarts /\ starts < MaxStarts /\ starts' = starts + 1
    BY DEF Start, start, BaseTypeOK, TypesInv
  <2>2. starts' \in 0 .. MaxStarts
    BY <2>1, StartsAssumption
  <2> QED
    BY <2>2 DEF Start, start, BaseTypeOK, TypesInv
<1>3. TypesInv'
  BY <1>1, <1>2 DEF TypesInv, netVars
<1>4. Outcome(Id, {}, command_queue_) = Standing'
  <2>1. Standing' = {id \in accepted : Queued(id)}
    BY <1>1 DEF Standing
  <2> QED
    BY <2>1, StandingRestarted
<1>5. AddUpInv'
  BY <1>1, <1>4 DEF AddUpInv, Outcome
<1>6. ForgottenInv'
  BY <1>1 DEF ForgottenInv, Queued
<1> QED
  BY <1>1, <1>3, <1>5, <1>6 DEF PlaceInv, FirstInv, BufferInv

LEMMA BaseCallStep == ASSUME HandlerInv, BaseCall PROVE HandlerInv'
<1> USE DEF HandlerInv
<1>1. UNCHANGED <<command_queue_, local_subscriptions_, loopPc, buffer, netVars, clientVars>>
  BY DEF BaseCall
<1>2. CASE stop_request
  BY <1>1, <1>2, LoopKept DEF stop_request, BaseTypeOK, TypesInv, PlaceInv
<1>3. CASE stop_join("gone")
  <2>1. BaseTypeOK' /\ clientPc' \in {"free", "gone"} /\ receiver_thread_ = "ended"
    BY <1>3 DEF stop_join, Joinable, BaseTypeOK, TypesInv
  <2> QED
    BY <1>1, <2>1, LoopKept DEF PlaceInv
<1>4. CASE DestroyIdle("gone")
  BY <1>1, <1>4, LoopKept DEF DestroyIdle, BaseTypeOK, TypesInv, PlaceInv
<1>5. CASE \E type \in {"Q", "T"} : SetCallback(type)
  BY <1>1, <1>5, LoopKept DEF SetCallback, BaseTypeOK, TypesInv, PlaceInv
<1> QED
  BY <1>2, <1>3, <1>4, <1>5 DEF BaseCall

LEMMA SendStep ==
  ASSUME HandlerInv, NEW cmd \in SubCommand, SendCommand(cmd) PROVE HandlerInv'
<1> USE DEF HandlerInv
<1>1. /\ commands' = IF commands <= CmdCapacity THEN commands + 1 ELSE commands
      /\ UNCHANGED <<baseVars, local_subscriptions_, loopPc, buffer, netVars>>
  BY DEF SendCommand
<1>2. commands' \in Nat /\ commands' > 0 /\ Len(command_queue_) \in Nat
  BY <1>1, CmdAssumption DEF TypesInv
<1>3. BaseTypeOK' /\ PlaceInv' /\ BufferInv' /\ FirstInv'
  BY <1>1, <1>2 DEF baseVars, BaseTypeOK, TypesInv, PlaceInv, BufferInv, FirstInv, Subscribed,
                    WellFormed
<1>4. CASE HasRoom /\ command_queue_' = Append(command_queue_, cmd)
           /\ accepted' = Meant(accepted, cmd) /\ forgotten' = forgotten \ {cmd.symbol_id}
  <2>1. /\ command_queue_' \in Seq(SubCommand)
        /\ Len(command_queue_') = Len(command_queue_) + 1
    BY <1>4, AppendProperties DEF TypesInv
  <2>2. Len(command_queue_') <= CmdCapacity
    BY <1>2, <1>4, <2>1, CmdAssumption DEF HasRoom
  <2>3. accepted' \subseteq Id /\ forgotten' \subseteq accepted'
    BY <1>4 DEF Meant, SubCommand, Commands, TypesInv
  <2>4. TypesInv'
    BY <1>1, <1>2, <1>3, <2>1, <2>2, <2>3 DEF TypesInv, baseVars, netVars
  <2>5. Outcome(Id, local_subscriptions_, Append(command_queue_, cmd)) = Standing'
    <3>1. Outcome(Id, local_subscriptions_, Append(command_queue_, cmd)) = Meant(Standing, cmd)
      BY OutcomeOfAppend DEF AddUpInv, TypesInv, SubCommand
    <3>2. Meant(Standing, cmd) = Standing'
      BY <1>4 DEF Standing, Meant
    <3> QED
      BY <3>1, <3>2
  <2>6. AddUpInv'
    BY <1>1, <1>4, <2>5 DEF AddUpInv, Outcome
  <2>7. ForgottenInv'
    <3>1. /\ Len(command_queue_) \in Nat /\ command_queue_'[Len(command_queue_) + 1] = cmd
          /\ \A i \in 1 .. Len(command_queue_) : command_queue_'[i] = command_queue_[i]
      BY <1>4, AppendProperties DEF TypesInv
    <3>2. SUFFICES ASSUME NEW id \in forgotten', NEW i \in 1 .. Len(command_queue_'),
                          command_queue_'[i].symbol_id = id
                   PROVE  FALSE
      BY DEF ForgottenInv, Queued
    <3>3. CASE i = Len(command_queue_) + 1
      BY <1>4, <3>1, <3>2, <3>3
    <3>4. CASE i \in 1 .. Len(command_queue_)
      BY <1>4, <3>1, <3>2, <3>4 DEF ForgottenInv, Queued
    <3> QED
      BY <2>1, <3>1, <3>3, <3>4
  <2> QED
    BY <1>3, <2>4, <2>6, <2>7
<1>5. CASE UNCHANGED <<command_queue_, accepted, forgotten>>
  <2>1. TypesInv'
    BY <1>1, <1>2, <1>3, <1>5 DEF TypesInv, baseVars, netVars
  <2>2. AddUpInv' /\ ForgottenInv'
    BY <1>1, <1>5 DEF AddUpInv, Outcome, Standing, ForgottenInv, Queued
  <2> QED
    BY <1>3, <2>1, <2>2
<1> QED
  BY <1>4, <1>5 DEF SendCommand

LEMMA ArriveStep == ASSUME HandlerInv, NEW d \in Wire, Arrive(d) PROVE HandlerInv'
<1> USE DEF HandlerInv
<1>1. /\ Len(socket) < SockCapacity /\ socket' = Append(socket, d) /\ arrived' = arrived + 1
      /\ UNCHANGED <<baseVars, command_queue_, local_subscriptions_, loopPc, buffer,
                     taken, clientVars>>
  BY DEF Arrive
<1>2. /\ socket' \in Seq(Wire) /\ Len(socket') = Len(socket) + 1 /\ Len(socket) \in Nat
  BY <1>1, AppendProperties DEF TypesInv
<1>3. Len(socket') <= SockCapacity /\ arrived' \in Nat /\ arrived' = taken' + Len(socket')
  BY <1>1, <1>2, SockAssumption DEF TypesInv
<1>4. TypesInv'
  BY <1>1, <1>2, <1>3 DEF TypesInv, BaseTypeOK, baseVars, clientVars
<1>5. AddUpInv' /\ ForgottenInv'
  BY <1>1 DEF AddUpInv, Outcome, Standing, ForgottenInv, Queued, clientVars
<1> QED
  BY <1>1, <1>4, <1>5 DEF PlaceInv, FirstInv, BufferInv, baseVars, clientVars, Subscribed,
                          WellFormed

LEMMA LoopTestStep == ASSUME HandlerInv, LoopTest PROVE HandlerInv'
<1> USE DEF HandlerInv
<1>1. /\ loopPc = "test" /\ loopPc' \in {"test", "drain"}
      /\ loopPc' = "drain" => receiver_thread_' = "running"
      /\ clientPc' = clientPc
      /\ UNCHANGED <<command_queue_, local_subscriptions_, buffer, netVars, clientVars>>
  BY DEF LoopTest, EndThread, baseVars
<1>2. BaseTypeOK'
  BY DEF LoopTest, EndThread, baseVars, BaseTypeOK, TypesInv
<1>3. TypesInv'
  BY <1>1, <1>2 DEF TypesInv, netVars, clientVars
<1>4. AddUpInv' /\ ForgottenInv'
  BY <1>1 DEF AddUpInv, Outcome, Standing, ForgottenInv, Queued, clientVars
<1> QED
  BY <1>1, <1>3, <1>4 DEF PlaceInv, FirstInv, BufferInv, clientVars

LEMMA LoopCommandStep == ASSUME HandlerInv, LoopCommand PROVE HandlerInv'
<1> USE DEF HandlerInv
<1>1. /\ loopPc = "drain" /\ loopPc' = "drain" /\ command_queue_ # << >>
      /\ local_subscriptions_' = Apply(local_subscriptions_, Head(command_queue_))
      /\ command_queue_' = Tail(command_queue_)
      /\ UNCHANGED <<baseVars, buffer, netVars, clientVars>>
  BY DEF LoopCommand, AfterCommand
<1>2. /\ Len(command_queue_) \in Nat \ {0} /\ command_queue_' \in Seq(SubCommand)
      /\ Len(command_queue_') = Len(command_queue_) - 1
  BY <1>1, HeadTailProperties DEF TypesInv
<1>3. Len(command_queue_') <= CmdCapacity /\ Len(command_queue_) > 0
  BY <1>2, CmdAssumption DEF TypesInv
<1>4. /\ local_subscriptions_' \subseteq Id
      /\ Outcome(Id, Apply(local_subscriptions_, Head(command_queue_)), Tail(command_queue_))
           = Standing
  <2>1. Apply(local_subscriptions_, Head(command_queue_))
          = Meant(local_subscriptions_, Head(command_queue_))
    BY DEF Apply, Meant
  <2> QED
    BY <1>1, <2>1, OutcomeOfTail DEF TypesInv, AddUpInv, SubCommand
<1>5. TypesInv'
  BY <1>1, <1>2, <1>3, <1>4 DEF TypesInv, BaseTypeOK, baseVars, netVars, clientVars
<1>6. AddUpInv'
  BY <1>1, <1>4 DEF AddUpInv, Outcome, Standing, clientVars
<1>7. ForgottenInv'
  <2>1. \A i \in 1 .. Len(command_queue_') :
          i + 1 \in 1 .. Len(command_queue_) /\ command_queue_'[i] = command_queue_[i + 1]
    BY <1>1, <1>2, HeadTailProperties DEF TypesInv
  <2> QED
    BY <1>1, <2>1 DEF ForgottenInv, Queued, clientVars
<1> QED
  BY <1>1, <1>3, <1>5, <1>6, <1>7 DEF PlaceInv, FirstInv, BufferInv, baseVars, clientVars

LEMMA LoopDrainedStep == ASSUME HandlerInv, LoopDrained PROVE HandlerInv'
<1> USE DEF HandlerInv
<1>1. /\ loopPc = "drain" /\ loopPc' = "recv"
      /\ UNCHANGED <<baseVars, command_queue_, local_subscriptions_, buffer, netVars,
                     clientVars>>
  BY DEF LoopDrained
<1>2. TypesInv'
  BY <1>1 DEF TypesInv, BaseTypeOK, baseVars, netVars, clientVars
<1>3. AddUpInv' /\ ForgottenInv'
  BY <1>1 DEF AddUpInv, Outcome, Standing, ForgottenInv, Queued, clientVars
<1> QED
  BY <1>1, <1>2, <1>3 DEF PlaceInv, FirstInv, BufferInv, baseVars, clientVars

LEMMA LoopRecvStep == ASSUME HandlerInv, LoopRecv PROVE HandlerInv'
<1> USE DEF HandlerInv
<1>1. /\ loopPc = "recv" /\ loopPc' \in {"test", "filter"}
      /\ UNCHANGED <<baseVars, command_queue_, local_subscriptions_, arrived, clientVars>>
  BY DEF LoopRecv
<1>2. PlaceInv' /\ FirstInv' /\ AddUpInv' /\ ForgottenInv'
  BY <1>1 DEF PlaceInv, FirstInv, AddUpInv, Outcome, Standing, ForgottenInv, Queued, baseVars,
              clientVars
<1>3. CASE socket = << >>
  <2>1. loopPc' = "test" /\ UNCHANGED <<socket, taken>>
    BY <1>3 DEF LoopRecv
  <2>2. TypesInv'
    BY <1>1, <2>1 DEF TypesInv, BaseTypeOK, baseVars, clientVars
  <2> QED
    BY <1>2, <2>1, <2>2 DEF BufferInv
<1>4. CASE socket # << >>
  <2>1. /\ socket' = Tail(socket) /\ taken' = taken + 1
        /\ loopPc' = "filter" => buffer' = Head(socket) /\ Head(socket).payload # "short"
    BY <1>4 DEF LoopRecv
  <2>2. /\ Len(socket) \in Nat \ {0} /\ socket' \in Seq(Wire) /\ Len(socket') = Len(socket) - 1
        /\ Head(socket) \in Wire
    BY <1>4, <2>1, HeadTailProperties DEF TypesInv
  <2>3. /\ Len(socket') <= SockCapacity /\ taken' \in Nat /\ arrived = taken' + Len(socket')
    BY <2>1, <2>2, SockAssumption DEF TypesInv
  <2>4. TypesInv'
    BY <1>1, <2>2, <2>3 DEF TypesInv, BaseTypeOK, baseVars, clientVars
  <2>5. BufferInv'
    <3>1. Short.payload = "short"
      BY DEF Short, Idle
    <3>2. ASSUME loopPc' = "filter" PROVE \E n \in Name, k \in Kind : buffer' = Datagram(n, k)
      BY <2>1, <2>2, <3>1, <3>2 DEF Wire
    <3> QED
      BY <1>1, <3>2 DEF BufferInv
  <2> QED
    BY <1>2, <2>4, <2>5
<1> QED
  BY <1>3, <1>4

LEMMA LoopFilterStep == ASSUME HandlerInv, LoopFilter PROVE HandlerInv'
<1> USE DEF HandlerInv
<1>1. /\ loopPc = "filter" /\ loopPc' \in {"test", "deliver"}
      /\ loopPc' = "deliver" => /\ Subscribed(buffer) /\ WellFormed(buffer)
                                /\ buffer' = buffer
      /\ UNCHANGED <<baseVars, command_queue_, local_subscriptions_, netVars, clientVars>>
  BY DEF LoopFilter
<1>2. TypesInv'
  BY <1>1 DEF TypesInv, BaseTypeOK, baseVars, netVars, clientVars
<1>3. AddUpInv' /\ ForgottenInv'
  BY <1>1 DEF AddUpInv, Outcome, Standing, ForgottenInv, Queued, clientVars
<1>4. BufferInv'
  BY <1>1 DEF BufferInv, Subscribed, WellFormed
<1> QED
  BY <1>1, <1>2, <1>3, <1>4 DEF PlaceInv, FirstInv, baseVars, clientVars

LEMMA LoopDeliverStep == ASSUME HandlerInv, LoopDeliver PROVE HandlerInv'
<1> USE DEF HandlerInv
<1>1. /\ loopPc = "deliver" /\ loopPc' = "test"
      /\ UNCHANGED <<baseVars, command_queue_, local_subscriptions_, netVars, clientVars>>
  BY DEF LoopDeliver
<1>2. TypesInv'
  BY <1>1 DEF TypesInv, BaseTypeOK, baseVars, netVars, clientVars
<1>3. AddUpInv' /\ ForgottenInv'
  BY <1>1 DEF AddUpInv, Outcome, Standing, ForgottenInv, Queued, clientVars
<1> QED
  BY <1>1, <1>2, <1>3 DEF PlaceInv, FirstInv, BufferInv, baseVars, clientVars

-----------------------------------------------------------------------------
(* Theorems *)

\* Every command of the client is one the queue may hold.
LEMMA CommandTypes ==
  \A n \in Name, b \in BOOLEAN : [is_subscribe |-> b, symbol_id |-> pack_symbol(n)] \in SubCommand
BY DEF SubCommand, Commands, Id

LEMMA HandlerNext == HandlerInv /\ [Next]_vars => HandlerInv'
<1> SUFFICES ASSUME HandlerInv, [Next]_vars PROVE HandlerInv'
  OBVIOUS
<1>1. CASE Start
  BY <1>1, StartStep
<1>2. CASE BaseCall
  BY <1>2, BaseCallStep
<1>3. CASE Command
  BY <1>3, CommandTypes, SendStep DEF Command, subscribe, unsubscribe
<1>4. CASE Loop
  BY <1>4, LoopTestStep, LoopCommandStep, LoopDrainedStep, LoopRecvStep, LoopFilterStep,
     LoopDeliverStep DEF Loop
<1>5. CASE (\E n \in Name, k \in Kind : Arrive(Datagram(n, k))) \/ Arrive(Short)
  <2>1. Short \in Wire /\ \A n \in Name, k \in Kind : Datagram(n, k) \in Wire
    BY DEF Wire
  <2> QED
    BY <1>5, <2>1, ArriveStep
<1>6. CASE UNCHANGED vars
  <2>1. UNCHANGED <<baseVars, command_queue_, local_subscriptions_, loopPc, buffer, netVars,
                    clientVars>>
    BY <1>6 DEF vars
  <2> QED
    BY <2>1, LoopKept DEF HandlerInv, TypesInv, PlaceInv, BaseTypeOK, baseVars
<1> QED
  BY <1>1, <1>2, <1>3, <1>4, <1>5, <1>6 DEF Next, Client

\* The inductive invariant holds in every state the handler can reach.
THEOREM HandlerInvariant == Spec => []HandlerInv
BY InitHandler, HandlerNext, PTL DEF Spec

\* The state of the handler keeps its types, and neither the command queue nor
\* the receive buffer of the socket outgrows its capacity.
THEOREM HandlerTypeCorrect == Spec => []TypeOK
<1>1. HandlerInv => TypeOK
  <2> SUFFICES ASSUME HandlerInv PROVE TypeOK
    OBVIOUS
  <2>1. taken <= arrived
    <3>1. Len(socket) \in Nat /\ taken \in Nat /\ arrived = taken + Len(socket)
      BY DEF HandlerInv, TypesInv
    <3> QED
      BY <3>1
  <2> QED
    BY <2>1 DEF HandlerInv, TypesInv, TypeOK
<1> QED
  BY <1>1, HandlerInvariant, PTL

\* The loop delivers nothing before the first command, so a client that sets its
\* callbacks first does not write a callback the receive thread may be reading.
THEOREM CallbacksSetInPeace == Spec => []CallbackNotInUse
<1>1. HandlerInv => CallbackNotInUse
  BY DEF HandlerInv, CallbackNotInUse, BufferInv, FirstInv, Subscribed
<1> QED
  BY <1>1, HandlerInvariant, PTL

\* The set the loop filters with and the commands queued for it add up to what
\* the accepted commands ask for, less exactly what the restarts have dropped.
THEOREM CommandsAddUp == Spec => []SubscriptionsAddUp
<1>1. HandlerInv => SubscriptionsAddUp
  BY DEF HandlerInv, SubscriptionsAddUp, AddUpInv
<1> QED
  BY <1>1, HandlerInvariant, PTL

\* A name that leaves room for the terminator is packed into the very field the
\* generator sends for it, so its datagrams pass the filter once it is subscribed.
THEOREM ShortNamesPass ==
  ASSUME \A n \in Name : Len(n) \in 0 .. Width - 1
  PROVE  Spec => []SubscribedNamePasses
<1>1. ASSUME NEW n \in Name PROVE pack_symbol(n) = symbol_field(n)
  <2>1. Len(n) \in Nat /\ Len(n) <= Width - 1 /\ Width \in Nat
    BY WidthAssumption
  <2>2. \A i \in 1 .. Width : (i <= Width /\ i <= Len(n)) <=> (i <= Width - 1 /\ i <= Len(n))
    BY <2>1
  <2> QED
    BY <2>2 DEF pack_symbol, symbol_field, Padded
<1>2. HandlerInv => SubscribedNamePasses
  BY <1>1 DEF HandlerInv, BufferInv, SubscribedNamePasses, Subscribed, Datagram
<1> QED
  BY <1>2, HandlerInvariant, PTL

\* Every command in the queue was sent by a call that was counted.
SentInv == commands <= CmdCapacity => Len(command_queue_) <= commands

\* SubscribeCounts for the first calls, as many as the queue has slots.
FirstSubscribesCount ==
  [][\A n \in Name : subscribe(n) /\ commands < CmdCapacity
       => pack_symbol(n) \in accepted']_vars

\* None of the first CmdCapacity calls of the client is lost, however long the
\* receive thread takes to start or to come round: every symbol it subscribes to
\* with one of them counts.
THEOREM FirstCommandsCount == Spec => FirstSubscribesCount
<1>0. CmdCapacity \in Nat
  BY CmdAssumption
<1>1. Init => SentInv
  BY <1>0 DEF Init, SentInv
<1>2. HandlerInv /\ SentInv /\ [Next]_vars => SentInv'
  <2> SUFFICES ASSUME HandlerInv, SentInv, [Next]_vars PROVE SentInv'
    OBVIOUS
  <2>0. command_queue_ \in Seq(SubCommand) /\ commands \in Nat
    BY DEF HandlerInv, TypesInv
  <2>1. CASE Command
    <3>1. PICK cmd \in SubCommand : SendCommand(cmd)
      BY <2>1, CommandTypes DEF Command, subscribe, unsubscribe
    <3>2. /\ commands' = IF commands <= CmdCapacity THEN commands + 1 ELSE commands
          /\ command_queue_' \in {command_queue_, Append(command_queue_, cmd)}
      BY <3>1 DEF SendCommand
    <3>3. Len(Append(command_queue_, cmd)) = Len(command_queue_) + 1 /\ Len(command_queue_) \in Nat
      BY <2>0
    <3> QED
      BY <1>0, <2>0, <3>2, <3>3 DEF SentInv
  <2>2. CASE LoopCommand
    <3>1. Len(Tail(command_queue_)) <= Len(command_queue_)
      BY <2>0, <2>2 DEF LoopCommand
    <3>2. command_queue_' = Tail(command_queue_) /\ commands' = commands
      BY <2>2 DEF LoopCommand, clientVars
    <3>3. Len(command_queue_) \in Nat /\ Len(Tail(command_queue_)) \in Nat
      BY <2>0, <2>2 DEF LoopCommand
    <3> QED
      BY <2>0, <3>1, <3>2, <3>3 DEF SentInv
  <2>3. CASE UNCHANGED <<command_queue_, commands>>
    BY <2>3 DEF SentInv
  <2>4. CASE Start \/ BaseCall \/ LoopTest \/ LoopDrained \/ LoopRecv \/ LoopFilter
             \/ LoopDeliver \/ UNCHANGED vars
    BY <2>3, <2>4 DEF Start, BaseCall, LoopTest, LoopDrained, LoopRecv, LoopFilter,
                      LoopDeliver, vars, clientVars
  <2>5. CASE \E d \in Wire : Arrive(d)
    BY <2>3, <2>5 DEF Arrive, clientVars
  <2> QED
    BY <2>1, <2>2, <2>4, <2>5 DEF Next, Client, Loop, Wire
<1>3. HandlerInv /\ SentInv /\ [Next]_vars
        => [\A n \in Name : subscribe(n) /\ commands < CmdCapacity
              => pack_symbol(n) \in accepted']_vars
  <2> SUFFICES ASSUME HandlerInv, SentInv, NEW n \in Name, subscribe(n), commands < CmdCapacity
               PROVE  pack_symbol(n) \in accepted'
    OBVIOUS
  <2>1. Len(command_queue_) < CmdCapacity
    <3>1. commands \in Nat /\ Len(command_queue_) \in Nat
      BY DEF HandlerInv, TypesInv
    <3> QED
      BY <1>0, <3>1 DEF SentInv
  <2> QED
    BY <2>1 DEF subscribe, SendCommand, HasRoom, Meant
<1> QED
  BY <1>1, <1>2, <1>3, HandlerInvariant, PTL DEF Spec, FirstSubscribesCount

-----------------------------------------------------------------------------
(* The contract of the interface *)

\* The symbols in their grace, as the refinement maps them.
Grace == IF loopPc \in {"recv", "filter", "deliver"}
           THEN local_subscriptions_ \ Standing ELSE {}

\* Steps that leave the client's wishes and the deliveries alone, and give no
\* symbol a grace, are the loop coming back before its filter.
LEMMA GraceExpires ==
  ASSUME Standing' = Standing, delivered' = delivered, Grace' \subseteq Grace
  PROVE  Contract!FeedNext
BY DEF Contract!FeedNext, Contract!Expire, Grace

\* The UDP handler, with its queue of commands, its filter and its restarts,
\* implements the contract of a feed handler: whole messages of wanted symbols
\* only, and at most one delivery after the symbol was withdrawn.
THEOREM HandlerKeepsContract == Spec => ImplementsContract
<1>1. Init => Contract!FeedInit
  BY DEF Init, Standing, Contract!FeedInit
<1>2. HandlerInv /\ [Next]_vars => [Contract!FeedNext]_(Contract!feedVars)
  <2> SUFFICES ASSUME HandlerInv, [Next]_vars
               PROVE  Contract!FeedNext \/ UNCHANGED Contract!feedVars
    OBVIOUS
  <2> USE DEF HandlerInv
  <2>0. /\ local_subscriptions_ \in SUBSET Id /\ accepted \in SUBSET Id /\ forgotten \subseteq accepted
        /\ command_queue_ \in Seq(SubCommand)
    BY DEF TypesInv
  <2>1. CASE Start
    <3>1. /\ forgotten' = {id \in accepted : ~Queued(id)} /\ accepted' = accepted
          /\ loopPc' = "test" /\ delivered' = delivered
      BY <2>1 DEF Start
    <3>2. Standing' \subseteq Standing
      BY <2>0, <3>1 DEF ForgottenInv, Standing
    <3> QED
      BY <3>1, <3>2 DEF Contract!FeedNext, Contract!Restart
  <2>2. CASE BaseCall
    BY <2>2 DEF BaseCall, clientVars, Standing, Contract!feedVars
  <2>3. ASSUME NEW n \in Name, subscribe(n) PROVE Contract!FeedNext \/ UNCHANGED Contract!feedVars
    <3>1. /\ pack_symbol(n) \in Id
          /\ UNCHANGED <<loopPc, local_subscriptions_, delivered>>
          /\ Standing' = Standing \cup {pack_symbol(n)} \/ Standing' = Standing
      BY <2>3 DEF subscribe, SendCommand, Meant, Id, Standing
    <3>2. CASE Standing' = Standing
      BY <3>1, <3>2 DEF Contract!feedVars
    <3>3. CASE Standing' = Standing \cup {pack_symbol(n)}
      <4>1. \E id \in Id : Contract!Subscribe(id)
        BY <3>1, <3>3 DEF Contract!Subscribe
      <4> QED
        BY <4>1 DEF Contract!FeedNext
    <3> QED
      BY <3>1, <3>2, <3>3
  <2>4. ASSUME NEW n \in Name, unsubscribe(n) PROVE Contract!FeedNext \/ UNCHANGED Contract!feedVars
    <3>1. /\ pack_symbol(n) \in Id
          /\ UNCHANGED <<loopPc, local_subscriptions_, delivered>>
          /\ Standing' = Standing \ {pack_symbol(n)} \/ Standing' = Standing
      BY <2>4 DEF unsubscribe, SendCommand, Meant, Id, Standing
    <3>2. CASE Standing' = Standing
      BY <3>1, <3>2 DEF Contract!feedVars
    <3>3. CASE Standing' = Standing \ {pack_symbol(n)}
      <4>1. \E id \in Id : Contract!Unsubscribe(id)
        BY <3>1, <3>3 DEF Contract!Unsubscribe
      <4> QED
        BY <4>1 DEF Contract!FeedNext
    <3> QED
      BY <3>1, <3>2, <3>3
  <2>5. CASE LoopTest \/ LoopCommand
    BY <2>5 DEF LoopTest, LoopCommand, AfterCommand, clientVars, Standing, Contract!feedVars
  <2>6. CASE LoopDrained
    <3>1. /\ loopPc = "drain" /\ loopPc' = "recv" /\ Len(command_queue_) = 0
          /\ UNCHANGED <<local_subscriptions_, delivered>> /\ Standing' = Standing
      BY <2>6 DEF LoopDrained, Drained, clientVars, Standing
    <3>2. local_subscriptions_ = Standing
      <4>1. Outcome(Id, local_subscriptions_, command_queue_) = local_subscriptions_
        BY <2>0, <3>1, OutcomeOfNothing DEF SubCommand
      <4> QED
        BY <4>1 DEF AddUpInv
    <3> QED
      BY <3>1, <3>2 DEF Contract!feedVars
  <2>7. CASE LoopRecv \/ LoopFilter
    <3>1. /\ loopPc \in {"recv", "filter"} /\ loopPc' \in {"test", "filter", "deliver"}
          /\ UNCHANGED <<local_subscriptions_, delivered>> /\ Standing' = Standing
      BY <2>7 DEF LoopRecv, LoopFilter, clientVars, Standing
    <3> QED
      BY <3>1, GraceExpires DEF Grace
  <2>8. CASE LoopDeliver
    <3>1. /\ loopPc = "deliver" /\ loopPc' = "test"
          /\ local_subscriptions_' = local_subscriptions_ /\ Standing' = Standing
      BY <2>8 DEF LoopDeliver, clientVars, Standing
    <3>2. CASE delivered' = delivered
      BY <3>1, <3>2, GraceExpires DEF Grace
    <3>3. CASE delivered' = Append(delivered, <<buffer.symbol, buffer.type, buffer.payload>>)
      <4>1. buffer.symbol \in local_subscriptions_ /\ buffer.symbol \in Id
        BY <2>0, <3>1 DEF BufferInv, Subscribed
      <4>2. PICK k \in Contract!Whole : k[1] = buffer.type /\ k[2] = buffer.payload
        BY <3>1 DEF BufferInv, WellFormed, Contract!Whole
      <4>3. \E id \in Id, j \in Contract!Whole : Contract!Deliver(id, j)
        BY <3>1, <3>3, <4>1, <4>2 DEF Contract!Deliver
      <4> QED
        BY <4>3 DEF Contract!FeedNext
    <3> QED
      BY <2>8, <3>2, <3>3 DEF LoopDeliver
  <2>9. CASE (\E n \in Name, k \in Kind : Arrive(Datagram(n, k))) \/ Arrive(Short)
    BY <2>9 DEF Arrive, clientVars, Standing, Contract!feedVars
  <2>10. CASE UNCHANGED vars
    BY <2>10 DEF vars, clientVars, Standing, Contract!feedVars
  <2> QED
    BY <2>1, <2>2, <2>3, <2>4, <2>5, <2>6, <2>7, <2>8, <2>9, <2>10 DEF Next, Client, Command, Loop
<1> QED
  BY <1>1, <1>2, HandlerInvariant, PTL DEF Spec, ImplementsContract, Contract!FeedSpec
=============================================================================
