------------------------ MODULE ZmqFeedHandlerProofs ------------------------
(***************************************************************************)
(* Proofs about the ZMQ feed handler and the sockets it uses, for every    *)
(* set of names, every kind of message, every high-water mark and bound.   *)
(*                                                                         *)
(* The inductive invariant relates the counts of the SUB socket to the     *)
(* calls of the client, between the two options of a call too, and to the  *)
(* publisher's filter with the subscription messages under way; it says    *)
(* which parts of a message are left at each place of the loop, and that   *)
(* the message the loop holds is of a symbol the client still wants.       *)
(***************************************************************************)
EXTENDS ZmqFeedHandler, SubscriptionsProofs

-----------------------------------------------------------------------------
(* The inductive invariant *)

\* The parts and the messages send_impl makes.
PartRec == [no : Nat, name : Name, type : {k[1] : k \in Kind} \cup {"none"},
            payload : {k[2] : k \in Kind} \cup {"none"}]

Carried == {m \in Seq(PartRec) : /\ Len(m) \in {1, 2}
                                 /\ Len(m) = 2 => m[2].no = m[1].no}

Calling == clientPc \in {"subscribe", "unsubscribe"}

TypesInv ==
  /\ BaseTypeOK
  /\ clientPc \in {"free", "joining", "dying", "gone", "aborted"}
                 \cup {"subscribe", "unsubscribe"}
  /\ count \in [Topic -> Nat] /\ asked \in [Name -> Nat] /\ wanted \in SUBSET Name
  /\ pubFilter \in SUBSET Topic
  /\ control \in Seq(Commands(Topic))
  /\ pipe \in Seq(Carried) /\ Len(pipe) <= Hwm
  /\ rest \in Seq(PartRec) /\ Len(rest) <= 1
  /\ loopPc \in {"test", "topic", "more", "payload", "deliver"}
  /\ taken \in Nat /\ taken + Len(pipe) <= MaxMessages

\* Only a running thread is past the test of its loop, a destroyed handler has
\* none, and a call that meets one, or the end of the context, is a race.
PlaceInv ==
  /\ loopPc # "test" => receiver_thread_ = "running"
  /\ clientPc \in {"gone", "aborted"} => receiver_thread_ = "none"
  /\ Calling => symbol \in Name
  /\ Calling /\ (receiver_thread_ = "running" \/ terminated) => raced

\* The parts that are left belong to the message of topic_msg.
PairInv ==
  ~terminated =>
    /\ loopPc \in {"test", "topic", "deliver"} => Len(rest) = 0
    /\ loopPc \in {"more", "payload"} /\ Len(rest) > 0 => rest[1].no = topic_msg.no
    /\ loopPc = "payload" => Len(rest) > 0

\* The publisher will forward what the SUB socket has a subscription for.
FilterInv == Outcome(Topic, pubFilter, control) = {t \in Topic : count[t] > 0}

\* The counts of the SUB socket follow the calls of the client; between the two
\* options of a call, those of the trades are a step behind.
CountInv ==
  ~raced => \A n \in Name :
    /\ count[<<"Q", n>>] = asked[n]
    /\ ~(Calling /\ symbol = n) => count[<<"T", n>>] = asked[n]
    /\ clientPc = "subscribe" /\ symbol = n => count[<<"T", n>>] + 1 = asked[n]
    /\ clientPc = "unsubscribe" /\ symbol = n =>
         asked[n] = IF count[<<"T", n>>] > 0 THEN count[<<"T", n>>] - 1 ELSE 0

\* What is wanted are the symbols asked for and, once a call has raced with the
\* loop, every symbol the socket may still have a subscription for.
WantedInv ==
  /\ ~raced => wanted = {n \in Name : asked[n] > 0}
  /\ raced => \A t \in Topic : count[t] > 0 => t[2] \in wanted
  /\ clientPc = "subscribe" => symbol \in wanted

\* The message the loop holds matched a subscription to a symbol that is still
\* wanted; and it is whole when delivered.
HeldInv ==
  /\ loopPc \in {"more", "payload", "deliver"} =>
       /\ topic_msg \in PartRec
       /\ \E t \in Topic : t[2] \in wanted /\ Matches(t, topic_msg)
  /\ loopPc = "deliver" =>
       <<topic_msg.type, payload_msg.payload>> \in {<<"Q", "Quote">>, <<"T", "Trade">>}

SocketInv ==
  TypesInv /\ PlaceInv /\ PairInv /\ FilterInv /\ CountInv /\ WantedInv /\ HeldInv

-----------------------------------------------------------------------------
(* What a step leaves alone *)

LEMMA FilterKept ==
  ASSUME FilterInv, UNCHANGED <<count, control, pubFilter>> PROVE FilterInv'
BY DEF FilterInv, Outcome

LEMMA CallsKept ==
  ASSUME CountInv, WantedInv, UNCHANGED <<count, raced, asked, wanted, symbol>>,
         clientPc' = clientPc \/ (~Calling /\ clientPc' \notin {"subscribe", "unsubscribe"})
  PROVE  CountInv' /\ WantedInv'
<1>1. CASE clientPc' = clientPc
  BY <1>1 DEF CountInv, WantedInv, Calling
<1>2. CASE ~Calling /\ clientPc' \notin {"subscribe", "unsubscribe"}
  BY <1>2 DEF CountInv, WantedInv, Calling
<1> QED
  BY <1>1, <1>2

LEMMA PairKept ==
  ASSUME PairInv, UNCHANGED <<loopPc, rest, topic_msg>>, terminated => terminated'
  PROVE  PairInv'
BY DEF PairInv

LEMMA HeldKept ==
  ASSUME HeldInv, UNCHANGED <<wanted, loopPc, topic_msg, payload_msg>>
  PROVE  HeldInv'
BY DEF HeldInv

-----------------------------------------------------------------------------
(* The client's steps *)

LEMMA InitSocket == Init => SocketInv
<1> SUFFICES ASSUME Init PROVE SocketInv
  OBVIOUS
<1> USE DEF Init
<1>1. TypesInv
  <2>1. Len(pipe) = 0 /\ Len(rest) = 0
    OBVIOUS
  <2>2. BaseTypeOK
    <3>1. starts \in 0 .. MaxStarts
      BY StartsAssumption
    <3> QED
      BY <3>1 DEF BaseTypeOK
  <2>3. control \in Seq(Commands(Topic)) /\ pipe \in Seq(Carried) /\ rest \in Seq(PartRec)
    OBVIOUS
  <2>4. Len(pipe) <= Hwm /\ Len(rest) <= 1 /\ taken \in Nat /\ taken + Len(pipe) <= MaxMessages
    BY <2>1, HwmAssumption, CallsAssumption
  <2>5. count \in [Topic -> Nat] /\ asked \in [Name -> Nat]
    OBVIOUS
  <2> QED
    BY <2>2, <2>3, <2>4, <2>5 DEF TypesInv
<1>2. PairInv
  <2>1. Len(rest) = 0
    OBVIOUS
  <2> QED
    BY <2>1 DEF PairInv
<1>3. FilterInv
  <2>1. \A i \in 1 .. Len(control) : FALSE
    OBVIOUS
  <2>2. Outcome(Topic, pubFilter, control) = {}
    BY <2>1 DEF Outcome
  <2>3. {t \in Topic : count[t] > 0} = {}
    OBVIOUS
  <2> QED
    BY <2>2, <2>3 DEF FilterInv
<1>4. CountInv
  BY DEF CountInv, Calling, Topic
<1> QED
  BY <1>1, <1>2, <1>3, <1>4 DEF SocketInv, PlaceInv, WantedInv, HeldInv, Calling

LEMMA StartStep == ASSUME SocketInv, Start PROVE SocketInv'
<1> USE DEF SocketInv
<1>1. /\ clientPc = "free" /\ clientPc' = "free" /\ loopPc' = "test"
      /\ receiver_thread_ = "none"
      /\ UNCHANGED <<subVars, pubFilter, pipe, topic_msg, payload_msg, rest, taken,
                     delivered, clientVars, terminated>>
  BY DEF Start, start
<1>2. BaseTypeOK'
  <2>1. starts \in 0 .. MaxStarts /\ starts < MaxStarts /\ starts' = starts + 1
    BY DEF Start, start, BaseTypeOK, TypesInv
  <2>2. starts' \in 0 .. MaxStarts
    BY <2>1, StartsAssumption
  <2> QED
    BY <2>2 DEF Start, start, BaseTypeOK, TypesInv
<1>3. loopPc = "test"
  BY <1>1 DEF PlaceInv
<1>4. TypesInv'
  BY <1>1, <1>2 DEF TypesInv, subVars, clientVars
<1>5. PlaceInv'
  BY <1>1 DEF PlaceInv, Calling
<1>6. FilterInv' /\ CountInv' /\ WantedInv' /\ PairInv' /\ HeldInv'
  BY <1>1, <1>3, FilterKept, CallsKept, PairKept, HeldKept DEF subVars, clientVars
<1> QED
  BY <1>4, <1>5, <1>6

LEMMA BaseCallStep == ASSUME SocketInv, BaseCall PROVE SocketInv'
<1> USE DEF SocketInv
<1>1. UNCHANGED <<subVars, pubFilter, pipe, loopVars, clientVars, terminated>>
  BY DEF BaseCall
<1>2. /\ clientPc \in {"free", "joining", "dying"}
      /\ clientPc' \in {"free", "joining", "dying", "gone", "aborted"}
      /\ receiver_thread_' # receiver_thread_ => receiver_thread_ = "ended"
      /\ clientPc' \in {"gone", "aborted"} => receiver_thread_' = "none"
  BY DEF BaseCall, stop_request, stop_join, DestroyIdle, Destroyed, Joinable
<1>3. BaseTypeOK'
  BY DEF BaseCall, stop_request, stop_join, DestroyIdle, Joinable, BaseTypeOK, TypesInv
<1>4. TypesInv'
  BY <1>1, <1>2, <1>3 DEF TypesInv, subVars, loopVars, clientVars
<1>5. PlaceInv'
  BY <1>1, <1>2 DEF PlaceInv, Calling, subVars, loopVars, clientVars
<1>6. FilterInv' /\ PairInv' /\ HeldInv'
  BY <1>1, FilterKept, PairKept, HeldKept DEF subVars, loopVars, clientVars
<1>7. CountInv' /\ WantedInv'
  BY <1>1, <1>2, CallsKept DEF subVars, clientVars, Calling
<1> QED
  BY <1>4, <1>5, <1>6, <1>7

\* A subscription message behind the others, and the topics it leaves wanted.
LEMMA ControlAppend ==
  ASSUME SocketInv, NEW b \in BOOLEAN, NEW t \in Topic,
         control' = Append(control, [is_subscribe |-> b, symbol_id |-> t]),
         pubFilter' = pubFilter
  PROVE  /\ control' \in Seq(Commands(Topic))
         /\ Outcome(Topic, pubFilter', control')
              = IF b THEN {u \in Topic : count[u] > 0} \cup {t}
                ELSE {u \in Topic : count[u] > 0} \ {t}
<1> DEFINE c == [is_subscribe |-> b, symbol_id |-> t]
<1>1. /\ c \in Commands(Topic) /\ c.is_subscribe = b /\ c.symbol_id = t
      /\ control \in Seq(Commands(Topic)) /\ pubFilter \in SUBSET Topic
  BY DEF Commands, SocketInv, TypesInv
<1> HIDE DEF c
<1>2. Outcome(Topic, pubFilter, Append(control, c)) = Meant(Outcome(Topic, pubFilter, control), c)
  BY <1>1, OutcomeOfAppend
<1>3. control' = Append(control, c)
  BY DEF c
<1>4. Outcome(Topic, pubFilter', control') = Meant(Outcome(Topic, pubFilter, control), c)
  BY <1>2, <1>3
<1>5. control' \in Seq(Commands(Topic))
  BY <1>1, <1>3, AppendProperties
<1> QED
  BY <1>1, <1>4, <1>5 DEF Meant, SocketInv, FilterInv

\* The count of the topic changes, by one at most, and no other; the publisher
\* hears of it when it matters.
LEMMA OptionEffect ==
  ASSUME SocketInv, NEW add \in BOOLEAN, NEW t \in Topic, Option(add, t),
         pubFilter' = pubFilter
  PROVE  /\ count' \in [Topic -> Nat] /\ control' \in Seq(Commands(Topic))
         /\ \A u \in Topic : u # t => count'[u] = count[u]
         /\ count'[t] = IF add THEN count[t] + 1
                        ELSE IF count[t] > 0 THEN count[t] - 1 ELSE 0
         /\ FilterInv'
<1>1. /\ count \in [Topic -> Nat] /\ control \in Seq(Commands(Topic)) /\ count[t] \in Nat
  BY DEF SocketInv, TypesInv
<1>2. CASE add /\ count' = [count EXCEPT ![t] = @ + 1]
           /\ control' = Append(control, [is_subscribe |-> TRUE, symbol_id |-> t])
  <2>1. count[t] + 1 \in Nat /\ count[t] + 1 > 0
    BY <1>1
  <2>2. /\ count' \in [Topic -> Nat] /\ count'[t] = count[t] + 1
        /\ \A u \in Topic : u # t => count'[u] = count[u]
    BY <1>1, <1>2, <2>1
  <2>3. /\ control' \in Seq(Commands(Topic))
        /\ Outcome(Topic, pubFilter', control') = {u \in Topic : count[u] > 0} \cup {t}
    BY <1>2, ControlAppend
  <2>4. {u \in Topic : count[u] > 0} \cup {t} = {u \in Topic : count'[u] > 0}
    BY <2>1, <2>2
  <2> QED
    BY <1>2, <2>2, <2>3, <2>4 DEF FilterInv
<1>3. CASE ~add /\ count[t] > 0 /\ count' = [count EXCEPT ![t] = @ - 1]
           /\ control' = IF count[t] = 1
                           THEN Append(control, [is_subscribe |-> FALSE, symbol_id |-> t])
                           ELSE control
  <2>1. count[t] - 1 \in Nat
    BY <1>1, <1>3
  <2>2. /\ count' \in [Topic -> Nat] /\ count'[t] = count[t] - 1
        /\ \A u \in Topic : u # t => count'[u] = count[u]
    BY <1>1, <1>3, <2>1
  <2>3. CASE count[t] = 1
    <3>1. /\ control' \in Seq(Commands(Topic))
          /\ Outcome(Topic, pubFilter', control') = {u \in Topic : count[u] > 0} \ {t}
      BY <1>3, <2>3, ControlAppend
    <3>2. count'[t] = 0
      BY <2>2, <2>3
    <3>3. {u \in Topic : count[u] > 0} \ {t} = {u \in Topic : count'[u] > 0}
      BY <2>2, <3>2
    <3> QED
      BY <1>3, <2>2, <3>1, <3>3 DEF FilterInv
  <2>4. CASE count[t] # 1
    <3>1. control' = control /\ count'[t] > 0
      BY <1>1, <1>3, <2>2, <2>4
    <3>2. {u \in Topic : count[u] > 0} = {u \in Topic : count'[u] > 0}
      BY <1>3, <2>2, <3>1
    <3>3. Outcome(Topic, pubFilter', control') = Outcome(Topic, pubFilter, control)
      BY <3>1
    <3> QED
      BY <1>1, <1>3, <2>2, <3>1, <3>2, <3>3 DEF FilterInv, SocketInv
  <2> QED
    BY <2>3, <2>4
<1>4. CASE ~add /\ count[t] = 0 /\ UNCHANGED <<count, control>>
  <2>1. FilterInv'
    BY <1>4, FilterKept DEF SocketInv
  <2> QED
    BY <1>1, <1>4, <2>1
<1> QED
  BY <1>2, <1>3, <1>4 DEF Option

\* What set(subscribe) and set(unsubscribe) keep, and what they do to the count
\* when no loop is running.
LEMMA SetOptionEffect ==
  ASSUME SocketInv, NEW add \in BOOLEAN, NEW t \in Topic, SetOption(add, t)
  PROVE  /\ count' \in [Topic -> Nat] /\ control' \in Seq(Commands(Topic))
         /\ FilterInv' /\ PairInv'
         /\ raced' = (raced \/ receiver_thread_ = "running")
         /\ \A u \in Topic : count'[u] > 0 => count[u] > 0 \/ (add /\ u = t)
         /\ ~raced' =>
              /\ \A u \in Topic : u # t => count'[u] = count[u]
              /\ count'[t] = IF add THEN count[t] + 1
                             ELSE IF count[t] > 0 THEN count[t] - 1 ELSE 0
<1>1. /\ raced' = (raced \/ receiver_thread_ = "running")
      /\ UNCHANGED <<receiver_thread_, pubFilter, loopVars, terminated>>
      /\ \/ Option(add, t)
         \/ receiver_thread_ = "running" /\ UNCHANGED <<count, control>>
  BY DEF SetOption
<1>2. PairInv'
  BY <1>1, PairKept DEF loopVars, SocketInv
<1>4. CASE Option(add, t)
  <2>1. /\ count' \in [Topic -> Nat] /\ control' \in Seq(Commands(Topic)) /\ FilterInv'
        /\ \A u \in Topic : u # t => count'[u] = count[u]
        /\ count'[t] = IF add THEN count[t] + 1
                       ELSE IF count[t] > 0 THEN count[t] - 1 ELSE 0
    BY <1>1, <1>4, OptionEffect
  <2>2. \A u \in Topic : count'[u] > 0 => count[u] > 0 \/ (add /\ u = t)
    BY <2>1
  <2> QED
    BY <1>1, <1>2, <2>1, <2>2
<1>5. CASE receiver_thread_ = "running" /\ UNCHANGED <<count, control>>
  <2>1. FilterInv'
    BY <1>1, <1>5, FilterKept DEF SocketInv
  <2> QED
    BY <1>1, <1>2, <1>5, <2>1 DEF SocketInv, TypesInv
<1> QED
  BY <1>1, <1>4, <1>5

\* Outside of a call the counts are what was asked for, so that every topic with a
\* subscription is of a wanted symbol, with or without a race.
LEMMA CountedIsWanted ==
  ASSUME SocketInv, ~Calling, NEW t \in Topic, count[t] > 0
  PROVE  t[2] \in wanted
<1>1. PICK q \in {"Q", "T"}, n \in Name : t = <<q, n>>
  BY DEF Topic
<1>2. CASE raced
  BY <1>2 DEF SocketInv, WantedInv
<1>3. CASE ~raced
  <2>1. count[t] = asked[n]
    BY <1>1, <1>3 DEF SocketInv, CountInv
  <2> QED
    BY <1>1, <1>3, <2>1 DEF SocketInv, WantedInv
<1> QED
  BY <1>2, <1>3

\* The counts after the first option of a call of subscribe or unsubscribe.
LEMMA FirstOptionStep ==
  ASSUME SocketInv, NEW n \in Name, NEW add \in BOOLEAN, MayCall,
         SetOption(add, <<"Q", n>>),
         clientPc' = IF add THEN "subscribe" ELSE "unsubscribe",
         symbol' = n,
         asked' = [asked EXCEPT ![n] = IF add THEN @ + 1 ELSE IF @ > 0 THEN @ - 1 ELSE 0],
         wanted' = IF add THEN wanted \cup {n}
                   ELSE IF raced' \/ asked[n] > 1 THEN wanted ELSE wanted \ {n}
  PROVE  SocketInv'
<1> USE DEF SocketInv
<1>1. <<"Q", n>> \in Topic /\ \A m \in Name : <<"Q", m>> \in Topic /\ <<"T", m>> \in Topic
  BY DEF Topic
<1>2. /\ count' \in [Topic -> Nat] /\ control' \in Seq(Commands(Topic))
      /\ FilterInv' /\ PairInv'
      /\ raced' = (raced \/ receiver_thread_ = "running")
      /\ \A u \in Topic : count'[u] > 0 => count[u] > 0 \/ (add /\ u = <<"Q", n>>)
      /\ ~raced' =>
           /\ \A u \in Topic : u # <<"Q", n>> => count'[u] = count[u]
           /\ count'[<<"Q", n>>] = IF add THEN count[<<"Q", n>>] + 1
                                   ELSE IF count[<<"Q", n>>] > 0
                                          THEN count[<<"Q", n>>] - 1 ELSE 0
  BY <1>1, SetOptionEffect
<1>3. /\ clientPc = "free" /\ ~terminated
      /\ UNCHANGED <<receiver_thread_, stopRequested, callbacks, starts, pubFilter, pipe,
                     loopVars, terminated>>
  BY DEF MayCall, SetOption
<1>4. /\ asked \in [Name -> Nat] /\ asked[n] \in Nat /\ wanted \in SUBSET Name
  BY DEF TypesInv
<1>5. /\ asked' \in [Name -> Nat]
      /\ asked'[n] = IF add THEN asked[n] + 1 ELSE IF asked[n] > 0 THEN asked[n] - 1 ELSE 0
      /\ \A m \in Name : m # n => asked'[m] = asked[m]
  <2>1. (IF add THEN asked[n] + 1 ELSE IF asked[n] > 0 THEN asked[n] - 1 ELSE 0) \in Nat
    BY <1>4
  <2> QED
    BY <1>4, <2>1
<1>6. TypesInv'
  BY <1>2, <1>3, <1>5 DEF TypesInv, BaseTypeOK, loopVars
<1>7. PlaceInv'
  BY <1>2, <1>3 DEF PlaceInv, Calling, loopVars
<1>8. CountInv'
  <2> SUFFICES ASSUME ~raced', NEW m \in Name
               PROVE  /\ count'[<<"Q", m>>] = asked'[m]
                      /\ ~(Calling' /\ symbol' = m) => count'[<<"T", m>>] = asked'[m]
                      /\ clientPc' = "subscribe" /\ symbol' = m =>
                           count'[<<"T", m>>] + 1 = asked'[m]
                      /\ clientPc' = "unsubscribe" /\ symbol' = m =>
                           asked'[m] = IF count'[<<"T", m>>] > 0 THEN count'[<<"T", m>>] - 1
                                       ELSE 0
    BY DEF CountInv
  <2>1. /\ count[<<"Q", m>>] = asked[m] /\ count[<<"T", m>>] = asked[m]
        /\ count'[<<"T", m>>] = count[<<"T", m>>]
    BY <1>1, <1>2, <1>3 DEF CountInv, Calling
  <2>2. Calling' /\ (clientPc' = "subscribe" <=> add) /\ (clientPc' = "unsubscribe" <=> ~add)
    BY DEF Calling
  <2>3. CASE m = n
    BY <1>2, <1>5, <2>1, <2>2, <2>3
  <2>4. CASE m # n
    <3>1. <<"Q", m>> # <<"Q", n>>
      BY <2>4
    <3> QED
      BY <1>1, <1>2, <1>5, <2>1, <2>4, <3>1
  <2> QED
    BY <2>3, <2>4
<1>9. WantedInv'
  <2>1. ASSUME ~raced' PROVE wanted' = {m \in Name : asked'[m] > 0}
    <3>1. wanted = {m \in Name : asked[m] > 0}
      BY <1>2, <2>1 DEF WantedInv
    <3>2. CASE add
      <4>1. asked'[n] > 0
        BY <1>4, <1>5, <3>2
      <4> QED
        BY <1>5, <3>1, <3>2, <4>1
    <3>3. CASE ~add /\ asked[n] > 1
      <4>1. asked'[n] > 0 /\ asked[n] > 0
        BY <1>4, <1>5, <3>3
      <4>2. wanted' = wanted
        BY <3>3
      <4>3. \A m \in Name : asked'[m] > 0 <=> asked[m] > 0
        BY <1>5, <4>1
      <4> QED
        BY <3>1, <4>2, <4>3
    <3>4. CASE ~add /\ ~(asked[n] > 1)
      <4>1. ~(asked'[n] > 0)
        BY <1>4, <1>5, <3>4
      <4>2. wanted' = wanted \ {n}
        BY <2>1, <3>4
      <4> QED
        BY <1>5, <3>1, <4>1, <4>2
    <3> QED
      BY <3>2, <3>3, <3>4
  <2>2. ASSUME raced', NEW u \in Topic, count'[u] > 0 PROVE u[2] \in wanted'
    <3>1. CASE add /\ u = <<"Q", n>>
      BY <3>1
    <3>2. CASE count[u] > 0
      <4>1. u[2] \in wanted
        BY <1>3, <3>2, CountedIsWanted DEF Calling
      <4> QED
        BY <2>2, <4>1
    <3> QED
      BY <1>2, <2>2, <3>1, <3>2
  <2> QED
    BY <2>1, <2>2 DEF WantedInv
<1>10. HeldInv'
  <2>1. UNCHANGED <<loopPc, topic_msg, payload_msg>>
    BY <1>3 DEF loopVars
  <2>2. loopPc # "test" => wanted \subseteq wanted'
    BY <1>2 DEF PlaceInv
  <2> QED
    BY <2>1, <2>2 DEF HeldInv
<1> QED
  BY <1>2, <1>6, <1>7, <1>8, <1>9, <1>10

LEMMA SecondOptionStep == ASSUME SocketInv, SecondOption PROVE SocketInv'
<1> USE DEF SocketInv
<1>1. /\ Calling /\ symbol \in Name /\ SetOption(clientPc = "subscribe", <<"T", symbol>>)
      /\ clientPc' = "free" /\ UNCHANGED <<asked, wanted, calls>>
  BY DEF SecondOption, SecondAdds, t_topic, Calling, PlaceInv
<1>2. /\ <<"T", symbol>> \in Topic /\ (clientPc = "subscribe") \in BOOLEAN
      /\ \A m \in Name : <<"Q", m>> \in Topic /\ <<"T", m>> \in Topic
  BY <1>1 DEF Topic
<1>3. /\ count' \in [Topic -> Nat] /\ control' \in Seq(Commands(Topic))
      /\ FilterInv' /\ PairInv'
      /\ raced' = (raced \/ receiver_thread_ = "running")
      /\ \A u \in Topic : count'[u] > 0 =>
           count[u] > 0 \/ (clientPc = "subscribe" /\ u = <<"T", symbol>>)
      /\ ~raced' =>
           /\ \A u \in Topic : u # <<"T", symbol>> => count'[u] = count[u]
           /\ count'[<<"T", symbol>>] = IF clientPc = "subscribe" THEN count[<<"T", symbol>>] + 1
                                   ELSE IF count[<<"T", symbol>>] > 0
                                          THEN count[<<"T", symbol>>] - 1 ELSE 0
  BY <1>1, <1>2, SetOptionEffect
<1>4. UNCHANGED <<receiver_thread_, stopRequested, callbacks, starts, pubFilter, pipe,
                  loopVars, terminated>>
  BY <1>1 DEF SetOption
<1>5. TypesInv'
  BY <1>1, <1>3, <1>4 DEF TypesInv, BaseTypeOK, loopVars
<1>6. PlaceInv'
  BY <1>1, <1>4 DEF PlaceInv, Calling, loopVars
<1>7. CountInv'
  <2> SUFFICES ASSUME ~raced', NEW m \in Name
               PROVE  count'[<<"Q", m>>] = asked[m] /\ count'[<<"T", m>>] = asked[m]
    BY <1>1 DEF CountInv, Calling
  <2>1. /\ count[<<"Q", m>>] = asked[m]
        /\ m # symbol => count[<<"T", m>>] = asked[m]
        /\ m = symbol /\ clientPc = "subscribe" => count[<<"T", m>>] + 1 = asked[m]
        /\ m = symbol /\ clientPc = "unsubscribe" =>
             asked[m] = IF count[<<"T", m>>] > 0 THEN count[<<"T", m>>] - 1 ELSE 0
    BY <1>3 DEF CountInv
  <2>2. <<"Q", m>> # <<"T", symbol>>
    OBVIOUS
  <2>3. count'[<<"Q", m>>] = asked[m]
    BY <1>2, <1>3, <2>1, <2>2
  <2>4. CASE m = symbol
    BY <1>1, <1>3, <2>1, <2>3, <2>4 DEF Calling
  <2>5. CASE m # symbol
    <3>1. <<"T", m>> # <<"T", symbol>>
      BY <2>5
    <3> QED
      BY <1>2, <1>3, <2>1, <2>3, <2>5, <3>1
  <2> QED
    BY <2>4, <2>5
<1>8. WantedInv'
  <2>1. raced' <=> raced
    BY <1>1, <1>3 DEF PlaceInv
  <2>2. ASSUME raced, NEW u \in Topic, count'[u] > 0 PROVE u[2] \in wanted
    BY <1>3, <2>2 DEF WantedInv
  <2> QED
    BY <1>1, <2>1, <2>2 DEF WantedInv
<1>9. HeldInv'
  BY <1>1, <1>4, HeldKept DEF loopVars
<1> QED
  BY <1>3, <1>5, <1>6, <1>7, <1>8, <1>9

\* A call on a socket whose context is gone changes no count.  In the middle of a
\* call there has been a race already.
LEMMA SetThrowsStep == ASSUME SocketInv, SetThrows PROVE SocketInv'
<1> USE DEF SocketInv
<1>1. /\ terminated /\ clientPc' = "free"
      /\ raced' = (raced \/ receiver_thread_ = "running")
      /\ UNCHANGED <<receiver_thread_, stopRequested, callbacks, starts, count, control,
                     asked, wanted, pubFilter, pipe, loopVars, terminated>>
  BY DEF SetThrows
<1>2. TypesInv'
  BY <1>1 DEF TypesInv, BaseTypeOK, loopVars
<1>3. PlaceInv'
  BY <1>1 DEF PlaceInv, Calling, loopVars
<1>4. FilterInv' /\ PairInv' /\ HeldInv'
  BY <1>1, FilterKept, PairKept, HeldKept DEF loopVars
<1>5. CASE Calling
  <2>1. raced /\ raced'
    BY <1>1, <1>5 DEF PlaceInv
  <2>2. CountInv' /\ WantedInv'
    BY <1>1, <2>1 DEF CountInv, WantedInv
  <2> QED
    BY <1>2, <1>3, <1>4, <2>2
<1>6. CASE ~Calling
  <2>1. CountInv'
    BY <1>1, <1>6 DEF CountInv, Calling
  <2>2. \A t \in Topic : count'[t] > 0 => t[2] \in wanted'
    BY <1>1, <1>6, CountedIsWanted
  <2>3. WantedInv'
    BY <1>1, <2>2 DEF WantedInv
  <2> QED
    BY <1>2, <1>3, <1>4, <2>1, <2>3
<1> QED
  BY <1>5, <1>6


-----------------------------------------------------------------------------
(* The steps of the publisher and of the sockets *)

LEMMA ControlArrivesStep == ASSUME SocketInv, ControlArrives PROVE SocketInv'
<1> USE DEF SocketInv
<1>1. /\ control # << >> /\ control' = Tail(control)
      /\ pubFilter' = Meant(pubFilter, Head(control))
      /\ UNCHANGED <<baseVars, count, raced, pipe, loopVars, clientVars, terminated>>
  BY DEF ControlArrives, ApplyControl, Meant
<1>2. control \in Seq(Commands(Topic)) /\ pubFilter \in SUBSET Topic
  BY DEF TypesInv
<1>3. /\ Meant(pubFilter, Head(control)) \in SUBSET Topic
      /\ Outcome(Topic, Meant(pubFilter, Head(control)), Tail(control))
           = Outcome(Topic, pubFilter, control)
  BY <1>1, <1>2, OutcomeOfTail
<1>4. control' \in Seq(Commands(Topic))
  BY <1>1, <1>2, HeadTailProperties
<1>5. FilterInv'
  <2>1. Outcome(Topic, pubFilter', control') = Outcome(Topic, pubFilter, control)
    BY <1>1, <1>3
  <2> QED
    BY <1>1, <2>1 DEF FilterInv
<1>6. TypesInv'
  BY <1>1, <1>3, <1>4 DEF TypesInv, BaseTypeOK, baseVars, loopVars, clientVars
<1>7. PlaceInv'
  BY <1>1 DEF PlaceInv, Calling, baseVars, loopVars, clientVars
<1>8. CountInv' /\ WantedInv' /\ PairInv' /\ HeldInv'
  BY <1>1, CallsKept, PairKept, HeldKept DEF baseVars, loopVars, clientVars
<1> QED
  BY <1>5, <1>6, <1>7, <1>8

\* send_impl makes messages of one part or of two that belong together.
LEMMA MessageTypes ==
  ASSUME NEW n \in Name, NEW k \in Kind, piped \in Nat
  PROVE  Message(n, k) \in Carried
<1> DEFINE a == Part(n, k[1], "none")
           b == Part(n, "none", k[2])
<1>1. piped + 1 \in Nat
  OBVIOUS
<1>2. a \in PartRec /\ b \in PartRec /\ b.no = a.no
  BY <1>1 DEF Part, PartRec
<1>3. Message(n, k) = <<a>> \/ Message(n, k) = <<a, b>>
  BY DEF Message
<1> HIDE DEF a, b
<1>4. <<a>> \in Carried
  BY <1>2 DEF Carried
<1>5. <<a, b>> \in Carried
  BY <1>2 DEF Carried
<1> QED
  BY <1>3, <1>4, <1>5

LEMMA SendStep ==
  ASSUME SocketInv, NEW n \in Name, NEW k \in Kind, send_impl(n, k) PROVE SocketInv'
<1> USE DEF SocketInv
<1>1. /\ taken + Len(pipe) < MaxMessages /\ Len(pipe) < Hwm
      /\ pipe' = Append(pipe, Message(n, k))
      /\ UNCHANGED <<baseVars, subVars, pubFilter, loopVars, clientVars, terminated>>
  BY DEF send_impl, BelowMark, piped
<1>2. Len(pipe) \in Nat /\ taken \in Nat /\ pipe \in Seq(Carried)
  BY DEF TypesInv
<1>3. Message(n, k) \in Carried
  <2>1. piped \in Nat
    BY <1>2 DEF piped
  <2> QED
    BY <2>1, MessageTypes
<1>4. pipe' \in Seq(Carried) /\ Len(pipe') = Len(pipe) + 1
  BY <1>1, <1>2, <1>3, AppendProperties
<1>5. Len(pipe') <= Hwm /\ taken' = taken /\ taken + Len(pipe') <= MaxMessages
  BY <1>1, <1>2, <1>4, HwmAssumption, CallsAssumption DEF loopVars
<1>6. TypesInv'
  BY <1>1, <1>4, <1>5 DEF TypesInv, BaseTypeOK, baseVars, subVars, loopVars, clientVars
<1>7. PlaceInv'
  BY <1>1 DEF PlaceInv, Calling, baseVars, subVars, loopVars, clientVars
<1>8. FilterInv' /\ CountInv' /\ WantedInv' /\ PairInv' /\ HeldInv'
  BY <1>1, FilterKept, CallsKept, PairKept, HeldKept DEF baseVars, subVars, loopVars, clientVars
<1> QED
  BY <1>6, <1>7, <1>8

LEMMA TerminateStep == ASSUME SocketInv, Terminate PROVE SocketInv'
<1> USE DEF SocketInv
<1>1. /\ terminated' = TRUE /\ receiver_thread_ = "running"
      /\ UNCHANGED <<baseVars, subVars, pubFilter, pipe, loopVars, clientVars>>
  BY DEF Terminate
<1>2. TypesInv'
  BY <1>1 DEF TypesInv, BaseTypeOK, baseVars, subVars, loopVars, clientVars
<1>3. PlaceInv'
  BY <1>1 DEF PlaceInv, Calling, baseVars, subVars, loopVars, clientVars
<1>4. FilterInv' /\ CountInv' /\ WantedInv' /\ HeldInv'
  BY <1>1, FilterKept, CallsKept, HeldKept DEF baseVars, subVars, loopVars, clientVars
<1>5. PairInv'
  BY <1>1 DEF PairInv
<1> QED
  BY <1>2, <1>3, <1>4, <1>5

-----------------------------------------------------------------------------
(* The steps of the loop *)

\* A step of the loop that takes nothing from the pipe.
LEMMA SocketsKept ==
  ASSUME SocketInv, BaseTypeOK', clientPc' = clientPc,
         loopPc' # "test" => receiver_thread_' = "running",
         receiver_thread_' \in {receiver_thread_, "ended"}, receiver_thread_ = "running",
         loopPc' \in {"test", "topic", "more", "payload", "deliver"},
         rest' \in Seq(PartRec), Len(rest') <= 1,
         pipe' \in Seq(Carried), Len(pipe') <= Hwm, taken' \in Nat,
         taken' + Len(pipe') <= MaxMessages,
         UNCHANGED <<subVars, pubFilter, clientVars>>
  PROVE  TypesInv' /\ PlaceInv' /\ FilterInv' /\ CountInv' /\ WantedInv'
<1> USE DEF SocketInv
<1>1. TypesInv'
  BY DEF TypesInv, subVars, clientVars
<1>2. PlaceInv'
  BY DEF PlaceInv, Calling, subVars, clientVars
<1> QED
  BY <1>1, <1>2, FilterKept, CallsKept DEF subVars, clientVars

LEMMA LoopTestStep == ASSUME SocketInv, LoopTest PROVE SocketInv'
<1> USE DEF SocketInv
<1>1. /\ loopPc = "test" /\ loopPc' \in {"test", "topic"} /\ receiver_thread_ = "running"
      /\ loopPc' # "test" => receiver_thread_' = "running"
      /\ receiver_thread_' \in {receiver_thread_, "ended"} /\ clientPc' = clientPc
      /\ UNCHANGED <<unseen, pipe, topic_msg, payload_msg, rest, taken, delivered>>
  BY DEF LoopTest, EndThread, baseVars
<1>2. BaseTypeOK'
  BY DEF LoopTest, EndThread, baseVars, BaseTypeOK, TypesInv
<1>3. TypesInv' /\ PlaceInv' /\ FilterInv' /\ CountInv' /\ WantedInv'
  BY <1>1, <1>2, SocketsKept DEF TypesInv, unseen
<1>4. PairInv'
  BY <1>1 DEF PairInv, unseen
<1>5. HeldInv'
  BY <1>1 DEF HeldInv
<1> QED
  BY <1>3, <1>4, <1>5

\* The first message of the pipe, taken out.
LEMMA PipeTail ==
  ASSUME SocketInv, pipe # << >>
  PROVE  /\ Head(pipe) \in Carried /\ Tail(pipe) \in Seq(Carried)
         /\ Len(Tail(pipe)) <= Hwm /\ taken + 1 \in Nat
         /\ taken + 1 + Len(Tail(pipe)) <= MaxMessages
<1>1. pipe \in Seq(Carried) /\ taken \in Nat /\ taken + Len(pipe) <= MaxMessages
      /\ Len(pipe) <= Hwm
  BY DEF SocketInv, TypesInv
<1>2. /\ Head(pipe) \in Carried /\ Tail(pipe) \in Seq(Carried)
      /\ Len(Tail(pipe)) = Len(pipe) - 1 /\ Len(pipe) \in Nat
  BY <1>1, HeadTailProperties
<1>3. Len(Tail(pipe)) <= Hwm /\ taken + 1 \in Nat /\ taken + 1 + Len(Tail(pipe)) <= MaxMessages
  BY <1>1, <1>2, HwmAssumption, CallsAssumption
<1> QED
  BY <1>2, <1>3

LEMMA RecvSkipsStep == ASSUME SocketInv, RecvSkips PROVE SocketInv'
<1> USE DEF SocketInv
<1>1. /\ loopPc \in {"topic", "payload"} /\ loopPc' = loopPc /\ pipe # << >>
      /\ pipe' = Tail(pipe) /\ taken' = taken + 1
      /\ UNCHANGED <<baseVars, unseen, topic_msg, payload_msg, rest, delivered>>
  BY DEF RecvSkips
<1>2. TypesInv' /\ PlaceInv' /\ FilterInv' /\ CountInv' /\ WantedInv'
  BY <1>1, PipeTail, SocketsKept DEF TypesInv, PlaceInv, BaseTypeOK, baseVars, unseen
<1>3. PairInv' /\ HeldInv'
  BY <1>1, PairKept, HeldKept DEF unseen, clientVars
<1> QED
  BY <1>2, <1>3

LEMMA RecvNothingStep == ASSUME SocketInv, RecvNothing PROVE SocketInv'
<1> USE DEF SocketInv
<1>1. /\ loopPc \in {"topic", "payload"} /\ loopPc' = "test" /\ Len(rest) = 0
      /\ UNCHANGED <<baseVars, unseen, pipe, payload_msg, rest, taken, delivered>>
  BY DEF RecvNothing
<1>2. TypesInv' /\ PlaceInv' /\ FilterInv' /\ CountInv' /\ WantedInv'
  BY <1>1, SocketsKept DEF TypesInv, PlaceInv, BaseTypeOK, baseVars, unseen
<1>3. PairInv' /\ HeldInv'
  BY <1>1 DEF PairInv, HeldInv
<1> QED
  BY <1>2, <1>3

LEMMA LoopTopicStep == ASSUME SocketInv, LoopTopic PROVE SocketInv'
<1> USE DEF SocketInv
<1> DEFINE m == Head(pipe)
<1>1. /\ loopPc = "topic" /\ loopPc' = "more" /\ ~terminated /\ Len(rest) = 0
      /\ UNCHANGED <<baseVars, unseen, payload_msg, delivered>>
  BY DEF LoopTopic, Recv, PairInv
<1>2. rest = << >>
  BY <1>1, EmptySeq DEF TypesInv
<1>3. /\ pipe # << >> /\ Passes(m) /\ rest' = Tail(m) /\ pipe' = Tail(pipe)
      /\ taken' = taken + 1 /\ topic_msg' = Head(m)
  BY <1>2 DEF LoopTopic, Recv, NextPart
<1>4. m \in Carried
  BY <1>3, PipeTail
<1> HIDE DEF m
<1>5. /\ m \in Seq(PartRec) /\ Len(m) \in {1, 2}
      /\ Len(m) = 2 => m[2].no = m[1].no
  BY <1>4 DEF Carried
<1>6. m # << >>
  BY <1>5
<1>7. /\ Tail(m) \in Seq(PartRec) /\ Head(m) = m[1] /\ m[1] \in PartRec
      /\ Len(Tail(m)) = Len(m) - 1
      /\ \A i \in 1 .. Len(m) - 1 : Tail(m)[i] = m[i + 1]
  BY <1>5, <1>6, HeadTailProperties
<1>8. Len(rest') \in {0, 1} /\ (Len(rest') > 0 => rest'[1].no = topic_msg'.no)
  <2>1. CASE Len(m) = 1
    <3>1. Len(rest') = 0
      BY <1>3, <1>7, <2>1
    <3> QED
      BY <3>1
  <2>2. CASE Len(m) = 2
    <3>1. Len(Tail(m)) = 1
      BY <1>7, <2>2
    <3>2. Tail(m)[1] = m[2]
      <4>1. 1 \in 1 .. Len(m) - 1 /\ 1 + 1 = 2
        BY <2>2
      <4> QED
        BY <1>7, <4>1
    <3> QED
      BY <1>3, <1>5, <1>7, <2>2, <3>1, <3>2
  <2> QED
    BY <1>5, <2>1, <2>2
<1>9. TypesInv' /\ PlaceInv' /\ FilterInv' /\ CountInv' /\ WantedInv'
  <2>1. rest' \in Seq(PartRec) /\ Len(rest') <= 1
    BY <1>3, <1>7, <1>8
  <2>2. receiver_thread_ = "running" /\ receiver_thread_' = "running" /\ BaseTypeOK'
    BY <1>1 DEF PlaceInv, TypesInv, BaseTypeOK, baseVars
  <2>3. pipe' \in Seq(Carried) /\ Len(pipe') <= Hwm /\ taken' \in Nat
        /\ taken' + Len(pipe') <= MaxMessages
    BY <1>3, PipeTail
  <2> QED
    BY <1>1, <2>1, <2>2, <2>3, SocketsKept DEF baseVars, unseen
<1>10. PairInv'
  BY <1>1, <1>8 DEF PairInv
<1>11. HeldInv'
  <2>1. topic_msg' = m[1] /\ wanted' = wanted
    BY <1>1, <1>3, <1>7 DEF unseen, clientVars
  <2>2. PICK t \in Topic : count[t] > 0 /\ Matches(t, m[1])
    BY <1>3 DEF Passes
  <2>3. t[2] \in wanted
    <3>1. CASE Calling
      BY <1>1, <2>2, <3>1 DEF PlaceInv, WantedInv
    <3> QED
      BY <2>2, <3>1, CountedIsWanted
  <2> QED
    BY <1>1, <1>7, <2>1, <2>2, <2>3 DEF HeldInv
<1> QED
  BY <1>9, <1>10, <1>11

LEMMA LoopMoreStep == ASSUME SocketInv, LoopMore PROVE SocketInv'
<1> USE DEF SocketInv
<1>1. /\ loopPc = "more" /\ ~terminated
      /\ loopPc' = IF rest # << >> THEN "payload" ELSE "test"
      /\ loopPc' = "payload" => topic_msg' = topic_msg
      /\ UNCHANGED <<baseVars, unseen, pipe, payload_msg, rest, taken, delivered>>
  BY DEF LoopMore, RcvMore
<1>2. TypesInv' /\ PlaceInv' /\ FilterInv' /\ CountInv' /\ WantedInv'
  BY <1>1, SocketsKept DEF TypesInv, PlaceInv, BaseTypeOK, baseVars, unseen
<1>3. Len(rest) \in Nat /\ (rest # << >> <=> Len(rest) > 0)
  BY EmptySeq DEF TypesInv
<1>4. PairInv'
  <2>1. loopPc' = "payload" => Len(rest') > 0 /\ rest'[1].no = topic_msg'.no
    BY <1>1, <1>3 DEF PairInv
  <2>2. loopPc' = "test" => Len(rest') = 0
    BY <1>1, <1>3
  <2> QED
    BY <1>1, <2>1, <2>2 DEF PairInv
<1>5. HeldInv'
  BY <1>1 DEF HeldInv, unseen, clientVars
<1> QED
  BY <1>2, <1>4, <1>5

LEMMA LoopPayloadStep == ASSUME SocketInv, LoopPayload PROVE SocketInv'
<1> USE DEF SocketInv
<1>1. /\ loopPc = "payload" /\ ~terminated /\ Len(rest) > 0
      /\ UNCHANGED <<baseVars, unseen, delivered>>
  BY DEF LoopPayload, Recv, PairInv
<1>2. rest # << >> /\ rest \in Seq(PartRec) /\ Len(rest) <= 1
  BY <1>1 DEF TypesInv
<1>3. rest' = Tail(rest) /\ UNCHANGED <<pipe, taken>>
  BY <1>2 DEF LoopPayload, Recv
<1>4. rest' \in Seq(PartRec) /\ Len(rest') = Len(rest) - 1 /\ Len(rest) \in Nat
  BY <1>2, <1>3, HeadTailProperties
<1>5. Len(rest') = 0
  BY <1>1, <1>2, <1>4
<1>6. /\ loopPc' \in {"test", "deliver"}
      /\ loopPc' = "deliver" =>
           /\ topic_msg' = topic_msg
           /\ <<topic_msg.type, payload_msg'.payload>> \in {<<"Q", "Quote">>, <<"T", "Trade">>}
  BY DEF LoopPayload
<1>7. TypesInv' /\ PlaceInv' /\ FilterInv' /\ CountInv' /\ WantedInv'
  <2>1. receiver_thread_ = "running" /\ receiver_thread_' = "running" /\ BaseTypeOK'
    BY <1>1 DEF PlaceInv, TypesInv, BaseTypeOK, baseVars
  <2>2. Len(rest') <= 1
    BY <1>5
  <2> QED
    BY <1>1, <1>3, <1>4, <1>6, <2>1, <2>2, SocketsKept DEF TypesInv, baseVars, unseen
<1>8. PairInv'
  BY <1>5, <1>6 DEF PairInv
<1>9. HeldInv'
  BY <1>1, <1>6 DEF HeldInv, unseen, clientVars
<1> QED
  BY <1>7, <1>8, <1>9

LEMMA LoopDeliverStep == ASSUME SocketInv, LoopDeliver PROVE SocketInv'
<1> USE DEF SocketInv
<1>1. /\ loopPc = "deliver" /\ loopPc' = "test"
      /\ UNCHANGED <<baseVars, unseen, pipe, rest, taken>>
  BY DEF LoopDeliver
<1>2. TypesInv' /\ PlaceInv' /\ FilterInv' /\ CountInv' /\ WantedInv'
  BY <1>1, SocketsKept DEF TypesInv, PlaceInv, BaseTypeOK, baseVars, unseen
<1>3. PairInv' /\ HeldInv'
  BY <1>1 DEF PairInv, HeldInv, unseen
<1> QED
  BY <1>2, <1>3

LEMMA LoopTermStep == ASSUME SocketInv, LoopTerm PROVE SocketInv'
<1> USE DEF SocketInv
<1>1. /\ loopPc # "test" /\ loopPc' = "test" /\ terminated /\ receiver_thread_' = "ended"
      /\ clientPc' = clientPc
      /\ UNCHANGED <<unseen, pipe, payload_msg, rest, taken, delivered>>
  BY DEF LoopTerm, EndThread, InSocket
<1>2. BaseTypeOK'
  BY DEF LoopTerm, EndThread, BaseTypeOK, TypesInv
<1>3. TypesInv' /\ PlaceInv' /\ FilterInv' /\ CountInv' /\ WantedInv'
  BY <1>1, <1>2, SocketsKept DEF TypesInv, PlaceInv, unseen
<1>4. PairInv' /\ HeldInv'
  BY <1>1 DEF PairInv, HeldInv, unseen
<1> QED
  BY <1>3, <1>4

-----------------------------------------------------------------------------
(* Theorems *)

LEMMA SocketNext == SocketInv /\ [Next]_vars => SocketInv'
<1> SUFFICES ASSUME SocketInv, [Next]_vars PROVE SocketInv'
  OBVIOUS
<1>1. CASE Start
  BY <1>1, StartStep
<1>2. CASE BaseCall
  BY <1>2, BaseCallStep
<1>3. ASSUME NEW n \in Name, subscribe(n) PROVE SocketInv'
  <2>1. /\ MayCall /\ SetOption(TRUE, <<"Q", n>>) /\ clientPc' = "subscribe" /\ symbol' = n
        /\ asked' = [asked EXCEPT ![n] = @ + 1] /\ wanted' = wanted \cup {n}
    BY <1>3 DEF subscribe, q_topic
  <2> QED
    BY <2>1, FirstOptionStep
<1>4. ASSUME NEW n \in Name, unsubscribe(n) PROVE SocketInv'
  <2>1. /\ MayCall /\ SetOption(FALSE, <<"Q", n>>) /\ clientPc' = "unsubscribe" /\ symbol' = n
        /\ asked' = [asked EXCEPT ![n] = IF @ > 0 THEN @ - 1 ELSE 0]
        /\ wanted' = IF raced' \/ asked[n] > 1 THEN wanted ELSE wanted \ {n}
    BY <1>4 DEF unsubscribe, q_topic
  <2> QED
    BY <2>1, FirstOptionStep
<1>5. CASE SecondOption \/ SetThrows
  BY <1>5, SecondOptionStep, SetThrowsStep
<1>6. CASE ControlArrives \/ Terminate
  BY <1>6, ControlArrivesStep, TerminateStep
<1>7. CASE \E n \in Name, k \in Kind : send_impl(n, k)
  BY <1>7, SendStep
<1>8. CASE Loop
  BY <1>8, LoopTestStep, RecvSkipsStep, RecvNothingStep, LoopTopicStep, LoopMoreStep,
     LoopPayloadStep, LoopDeliverStep, LoopTermStep DEF Loop
<1>9. CASE UNCHANGED vars
  <2> USE DEF SocketInv, vars, baseVars, subVars, loopVars, clientVars
  <2>1. TypesInv'
    BY <1>9 DEF TypesInv, BaseTypeOK
  <2>2. PlaceInv'
    BY <1>9 DEF PlaceInv, Calling
  <2>3. FilterInv' /\ CountInv' /\ WantedInv' /\ PairInv' /\ HeldInv'
    BY <1>9, FilterKept, CallsKept, PairKept, HeldKept
  <2> QED
    BY <2>1, <2>2, <2>3
<1> QED
  BY <1>1, <1>2, <1>3, <1>4, <1>5, <1>6, <1>7, <1>8, <1>9 DEF Next, Client

\* The inductive invariant holds in every state handler and sockets can reach.
THEOREM SocketInvariant == Spec => []SocketInv
BY InitSocket, SocketNext, PTL DEF Spec

\* The state of the handler keeps its types, the pipe stays at or below its
\* high-water mark and at most one part of a message is left to receive.
THEOREM SocketTypeCorrect == Spec => []TypeOK
<1>1. SocketInv => TypeOK
  BY DEF SocketInv, TypesInv, TypeOK, piped
<1> QED
  BY <1>1, SocketInvariant, PTL

\* The loop never takes a topic for a payload: a round starts with the first part
\* of a message, and the payload it receives is the second part of the same one.
THEOREM PartsStayPaired == Spec => []PartsPaired
<1>1. SocketInv => PartsPaired
  <2> SUFFICES ASSUME SocketInv, ~terminated
               PROVE  /\ loopPc \in {"test", "topic"} => rest = << >>
                      /\ loopPc = "payload" => rest # << >> /\ Head(rest).no = topic_msg.no
    BY DEF PartsPaired
  <2>1. rest \in Seq(PartRec)
    BY DEF SocketInv, TypesInv
  <2>2. ASSUME loopPc \in {"test", "topic"} PROVE rest = << >>
    <3>1. Len(rest) = 0
      BY <2>2 DEF SocketInv, PairInv
    <3> QED
      BY <2>1, <3>1, EmptySeq
  <2>3. ASSUME loopPc = "payload" PROVE rest # << >> /\ Head(rest).no = topic_msg.no
    <3>1. Len(rest) > 0 /\ rest[1].no = topic_msg.no
      BY <2>3 DEF SocketInv, PairInv
    <3>2. rest # << >> /\ Head(rest) = rest[1]
      BY <2>1, <3>1
    <3> QED
      BY <3>1, <3>2
  <2> QED
    BY <2>2, <2>3
<1> QED
  BY <1>1, SocketInvariant, PTL

\* The destructor closes the socket only when the loop has ended.
THEOREM SocketClosedUnused == Spec => []ClosedUnused
<1>1. SocketInv => ClosedUnused
  BY DEF SocketInv, PlaceInv, ClosedUnused, InSocket
<1> QED
  BY <1>1, SocketInvariant, PTL

\* A client that keeps off the socket of a running loop gets exactly the quotes and
\* the trades of the symbols it asked for, however often it subscribed, withdrew
\* and subscribed again, once the subscription messages under way have arrived.
THEOREM FilterAddsUp == Spec => []SubscriptionsAddUp
<1>1. SocketInv => SubscriptionsAddUp
  <2> SUFFICES ASSUME SocketInv, ~raced, ~Calling
               PROVE  Outcome(Topic, pubFilter, control)
                        = {"Q", "T"} \X {n \in Name : asked[n] > 0}
    BY DEF SubscriptionsAddUp, Calling
  <2>1. \A n \in Name : count[<<"Q", n>>] = asked[n] /\ count[<<"T", n>>] = asked[n]
    BY DEF SocketInv, CountInv
  <2>2. ASSUME NEW t \in Topic
        PROVE  t \in {u \in Topic : count[u] > 0}
                 <=> t \in {"Q", "T"} \X {n \in Name : asked[n] > 0}
    <3>1. PICK q \in {"Q", "T"}, n \in Name : t = <<q, n>>
      BY DEF Topic
    <3>2. count[t] = asked[n]
      BY <2>1, <3>1
    <3> QED
      BY <3>1, <3>2
  <2>3. {"Q", "T"} \X {n \in Name : asked[n] > 0} \subseteq Topic
    BY DEF Topic
  <2>4. {u \in Topic : count[u] > 0} = {"Q", "T"} \X {n \in Name : asked[n] > 0}
    BY <2>2, <2>3
  <2> QED
    BY <2>4 DEF SocketInv, FilterInv
<1> QED
  BY <1>1, SocketInvariant, PTL

-----------------------------------------------------------------------------
(* The contract of the interface *)

\* When no name begins the field of another, the ZMQ handler and its sockets
\* implement the contract of a feed handler: the client is given whole messages
\* of the names it subscribed to, also when it used the socket of a running loop,
\* and none after a withdrawal that counts.
THEOREM SocketKeepsContract ==
  ASSUME \A a, b \in Name : IsPrefix(a, symbol_field(b)) => a = b
  PROVE  Spec => ImplementsContract
<1>1. Init => Contract!FeedInit
  BY DEF Init, Contract!FeedInit
<1>2. SocketInv /\ [Next]_vars => [Contract!FeedNext]_(Contract!feedVars)
  <2> SUFFICES ASSUME SocketInv, [Next]_vars
               PROVE  Contract!FeedNext \/ UNCHANGED Contract!feedVars
    OBVIOUS
  <2> USE DEF SocketInv
  <2>1. ASSUME wanted' = wanted, delivered' = delivered
        PROVE  UNCHANGED Contract!feedVars
    BY <2>1 DEF Contract!feedVars
  <2>2. ASSUME NEW n \in Name, subscribe(n) PROVE Contract!FeedNext
    <3>1. wanted' = wanted \cup {n} /\ delivered' = delivered
      BY <2>2 DEF subscribe, SetOption, loopVars
    <3>2. Contract!Subscribe(n)
      BY <3>1 DEF Contract!Subscribe
    <3> QED
      BY <3>2 DEF Contract!FeedNext
  <2>3. ASSUME NEW n \in Name, unsubscribe(n)
        PROVE  Contract!FeedNext \/ UNCHANGED Contract!feedVars
    <3>1. wanted' \in {wanted, wanted \ {n}} /\ delivered' = delivered
      BY <2>3 DEF unsubscribe, SetOption, loopVars
    <3>2. CASE wanted' = wanted \ {n}
      <4>1. Contract!Unsubscribe(n)
        BY <3>1, <3>2 DEF Contract!Unsubscribe
      <4> QED
        BY <4>1 DEF Contract!FeedNext
    <3> QED
      BY <2>1, <3>1, <3>2
  <2>4. CASE LoopDeliver
    <3>1. loopPc = "deliver" /\ wanted' = wanted
      BY <2>4 DEF LoopDeliver, unseen, clientVars
    <3>2. CASE delivered' = delivered
      BY <2>1, <3>1, <3>2
    <3>3. CASE delivered' = Append(delivered, <<topic_msg.name, topic_msg.type,
                                                payload_msg.payload>>)
      <4>1. topic_msg.name \in Name
        BY <3>1 DEF HeldInv, PartRec
      <4>2. topic_msg.name \in wanted
        <5>1. PICK t \in Topic : t[2] \in wanted /\ Matches(t, topic_msg)
          BY <3>1 DEF HeldInv
        <5>2. PICK q \in {"Q", "T"}, n \in Name : t = <<q, n>>
          BY DEF Topic
        <5>3. n = topic_msg.name
          BY <4>1, <5>1, <5>2 DEF Matches
        <5> QED
          BY <5>1, <5>2, <5>3
      <4>3. PICK k \in Contract!Whole : k[1] = topic_msg.type /\ k[2] = payload_msg.payload
        BY <3>1 DEF HeldInv, Contract!Whole
      <4>4. Contract!Deliver(topic_msg.name, k)
        BY <3>1, <3>3, <4>2, <4>3 DEF Contract!Deliver
      <4> QED
        BY <4>1, <4>4 DEF Contract!FeedNext
    <3> QED
      BY <2>4, <3>2, <3>3 DEF LoopDeliver
  <2>5. CASE Start \/ BaseCall \/ SecondOption \/ SetThrows \/ ControlArrives \/ Terminate
    BY <2>1, <2>5 DEF Start, BaseCall, SecondOption, SetOption, SetThrows, ControlArrives,
                      Terminate, loopVars, clientVars
  <2>6. CASE \E n \in Name, k \in Kind : send_impl(n, k)
    BY <2>1, <2>6 DEF send_impl, loopVars, clientVars
  <2>7. CASE Loop /\ ~LoopDeliver
    <3>1. wanted' = wanted /\ delivered' = delivered
      BY <2>7 DEF Loop, LoopTest, RecvSkips, RecvNothing, LoopTopic, LoopMore, LoopPayload,
                  LoopTerm, unseen, clientVars
    <3> QED
      BY <2>1, <3>1
  <2>8. CASE UNCHANGED vars
    BY <2>1, <2>8 DEF vars, loopVars, clientVars
  <2> QED
    BY <2>2, <2>3, <2>4, <2>5, <2>6, <2>7, <2>8 DEF Next, Client
<1> QED
  BY <1>1, <1>2, SocketInvariant, PTL DEF Spec, ImplementsContract, Contract!FeedSpec
=============================================================================
