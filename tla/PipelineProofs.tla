--------------------------- MODULE PipelineProofs ---------------------------
(***************************************************************************)
(* Proofs about Pipeline for every capacity of the queue and the network,  *)
(* every width of the time stamps that holds the clock, and every number   *)
(* of messages, whichever step of main throws.                             *)
(***************************************************************************)
EXTENDS Pipeline, SequenceTheorems, TLAPS

-----------------------------------------------------------------------------
(* The inductive invariant, in three layers *)

\* The order in which main builds, and unwinding destroys from the end.
BuildOrder == <<"queue", "disseminator", "feedhandler", "monitor", "generator">>

\* What is built is an initial part of BuildOrder; while main goes along the Plan,
\* the part is given by its position.
MainInv ==
  /\ phase \in {"options", "dispatch", "go", "join", "unwind", "done", "abort"}
  /\ step \in 1 .. 14
  /\ built \in Seq(Object) /\ Len(built) <= 5
  /\ \A i \in 1 .. Len(built) : built[i] = BuildOrder[i]
  /\ phase \in {"options", "dispatch"} => step = 1 /\ Len(built) = 0
  /\ phase \in {"go", "join"} => Len(built) = IF step <= 5 THEN step - 1 ELSE 5
  /\ phase = "join" => step \in 11 .. 13
  /\ phase \in {"done", "abort"} => Len(built) = 0

\* A thread exists only between its start and its stop, or while the
\* destructor that stops it is still to come; the generator's is never left to
\* a destructor, and nothing is generated before it is started.
ThreadInv ==
  /\ thread \in [Worker -> {"none", "running", "ended"}]
  /\ pc \in [Worker -> {"test", "run", "hold"}]
  /\ stopping \subseteq Worker
  /\ \A w \in Worker : thread[w] # "running" => pc[w] = "test"
  /\ thread["generator"] # "none" => step = 11 /\ phase \in {"go", "join"}
  /\ thread["disseminator"] # "none" => step \in 10 .. 12 /\ Len(built) >= 2
  /\ thread["feedhandler"] # "none" => step \in 8 .. 13 /\ Len(built) >= 3
  /\ step > 10 /\ phase \notin {"go", "join"} =>
       \A w \in Worker : thread[w] = "none"
  /\ step <= 10 => made = 0

PlaceInv == MainInv /\ ThreadInv

\* The values of the message variables, and of a record.
Msg == [no : Nat, enqueue_timestamp : Nat, disseminate_timestamp : Nat]
Rec == [no : Nat, queue_ns : Nat, network_ns : Nat, total_ns : Nat]

DataTypes ==
  /\ made \in Nat /\ made <= MaxMessages /\ now \in Nat /\ now <= MaxTime
  /\ genMsg \in Msg /\ disMsg \in Msg /\ recvMsg \in Msg
  /\ queue \in Seq(Msg) /\ Len(queue) <= QueueCapacity
  /\ net \in Seq(Msg) /\ Len(net) <= NetCapacity
  /\ records \in Seq(Rec)

\* The numbers of the messages in a sequence, and at each stage of their way.
Numbers(q) == {q[i].no : i \in 1 .. Len(q)}

AtGenerator    == IF pc["generator"] = "hold" THEN {genMsg.no} ELSE {}
AtQueue        == Numbers(queue)
AtDisseminator == IF pc["disseminator"] = "hold" THEN {disMsg.no} ELSE {}
AtNet          == Numbers(net)
AtFeedHandler  == IF pc["feedhandler"] = "hold" THEN {recvMsg.no} ELSE {}
AtMonitor      == Numbers(records)

Before(S, T) == \A m \in S, n \in T : m < n

Increasing(q) == \A i, j \in 1 .. Len(q) : i < j => q[i].no < q[j].no

\* A message is older than all the messages at an earlier stage, and the two
\* buffers hold theirs in order.
OrderInv ==
  /\ AtGenerator \subseteq {made}
  /\ AtGenerator \cup AtQueue \cup AtDisseminator \cup AtNet \cup AtFeedHandler
       \cup AtMonitor \subseteq 1 .. made
  /\ Before(AtQueue, AtGenerator)
  /\ Before(AtDisseminator, AtGenerator \cup AtQueue)
  /\ Before(AtNet, AtGenerator \cup AtQueue \cup AtDisseminator)
  /\ Before(AtFeedHandler, AtGenerator \cup AtQueue \cup AtDisseminator \cup AtNet)
  /\ Before(AtMonitor, AtGenerator \cup AtQueue \cup AtDisseminator \cup AtNet
                         \cup AtFeedHandler)
  /\ Increasing(queue) /\ Increasing(net)

\* The youngest number that has left the generator.
Newest == IF pc["generator"] = "hold" THEN made - 1 ELSE made

\* As long as nothing has been given up, the queue holds the youngest messages
\* without a gap, and the disseminator the one before them.
GaplessInv ==
  "generator" \notin stopping =>
    /\ \A i \in 1 .. Len(queue) : queue[i].no = Newest - Len(queue) + i
    /\ pc["disseminator"] = "hold" => disMsg.no = Newest - Len(queue)

FlowInv == DataTypes /\ OrderInv

\* Time stamps are set in the order of the stages, from the one clock.
Stamped3(m) == /\ m.enqueue_timestamp <= m.disseminate_timestamp
               /\ m.disseminate_timestamp <= now

StampInv ==
  /\ genMsg.enqueue_timestamp <= now /\ disMsg.enqueue_timestamp <= now
  /\ \A i \in 1 .. Len(queue) : queue[i].enqueue_timestamp <= now
  /\ \A i \in 1 .. Len(net) : Stamped3(net[i])
  /\ Stamped3(recvMsg)
  /\ LatenciesAreTrue

\* The sockets and the records, while main builds and unwinds.
EndInv ==
  /\ Len(built) < 4 => saved = records
  /\ open \subseteq {"disseminator", "feedhandler"}
  /\ "disseminator" \in open => Len(built) >= 2
  /\ "feedhandler" \in open =>
       Len(built) >= 3 \/ (step = 3 /\ phase \in {"unwind", "done"})

-----------------------------------------------------------------------------
(* The Plan *)

LEMMA PlanSteps ==
  /\ Len(Plan) = 13
  /\ Plan[1] = <<"build", "queue">> /\ Plan[2] = <<"build", "disseminator">>
  /\ Plan[3] = <<"build", "feedhandler">> /\ Plan[4] = <<"build", "monitor">>
  /\ Plan[5] = <<"build", "generator">> /\ Plan[6] = <<"configure", "generator">>
  /\ Plan[7] = <<"start", "feedhandler">> /\ Plan[8] = <<"subscribe", "feedhandler">>
  /\ Plan[9] = <<"start", "disseminator">> /\ Plan[10] = <<"start", "generator">>
  /\ Plan[11] = <<"stop", "generator">> /\ Plan[12] = <<"stop", "disseminator">>
  /\ Plan[13] = <<"stop", "feedhandler">>
  BY DEF Plan, DispatchSteps, BenchmarkSteps

LEMMA BuildOrderIs ==
  /\ BuildOrder[1] = "queue" /\ BuildOrder[2] = "disseminator"
  /\ BuildOrder[3] = "feedhandler" /\ BuildOrder[4] = "monitor"
  /\ BuildOrder[5] = "generator"
  BY DEF BuildOrder

\* A sequence without its last element.
LEMMA FrontFacts ==
  ASSUME NEW S, NEW q \in Seq(S), q # << >>
  PROVE  /\ Len(q) \in Nat \ {0} /\ Last(q) = q[Len(q)]
         /\ Front(q) \in Seq(S) /\ Len(Front(q)) = Len(q) - 1
         /\ \A i \in 1 .. Len(q) - 1 : Front(q)[i] = q[i]
<1>1. Len(q) \in Nat \ {0}
  OBVIOUS
<1>2. /\ SubSeq(q, 1, Len(q) - 1) \in Seq(S)
      /\ Len(SubSeq(q, 1, Len(q) - 1)) = Len(q) - 1
      /\ \A i \in 1 .. Len(q) - 1 : SubSeq(q, 1, Len(q) - 1)[i] = q[i]
  <2>1. \A i \in 1 .. Len(q) - 1 : q[i] \in S
    OBVIOUS
  <2> DEFINE n == Len(q) - 1
  <2>2. n \in Nat /\ \A i \in 1 .. n : q[i] \in S
    BY <1>1, <2>1
  <2> HIDE DEF n
  <2>3. /\ SubSeq(q, 1, n) \in Seq(S)
        /\ Len(SubSeq(q, 1, n)) = IF 1 <= n THEN n - 1 + 1 ELSE 0
        /\ \A i \in 1 .. n - 1 + 1 : SubSeq(q, 1, n)[i] = q[1 + i - 1]
    BY <2>2, SubSeqProperties
  <2>4. n - 1 + 1 = n /\ \A i \in 1 .. n : 1 + i - 1 = i
    BY <2>2
  <2>5. /\ SubSeq(q, 1, n) \in Seq(S) /\ Len(SubSeq(q, 1, n)) = n
        /\ \A i \in 1 .. n : SubSeq(q, 1, n)[i] = q[i]
    BY <2>2, <2>3, <2>4
  <2> QED
    BY <2>5 DEF n
<1> QED
  BY <1>1, <1>2 DEF Last, Front

\* The position of main when it does something to an object.
LEMMA AtBuild ==
  ASSUME step \in 1 .. 14, NEW o, At("build", o)
  PROVE  step \in 1 .. 5 /\ o = BuildOrder[step]
<1>1. step \in 1 .. 13 /\ Plan[step] = <<"build", o>>
  BY PlanSteps DEF At
<1>2. Plan[step][1] = "build" /\ Plan[step][2] = o
  BY <1>1
<1>3. step \in {1, 2, 3, 4, 5, 6, 7, 8, 9, 10, 11, 12, 13}
  BY <1>1
<1> QED
  BY <1>2, <1>3, PlanSteps, BuildOrderIs

LEMMA AtStart ==
  ASSUME step \in 1 .. 14, NEW w, At("start", w)
  PROVE  \/ step = 7 /\ w = "feedhandler"
         \/ step = 9 /\ w = "disseminator"
         \/ step = 10 /\ w = "generator"
<1>1. step \in 1 .. 13 /\ Plan[step] = <<"start", w>>
  BY PlanSteps DEF At
<1>2. Plan[step][1] = "start" /\ Plan[step][2] = w
  BY <1>1
<1>3. step \in {1, 2, 3, 4, 5, 6, 7, 8, 9, 10, 11, 12, 13}
  BY <1>1
<1> QED
  BY <1>2, <1>3, PlanSteps

LEMMA AtPrepare ==
  ASSUME step \in 1 .. 14, NEW o, At("configure", o) \/ At("subscribe", o)
  PROVE  step \in {6, 8}
<1>1. step \in 1 .. 13 /\ Plan[step][1] \in {"configure", "subscribe"}
  BY PlanSteps DEF At
<1>2. step \in {1, 2, 3, 4, 5, 6, 7, 8, 9, 10, 11, 12, 13}
  BY <1>1
<1> QED
  BY <1>1, <1>2, PlanSteps

LEMMA StopSteps ==
  ASSUME step \in 1 .. 13, NEW w, Plan[step] = <<"stop", w>>
  PROVE  \/ step = 11 /\ w = "generator"
         \/ step = 12 /\ w = "disseminator"
         \/ step = 13 /\ w = "feedhandler"
<1>2. Plan[step][1] = "stop" /\ Plan[step][2] = w
  OBVIOUS
<1>3. step \in {1, 2, 3, 4, 5, 6, 7, 8, 9, 10, 11, 12, 13}
  OBVIOUS
<1> QED
  BY <1>2, <1>3, PlanSteps

LEMMA OtherSteps ==
  ASSUME step \in 1 .. 13, Plan[step][1] # "stop"
  PROVE  step <= 10
<1>1. step \in {1, 2, 3, 4, 5, 6, 7, 8, 9, 10, 11, 12, 13}
  OBVIOUS
<1> QED
  BY <1>1, PlanSteps

-----------------------------------------------------------------------------
(* Where main and the threads are *)

LEMMA InitPlaceInv == Init => PlaceInv
  BY DEF Init, PlaceInv, MainInv, ThreadInv, Worker, Object

LEMMA OptionsPlace == ASSUME PlaceInv, ParseOptions \/ dispatch_size PROVE PlaceInv'
<1> USE DEF PlaceInv, dataVars
<1>1. MainInv'
  BY DEF MainInv, ParseOptions, dispatch_size
<1>2. ThreadInv'
  BY DEF MainInv, ThreadInv, ParseOptions, dispatch_size
<1> QED
  BY <1>1, <1>2

LEMMA BuildPlace == ASSUME PlaceInv, NEW o \in Object, Build(o) PROVE PlaceInv'
<1> USE DEF PlaceInv, dataVars
<1>1. step \in 1 .. 5 /\ o = BuildOrder[step] /\ phase = "go"
  BY AtBuild DEF Build, MainInv, At
<1>2. /\ built' \in Seq(Object) /\ Len(built') = Len(built) + 1
      /\ \A i \in 1 .. Len(built) : built'[i] = built[i]
      /\ built'[Len(built) + 1] = o
  BY DEF Build, MainInv
<1>3. Len(built) = step - 1 /\ step' = step + 1
  BY <1>1 DEF Build, MainInv
<1>4. \A i \in 1 .. Len(built') : built'[i] = BuildOrder[i]
  BY <1>1, <1>2, <1>3 DEF MainInv
<1>5. MainInv'
  BY <1>1, <1>2, <1>3, <1>4 DEF MainInv, Build
<1>6. ThreadInv'
  BY <1>1, <1>2, <1>3 DEF MainInv, ThreadInv, Build
<1> QED
  BY <1>5, <1>6

LEMMA PreparePlace == ASSUME PlaceInv, NEW o \in Object, Prepare(o) PROVE PlaceInv'
<1> USE DEF PlaceInv, dataVars
<1>1. step \in {6, 8} /\ phase = "go"
  BY AtPrepare DEF Prepare, MainInv, At
<1>2. MainInv'
  BY <1>1 DEF MainInv, Prepare
<1>3. ThreadInv'
  BY <1>1 DEF MainInv, ThreadInv, Prepare
<1> QED
  BY <1>2, <1>3

LEMMA StartPlace == ASSUME PlaceInv, NEW w \in Worker, Start(w) PROVE PlaceInv'
<1> USE DEF PlaceInv, dataVars
<1>1. /\ \/ step = 7 /\ w = "feedhandler"
         \/ step = 9 /\ w = "disseminator"
         \/ step = 10 /\ w = "generator"
      /\ phase = "go" /\ step' = step + 1 /\ Len(built) = 5
      /\ UNCHANGED <<phase, built, made, pc, stopping>>
  BY AtStart DEF Start, MainInv, At
<1>2. MainInv'
  <2>1. step \in 6 .. 13 /\ step' \in 6 .. 14
    BY <1>1
  <2>2. phase' = "go" /\ built' = built /\ Len(built) = 5
    BY <1>1
  <2> QED
    BY <2>1, <2>2 DEF MainInv
<1>3. /\ thread' \in [Worker -> {"none", "running", "ended"}]
      /\ \A v \in Worker : thread'[v] = IF v = w THEN "running" ELSE thread[v]
  BY DEF Start, ThreadInv
<1>4. \A v \in Worker : thread'[v] # "running" => pc'[v] = "test"
  BY <1>1, <1>3 DEF ThreadInv
<1>5. step' <= 10 => made' = 0
  BY <1>1 DEF ThreadInv
<1>6. ThreadInv'
  <2> USE DEF Worker
  <2>1. thread'["generator"] # "none" => step' = 11 /\ phase' \in {"go", "join"}
    BY <1>1, <1>3 DEF ThreadInv
  <2>2. thread'["disseminator"] # "none" => step' \in 10 .. 12 /\ Len(built') >= 2
    <3>1. thread'["disseminator"] # "none" => step \in 9 .. 11
      BY <1>1, <1>3 DEF ThreadInv
    <3> QED
      BY <1>1, <3>1
  <2>3. thread'["feedhandler"] # "none" => step' \in 8 .. 13 /\ Len(built') >= 3
    <3>1. thread'["feedhandler"] # "none" => step \in 7 .. 12
      BY <1>1, <1>3 DEF ThreadInv
    <3> QED
      BY <1>1, <3>1
  <2>4. phase' = "go" /\ pc' = pc /\ stopping' = stopping
    BY <1>1
  <2> QED
    BY <1>3, <1>4, <1>5, <2>1, <2>2, <2>3, <2>4 DEF ThreadInv
<1> QED
  BY <1>2, <1>6

LEMMA ThrowPlace == ASSUME PlaceInv, Throw PROVE PlaceInv'
<1> USE DEF PlaceInv, dataVars
<1>1. step <= 10
  BY OtherSteps, PlanSteps DEF Throw, MainInv
<1>2. MainInv'
  BY DEF MainInv, Throw
<1>3. ThreadInv'
  BY <1>1 DEF MainInv, ThreadInv, Throw
<1> QED
  BY <1>2, <1>3

LEMMA StopPlace == ASSUME PlaceInv, NEW w \in Worker, Stop(w) PROVE PlaceInv'
<1> USE DEF PlaceInv, dataVars
<1>1. step \in 11 .. 13 /\ phase = "go"
  BY StopSteps, PlanSteps DEF Stop, At, MainInv
<1>2. MainInv'
  BY <1>1 DEF MainInv, Stop
<1>3. ThreadInv'
  BY <1>1 DEF MainInv, ThreadInv, Stop
<1> QED
  BY <1>2, <1>3

LEMMA JoinPlace == ASSUME PlaceInv, NEW w \in Worker, Join(w) PROVE PlaceInv'
<1> USE DEF PlaceInv, dataVars
<1>1. /\ \/ step = 11 /\ w = "generator"
         \/ step = 12 /\ w = "disseminator"
         \/ step = 13 /\ w = "feedhandler"
      /\ phase = "join" /\ phase' = "go" /\ step' = step + 1 /\ Len(built) = 5
      /\ UNCHANGED <<built, made, pc, stopping>>
  BY StopSteps, PlanSteps DEF Join, MainInv
<1>2. MainInv'
  <2>1. step \in 6 .. 13 /\ step' \in 6 .. 14
    BY <1>1
  <2>2. phase' = "go" /\ built' = built /\ Len(built) = 5
    BY <1>1
  <2> QED
    BY <2>1, <2>2 DEF MainInv
<1>3. /\ thread' \in [Worker -> {"none", "running", "ended"}]
      /\ \A v \in Worker : thread'[v] = IF v = w THEN "none" ELSE thread[v]
      /\ thread[w] = "ended"
  BY DEF Join, Joinable, ThreadInv
<1>4. \A v \in Worker : thread'[v] # "running" => pc'[v] = "test"
  BY <1>1, <1>3 DEF ThreadInv
<1>5. ThreadInv'
  <2>1. CASE w = "feedhandler"
    BY <1>1, <1>3, <1>4, <2>1 DEF ThreadInv, Worker
  <2>2. CASE w = "disseminator"
    BY <1>1, <1>3, <1>4, <2>2 DEF ThreadInv, Worker
  <2>3. CASE w = "generator"
    BY <1>1, <1>3, <1>4, <2>3 DEF ThreadInv, Worker
  <2> QED
    BY <1>1, <2>1, <2>2, <2>3
<1> QED
  BY <1>2, <1>5

LEMMA ReturnPlace == ASSUME PlaceInv, Return PROVE PlaceInv'
<1> USE DEF PlaceInv, dataVars
<1>1. step = 14
  BY PlanSteps DEF Return
<1>2. MainInv'
  BY <1>1 DEF MainInv, Return
<1>3. ThreadInv'
  BY <1>1 DEF MainInv, ThreadInv, Return, Worker
<1> QED
  BY <1>2, <1>3

LEMMA DestroyStopPlace ==
  ASSUME PlaceInv, NEW w \in Worker, DestroyStop(w) PROVE PlaceInv'
<1> USE DEF PlaceInv, dataVars
<1>1. /\ thread' \in [Worker -> {"none", "running", "ended"}]
      /\ \A v \in Worker : thread'[v] # thread[v] => thread'[v] = "none" /\ thread[v] = "ended"
      /\ stopping' \subseteq Worker
  BY DEF DestroyStop, Joinable, ThreadInv
<1>2. MainInv'
  BY DEF MainInv, DestroyStop
<1>3. ThreadInv'
  BY <1>1 DEF MainInv, ThreadInv, DestroyStop, Worker
<1> QED
  BY <1>2, <1>3

\* Unwinding takes the youngest object away, and by then its thread is gone.
LEMMA DestroyPlace == ASSUME PlaceInv, NEW o \in Object, Destroy(o) PROVE PlaceInv'
<1> USE DEF PlaceInv, dataVars
<1>1. /\ built # << >> /\ phase = "unwind" /\ o = Last(built)
      /\ built' = Front(built)
      /\ o \in Worker => thread[o] = "none"
      /\ UNCHANGED <<phase, step, stopping, thread, pc, made>>
  BY DEF Destroy
<1>2. built \in Seq(Object) /\ Len(built) <= 5
  BY DEF MainInv
<1>3. /\ Len(built) \in Nat \ {0} /\ o = built[Len(built)]
      /\ built' \in Seq(Object) /\ Len(built') = Len(built) - 1
      /\ \A i \in 1 .. Len(built) - 1 : built'[i] = built[i]
  BY <1>1, <1>2, FrontFacts
<1>4. Len(built) \in 1 .. 5 /\ o = BuildOrder[Len(built)]
  BY <1>2, <1>3 DEF MainInv
<1>5. MainInv'
  BY <1>1, <1>3, <1>4 DEF MainInv
<1>6. /\ thread["disseminator"] # "none" => Len(built) # 2
      /\ thread["feedhandler"] # "none" => Len(built) # 3
  BY <1>1, <1>4, BuildOrderIs DEF Worker
<1>7. /\ thread["disseminator"] # "none" => Len(built') >= 2
      /\ thread["feedhandler"] # "none" => Len(built') >= 3
      /\ phase' = phase /\ step' = step /\ thread' = thread /\ pc' = pc
      /\ made' = made /\ stopping' = stopping
  BY <1>1, <1>3, <1>4, <1>6 DEF ThreadInv
<1>8. ThreadInv'
  BY <1>7 DEF ThreadInv
<1> QED
  BY <1>5, <1>8

LEMMA ExitPlace == ASSUME PlaceInv, Exit PROVE PlaceInv'
<1> USE DEF PlaceInv, dataVars
<1>1. MainInv'
  BY DEF MainInv, Exit
<1>2. ThreadInv'
  BY DEF MainInv, ThreadInv, Exit
<1> QED
  BY <1>1, <1>2

\* The steps of the threads leave main alone, and a place of a running thread is
\* the only one that changes.
LEMMA WorkerPlace ==
  ASSUME PlaceInv, UNCHANGED <<mainVars, thread>>, NEW w \in Worker,
         NEW place \in {"test", "run", "hold"}, pc[w] # "test", Goto(w, place),
         \/ UNCHANGED made
         \/ w = "generator"
  PROVE  PlaceInv'
<1> USE DEF PlaceInv, mainVars
<1>1. MainInv'
  BY DEF MainInv
<1>2. /\ pc' \in [Worker -> {"test", "run", "hold"}]
      /\ \A v \in Worker : v # w => pc'[v] = pc[v]
  BY DEF ThreadInv, Goto
<1>3. thread[w] = "running"
  BY DEF ThreadInv
<1>4. step <= 10 => made' = 0
  BY <1>3 DEF ThreadInv, MainInv
<1>5. ThreadInv'
  BY <1>2, <1>3, <1>4 DEF ThreadInv
<1> QED
  BY <1>1, <1>5

LEMMA LoopTestPlace == ASSUME PlaceInv, NEW w \in Worker, LoopTest(w) PROVE PlaceInv'
<1> USE DEF PlaceInv, mainVars, dataVars
<1>1. /\ thread' \in [Worker -> {"none", "running", "ended"}]
      /\ pc' \in [Worker -> {"test", "run", "hold"}]
      /\ \A v \in Worker : thread'[v] = "none" <=> thread[v] = "none"
      /\ \A v \in Worker : thread'[v] # "running" => pc'[v] = "test"
  BY DEF LoopTest, ThreadInv
<1>2. MainInv'
  BY DEF MainInv, LoopTest
<1>3. ThreadInv'
  BY <1>1 DEF ThreadInv, LoopTest, Worker
<1> QED
  BY <1>2, <1>3

LEMMA NextPlaceInv == PlaceInv /\ [Next]_vars => PlaceInv'
<1> SUFFICES ASSUME PlaceInv, [Next]_vars PROVE PlaceInv'
  OBVIOUS
<1> USE DEF dataVars, Worker
<1>1. CASE Main
  BY <1>1, OptionsPlace, BuildPlace, PreparePlace, StartPlace, StopPlace, JoinPlace,
     ReturnPlace, DestroyStopPlace, DestroyPlace, ExitPlace DEF Main
<1>2. CASE Throw
  BY <1>2, ThrowPlace
<1>3. CASE \E w \in Worker : LoopTest(w)
  BY <1>3, LoopTestPlace
<1>4. CASE \E w \in Worker : LoopIdle(w)
  BY <1>4, WorkerPlace DEF LoopIdle
<1>5. CASE Generate
  BY <1>5, WorkerPlace DEF Generate
<1>6. CASE Push
  BY <1>6, WorkerPlace DEF Push
<1>7. CASE GiveUp
  BY <1>7, WorkerPlace DEF GiveUp
<1>8. CASE Pop
  BY <1>8, WorkerPlace DEF Pop
<1>9. CASE Send
  BY <1>9, WorkerPlace DEF Send
<1>10. CASE Receive
  BY <1>10, WorkerPlace DEF Receive
<1>11. CASE Record
  BY <1>11, WorkerPlace DEF Record
<1>12. CASE Tick \/ UNCHANGED vars
  BY <1>12 DEF Tick, vars, mainVars, PlaceInv, MainInv, ThreadInv
<1> QED
  BY <1>1, <1>2, <1>3, <1>4, <1>5, <1>6, <1>7, <1>8, <1>9, <1>10, <1>11, <1>12
     DEF Next, GeneratorStep, DisseminatorStep, FeedHandlerStep

-----------------------------------------------------------------------------
(* The messages in a sequence *)

LEMMA NumbersOfAppend ==
  ASSUME NEW S, NEW q \in Seq(S), NEW m \in S
  PROVE  /\ Append(q, m) \in Seq(S) /\ Len(Append(q, m)) = Len(q) + 1
         /\ Numbers(Append(q, m)) = Numbers(q) \cup {m.no}
<1>1. /\ Append(q, m) \in Seq(S) /\ Len(Append(q, m)) = Len(q) + 1
      /\ Len(q) \in Nat
      /\ \A i \in 1 .. Len(q) : Append(q, m)[i] = q[i]
      /\ Append(q, m)[Len(q) + 1] = m
  OBVIOUS
<1> DEFINE r == Append(q, m)
<1> HIDE DEF r
<1>2. ASSUME NEW n \in Numbers(q) \cup {m.no} PROVE n \in Numbers(r)
  BY <1>1 DEF Numbers, r
<1>3. ASSUME NEW i \in 1 .. Len(r) PROVE r[i].no \in Numbers(q) \cup {m.no}
  <2>1. i \in 1 .. Len(q) \/ i = Len(q) + 1
    BY <1>1 DEF r
  <2> QED
    BY <1>1, <2>1 DEF Numbers, r
<1> QED
  BY <1>1, <1>2, <1>3 DEF Numbers, r

LEMMA NumbersOfTail ==
  ASSUME NEW S, NEW q \in Seq(S), q # << >>
  PROVE  /\ Head(q) \in S /\ Tail(q) \in Seq(S) /\ Len(Tail(q)) = Len(q) - 1
         /\ Len(q) \in Nat \ {0} /\ Head(q) = q[1]
         /\ \A i \in 1 .. Len(Tail(q)) : Tail(q)[i] = q[i + 1]
         /\ Numbers(q) = Numbers(Tail(q)) \cup {Head(q).no}
<1>1. /\ Head(q) \in S /\ Tail(q) \in Seq(S) /\ Len(Tail(q)) = Len(q) - 1
      /\ Len(q) \in Nat \ {0} /\ Head(q) = q[1]
      /\ \A i \in 1 .. Len(Tail(q)) : Tail(q)[i] = q[i + 1]
  OBVIOUS
<1> DEFINE r == Tail(q)
           h == Head(q)
<1> HIDE DEF r, h
<1>2. ASSUME NEW n \in Numbers(r) \cup {h.no} PROVE n \in Numbers(q)
  <2>1. CASE n = h.no
    BY <1>1, <2>1 DEF Numbers, h
  <2>2. CASE n \in Numbers(r)
    <3>1. PICK i \in 1 .. Len(r) : n = r[i].no
      BY <2>2 DEF Numbers
    <3>2. i + 1 \in 1 .. Len(q) /\ r[i] = q[i + 1]
      BY <1>1, <3>1 DEF r
    <3> QED
      BY <3>1, <3>2 DEF Numbers
  <2> QED
    BY <2>1, <2>2
<1>3. ASSUME NEW i \in 1 .. Len(q) PROVE q[i].no \in Numbers(r) \cup {h.no}
  <2>1. CASE i = 1
    BY <1>1, <2>1 DEF h
  <2>2. CASE i # 1
    <3>1. i - 1 \in 1 .. Len(r) /\ (i - 1) + 1 = i
      BY <1>1, <2>2 DEF r
    <3>2. r[i - 1] = q[i]
      BY <1>1, <3>1 DEF r
    <3> QED
      BY <3>1, <3>2 DEF Numbers
  <2> QED
    BY <2>1, <2>2
<1> QED
  BY <1>1, <1>2, <1>3 DEF Numbers, r, h

LEMMA IncreasingAppend ==
  ASSUME NEW q \in Seq(Msg), NEW m \in Msg, Increasing(q),
         \A n \in Numbers(q) : n < m.no
  PROVE  Increasing(Append(q, m))
<1>1. /\ Len(Append(q, m)) = Len(q) + 1 /\ Len(q) \in Nat
      /\ \A i \in 1 .. Len(q) : Append(q, m)[i] = q[i]
      /\ Append(q, m)[Len(q) + 1] = m
  OBVIOUS
<1> SUFFICES ASSUME NEW i \in 1 .. Len(q) + 1, NEW j \in 1 .. Len(q) + 1, i < j
             PROVE  Append(q, m)[i].no < Append(q, m)[j].no
  BY <1>1 DEF Increasing
<1>2. i \in 1 .. Len(q) /\ Append(q, m)[i] = q[i]
  BY <1>1
<1>3. CASE j = Len(q) + 1
  BY <1>1, <1>2, <1>3 DEF Numbers
<1>4. CASE j \in 1 .. Len(q)
  BY <1>1, <1>2, <1>4 DEF Increasing
<1> QED
  BY <1>1, <1>3, <1>4

LEMMA IncreasingTail ==
  ASSUME NEW q \in Seq(Msg), q # << >>, Increasing(q)
  PROVE  /\ Increasing(Tail(q))
         /\ \A n \in Numbers(Tail(q)) : Head(q).no < n
<1>1. /\ Len(Tail(q)) = Len(q) - 1 /\ Len(q) \in Nat \ {0} /\ Head(q) = q[1]
      /\ \A i \in 1 .. Len(Tail(q)) : Tail(q)[i] = q[i + 1]
  BY NumbersOfTail
<1>2. ASSUME NEW i \in 1 .. Len(Tail(q)), NEW j \in 1 .. Len(Tail(q)), i < j
      PROVE  Tail(q)[i].no < Tail(q)[j].no
  <2>1. i + 1 \in 1 .. Len(q) /\ j + 1 \in 1 .. Len(q) /\ i + 1 < j + 1
    BY <1>1, <1>2
  <2>2. q[i + 1].no < q[j + 1].no
    BY <2>1 DEF Increasing
  <2> QED
    BY <1>1, <2>2
<1>3. ASSUME NEW i \in 1 .. Len(Tail(q)) PROVE Head(q).no < Tail(q)[i].no
  <2>1. i + 1 \in 1 .. Len(q) /\ 1 \in 1 .. Len(q) /\ 1 < i + 1
    BY <1>1
  <2>2. q[1].no < q[i + 1].no
    BY <2>1 DEF Increasing
  <2> QED
    BY <1>1, <2>2
<1> QED
  BY <1>2, <1>3 DEF Increasing, Numbers

-----------------------------------------------------------------------------
(* The way of the messages *)

LEMMA PlaceOfGoto ==
  ASSUME PlaceInv, NEW w \in Worker, NEW place, Goto(w, place)
  PROVE  pc'[w] = place /\ \A v \in Worker : v # w => pc'[v] = pc[v]
  BY DEF PlaceInv, ThreadInv, Goto

LEMMA ElapsedIsNat ==
  ASSUME NEW a \in Nat, NEW b \in Nat
  PROVE  Elapsed(a, b) \in Nat
<1>1. Modulus \in Nat \ {0}
  BY StampAssumption
<1>2. b - a + Modulus \in Int
  BY <1>1
<1> QED
  BY <1>1, <1>2 DEF Elapsed

LEMMA InitFlowInv == Init => FlowInv
<1> SUFFICES ASSUME Init PROVE FlowInv
  OBVIOUS
<1>1. DataTypes
  BY CapacitiesAssumption, StampAssumption, MessagesAssumption
     DEF Init, DataTypes, NoMsg, Msg
<1>2. OrderInv
  BY DEF Init, OrderInv, AtGenerator, AtQueue, AtDisseminator, AtNet, AtFeedHandler,
         AtMonitor, Numbers, Before, Increasing, Worker
<1> QED
  BY <1>1, <1>2 DEF FlowInv

\* Steps that touch neither the messages nor the places that hold one.
LEMMA QuietFlow ==
  ASSUME FlowInv, UNCHANGED dataVars,
         now' \in Nat, now' <= MaxTime,
         \A w \in Worker : pc'[w] = "hold" => pc[w] = "hold"
  PROVE  FlowInv'
<1> USE DEF dataVars
<1>1. DataTypes'
  BY DEF FlowInv, DataTypes
<1>2. /\ AtGenerator' \subseteq AtGenerator /\ AtDisseminator' \subseteq AtDisseminator
      /\ AtFeedHandler' \subseteq AtFeedHandler
      /\ AtQueue' = AtQueue /\ AtNet' = AtNet /\ AtMonitor' = AtMonitor
      /\ Increasing(queue)' = Increasing(queue) /\ Increasing(net)' = Increasing(net)
      /\ made' = made
  BY DEF AtGenerator, AtDisseminator, AtFeedHandler, AtQueue, AtNet, AtMonitor,
         Numbers, Increasing, Worker
<1>3. OrderInv'
  BY <1>2 DEF FlowInv, OrderInv, Before
<1> QED
  BY <1>1, <1>3 DEF FlowInv

LEMMA GenerateFlow == ASSUME PlaceInv, FlowInv, Generate PROVE FlowInv'
<1> USE DEF Generate
<1>1. made \in Nat /\ now \in Nat /\ made' = made + 1 /\ made' <= MaxMessages
  BY MessagesAssumption DEF FlowInv, DataTypes
<1>2. genMsg' \in Msg /\ genMsg'.no = made + 1
  <2>1. genMsg' = [no |-> made + 1, enqueue_timestamp |-> now,
                   disseminate_timestamp |-> 0]
    BY DEF NoMsg
  <2> QED
    BY <1>1, <2>1 DEF Msg
<1>3. DataTypes'
  BY <1>1, <1>2 DEF FlowInv, DataTypes
<1>4. /\ AtGenerator' = {made + 1} /\ AtDisseminator' = AtDisseminator
      /\ AtFeedHandler' = AtFeedHandler
      /\ AtQueue' = AtQueue /\ AtNet' = AtNet /\ AtMonitor' = AtMonitor
      /\ Increasing(queue)' = Increasing(queue) /\ Increasing(net)' = Increasing(net)
  BY <1>2, PlaceOfGoto
     DEF AtGenerator, AtDisseminator, AtFeedHandler, AtQueue, AtNet, AtMonitor,
         Numbers, Increasing, Worker
<1>5. \A n \in 1 .. made : n \in 1 .. made' /\ n < made + 1
  BY <1>1
<1>6. OrderInv'
  BY <1>1, <1>4, <1>5 DEF FlowInv, OrderInv, Before
<1> QED
  BY <1>3, <1>6 DEF FlowInv

LEMMA PushFlow == ASSUME PlaceInv, FlowInv, Push PROVE FlowInv'
<1> USE DEF Push
<1>1. queue \in Seq(Msg) /\ genMsg \in Msg /\ Len(queue) < QueueCapacity
  BY DEF FlowInv, DataTypes, HasRoom
<1>2. /\ queue' \in Seq(Msg) /\ Len(queue') = Len(queue) + 1
      /\ Numbers(queue') = Numbers(queue) \cup {genMsg.no}
  BY <1>1, NumbersOfAppend
<1>3. DataTypes'
  BY <1>1, <1>2, CapacitiesAssumption DEF FlowInv, DataTypes
<1>4. AtGenerator = {genMsg.no}
  BY DEF AtGenerator
<1>5. /\ AtGenerator' = {} /\ AtDisseminator' = AtDisseminator
      /\ AtFeedHandler' = AtFeedHandler
      /\ AtQueue' = AtQueue \cup AtGenerator /\ AtNet' = AtNet /\ AtMonitor' = AtMonitor
      /\ Increasing(net)' = Increasing(net) /\ made' = made
  BY <1>2, <1>4, PlaceOfGoto
     DEF AtGenerator, AtDisseminator, AtFeedHandler, AtQueue, AtNet, AtMonitor,
         Numbers, Increasing, Worker
<1>6. Increasing(queue')
  BY <1>1, <1>4, IncreasingAppend DEF FlowInv, OrderInv, Before, AtQueue
<1>7. OrderInv'
  BY <1>5, <1>6 DEF FlowInv, OrderInv, Before, Increasing
<1> QED
  BY <1>3, <1>7 DEF FlowInv

LEMMA PopFlow == ASSUME PlaceInv, FlowInv, Pop PROVE FlowInv'
<1> USE DEF Pop
<1>1. queue \in Seq(Msg) /\ queue # << >> /\ Len(queue) <= QueueCapacity
  BY DEF FlowInv, DataTypes
<1>2. /\ queue' \in Seq(Msg) /\ disMsg' \in Msg /\ Len(queue') = Len(queue) - 1
      /\ Len(queue) \in Nat \ {0}
      /\ Numbers(queue) = Numbers(queue') \cup {disMsg'.no}
  BY <1>1, NumbersOfTail
<1>3. DataTypes'
  BY <1>1, <1>2, CapacitiesAssumption DEF FlowInv, DataTypes
<1>4. /\ AtGenerator' = AtGenerator /\ AtDisseminator' = {disMsg'.no}
      /\ AtDisseminator = {}
      /\ AtFeedHandler' = AtFeedHandler
      /\ AtQueue = AtQueue' \cup AtDisseminator' /\ AtNet' = AtNet
      /\ AtMonitor' = AtMonitor
      /\ Increasing(net)' = Increasing(net) /\ made' = made
  BY <1>2, PlaceOfGoto
     DEF AtGenerator, AtDisseminator, AtFeedHandler, AtQueue, AtNet, AtMonitor,
         Numbers, Increasing, Worker
<1>5. Increasing(queue') /\ \A n \in Numbers(queue') : disMsg'.no < n
  BY <1>1, IncreasingTail DEF FlowInv, OrderInv
<1>6. Before(AtDisseminator', AtQueue')
  BY <1>4, <1>5 DEF Before, AtQueue
<1>7. Increasing(queue)'
  BY <1>5 DEF Increasing
<1>8. OrderInv'
  BY <1>4, <1>6, <1>7 DEF FlowInv, OrderInv, Before
<1> QED
  BY <1>3, <1>8 DEF FlowInv

LEMMA SendFlow == ASSUME PlaceInv, FlowInv, Send PROVE FlowInv'
<1> USE DEF Send, send_impl
<1>1. /\ net \in Seq(Msg) /\ Len(net) <= NetCapacity /\ disMsg \in Msg /\ now \in Nat
      /\ NetCapacity \in Nat
  BY CapacitiesAssumption DEF FlowInv, DataTypes
<1>2. Stamped(disMsg) \in Msg /\ Stamped(disMsg).no = disMsg.no
  BY <1>1 DEF Stamped, Msg
<1>3. Increasing(net) /\ \A n \in Numbers(net) : n < disMsg.no
  BY DEF FlowInv, OrderInv, Before, AtNet, AtDisseminator
<1>4. /\ net' \in Seq(Msg) /\ Len(net') <= NetCapacity
      /\ Numbers(net') \subseteq Numbers(net) \cup {disMsg.no}
      /\ Increasing(net')
  <2>1. CASE UNCHANGED net
    BY <1>1, <1>3, <2>1
  <2>2. CASE Len(net) < NetCapacity /\ net' = Append(net, Stamped(disMsg))
    <3>1. /\ net' \in Seq(Msg) /\ Len(net') = Len(net) + 1
          /\ Numbers(net') = Numbers(net) \cup {disMsg.no}
      BY <1>1, <1>2, <2>2, NumbersOfAppend
    <3>2. Increasing(net')
      BY <1>1, <1>2, <1>3, <2>2, IncreasingAppend
    <3> QED
      BY <1>1, <2>2, <3>1, <3>2
  <2> QED
    BY <2>1, <2>2
<1>5. DataTypes'
  BY <1>1, <1>4 DEF FlowInv, DataTypes
<1>6. AtDisseminator = {disMsg.no}
  BY DEF AtDisseminator
<1>7. /\ AtGenerator' = AtGenerator /\ AtDisseminator' = {}
      /\ AtFeedHandler' = AtFeedHandler
      /\ AtQueue' = AtQueue /\ AtNet' \subseteq AtNet \cup AtDisseminator
      /\ AtMonitor' = AtMonitor
      /\ Increasing(queue)' = Increasing(queue) /\ made' = made
  <2>1. /\ pc'["disseminator"] = "test" /\ pc'["generator"] = pc["generator"]
        /\ pc'["feedhandler"] = pc["feedhandler"]
    BY PlaceOfGoto DEF Worker
  <2> QED
    BY <1>4, <1>6, <2>1
       DEF AtGenerator, AtDisseminator, AtFeedHandler, AtQueue, AtNet, AtMonitor,
           Numbers, Increasing
<1>8. OrderInv'
  BY <1>4, <1>7 DEF FlowInv, OrderInv, Before, Increasing
<1> QED
  BY <1>5, <1>8 DEF FlowInv

LEMMA ReceiveFlow == ASSUME PlaceInv, FlowInv, Receive PROVE FlowInv'
<1> USE DEF Receive, AfterReceive
<1>1. net \in Seq(Msg) /\ net # << >> /\ Len(net) <= NetCapacity
  BY DEF FlowInv, DataTypes
<1>2. /\ net' \in Seq(Msg) /\ recvMsg' \in Msg /\ Len(net') = Len(net) - 1
      /\ Len(net) \in Nat \ {0}
      /\ Numbers(net) = Numbers(net') \cup {recvMsg'.no}
  BY <1>1, NumbersOfTail
<1>3. DataTypes'
  BY <1>1, <1>2, CapacitiesAssumption DEF FlowInv, DataTypes
<1>4. /\ AtGenerator' = AtGenerator /\ AtDisseminator' = AtDisseminator
      /\ AtFeedHandler' = {recvMsg'.no} /\ AtFeedHandler = {}
      /\ AtQueue' = AtQueue /\ AtNet = AtNet' \cup AtFeedHandler'
      /\ AtMonitor' = AtMonitor
      /\ Increasing(queue)' = Increasing(queue) /\ made' = made
  BY <1>2, PlaceOfGoto
     DEF AtGenerator, AtDisseminator, AtFeedHandler, AtQueue, AtNet, AtMonitor,
         Numbers, Increasing, Worker
<1>5. Increasing(net') /\ \A n \in Numbers(net') : recvMsg'.no < n
  BY <1>1, IncreasingTail DEF FlowInv, OrderInv
<1>6. Before(AtFeedHandler', AtNet')
  BY <1>4, <1>5 DEF Before, AtNet
<1>7. Increasing(net)'
  BY <1>5 DEF Increasing
<1>8. OrderInv'
  BY <1>4, <1>6, <1>7 DEF FlowInv, OrderInv, Before
<1> QED
  BY <1>3, <1>8 DEF FlowInv

LEMMA RecordFlow == ASSUME PlaceInv, FlowInv, Record PROVE FlowInv'
<1> USE DEF Record
<1>1. records \in Seq(Rec) /\ recvMsg \in Msg /\ now \in Nat
  BY DEF FlowInv, DataTypes
<1>2. LatencyRecord(recvMsg, now) \in Rec /\ LatencyRecord(recvMsg, now).no = recvMsg.no
  BY <1>1, ElapsedIsNat DEF LatencyRecord, Rec, Msg
<1>3. records' \in Seq(Rec) /\ Numbers(records') = Numbers(records) \cup {recvMsg.no}
  BY <1>1, <1>2, NumbersOfAppend
<1>4. DataTypes'
  BY <1>3 DEF FlowInv, DataTypes
<1>5. AtFeedHandler = {recvMsg.no}
  BY DEF AtFeedHandler
<1>6. /\ AtGenerator' = AtGenerator /\ AtDisseminator' = AtDisseminator
      /\ AtFeedHandler' = {} /\ AtMonitor' = AtMonitor \cup AtFeedHandler
      /\ AtQueue' = AtQueue /\ AtNet' = AtNet
      /\ Increasing(queue)' = Increasing(queue) /\ Increasing(net)' = Increasing(net)
      /\ made' = made
  <2>1. /\ pc'["feedhandler"] = "test" /\ pc'["generator"] = pc["generator"]
        /\ pc'["disseminator"] = pc["disseminator"]
    BY PlaceOfGoto DEF Worker
  <2> QED
    BY <1>3, <1>5, <2>1
       DEF AtGenerator, AtDisseminator, AtFeedHandler, AtQueue, AtNet, AtMonitor,
           Numbers, Increasing
<1>7. OrderInv'
  BY <1>6 DEF FlowInv, OrderInv, Before
<1> QED
  BY <1>4, <1>7 DEF FlowInv

\* main only builds, starts, stops and destroys: it handles no message.
LEMMA MainIsQuiet ==
  ASSUME Main \/ Throw
  PROVE  /\ UNCHANGED <<pc, now>> /\ UNCHANGED dataVars
         /\ stopping \subseteq stopping'
  BY DEF Main, Throw, ParseOptions, dispatch_size, Return, Exit, Build, Prepare,
         Destroy, Start, Stop, Join, DestroyStop

\* A step that neither makes nor moves a message.
Quiet ==
  /\ UNCHANGED dataVars
  /\ now' \in Nat /\ now' <= MaxTime /\ now <= now'
  /\ stopping \subseteq stopping'
  /\ \A w \in Worker : pc'[w] = "hold" => pc[w] = "hold"
  /\ pc["generator"] = "hold" => pc'["generator"] = "hold" \/ "generator" \in stopping

LEMMA QuietSteps ==
  ASSUME PlaceInv, FlowInv, [Next]_vars,
         ~Generate, ~Push, ~Pop, ~Send, ~Receive, ~Record
  PROVE  Quiet
<1>0. now \in Nat /\ now <= MaxTime /\ MaxTime \in Nat
  BY StampAssumption DEF FlowInv, DataTypes
<1>1. CASE Main \/ Throw
  BY <1>0, <1>1, MainIsQuiet DEF Quiet
<1>2. ASSUME NEW w \in Worker, LoopTest(w) PROVE Quiet
  <2>1. /\ UNCHANGED dataVars /\ now' = now /\ stopping' = stopping
        /\ pc' = pc \/ Goto(w, "run")
        /\ pc[w] = "test"
    BY <1>2 DEF LoopTest, Goto, mainVars
  <2>2. /\ \A v \in Worker : pc'[v] = "hold" => pc[v] = "hold"
        /\ pc["generator"] = "hold" => pc'["generator"] = "hold"
    BY <2>1, PlaceOfGoto DEF Worker
  <2> QED
    BY <1>0, <2>1, <2>2 DEF Quiet
<1>3. ASSUME NEW w \in Worker, LoopIdle(w) PROVE Quiet
  <2>1. /\ UNCHANGED dataVars /\ now' = now /\ stopping' = stopping
        /\ Goto(w, "test") /\ pc[w] = "run"
    BY <1>3 DEF LoopIdle, mainVars
  <2>2. /\ \A v \in Worker : pc'[v] = "hold" => pc[v] = "hold"
        /\ pc["generator"] = "hold" => pc'["generator"] = "hold"
    BY <2>1, PlaceOfGoto DEF Worker
  <2> QED
    BY <1>0, <2>1, <2>2 DEF Quiet
<1>4. CASE GiveUp
  <2>1. /\ UNCHANGED dataVars /\ now' = now /\ stopping' = stopping
        /\ Goto("generator", "test") /\ "generator" \in stopping
    BY <1>4 DEF GiveUp, GivesUp, mainVars
  <2>2. \A v \in Worker : pc'[v] = "hold" => pc[v] = "hold"
    BY <2>1, PlaceOfGoto DEF Worker
  <2> QED
    BY <1>0, <2>1, <2>2 DEF Quiet
<1>5. CASE Tick
  BY <1>0, <1>5 DEF Tick, Quiet, mainVars
<1>6. CASE UNCHANGED vars
  BY <1>0, <1>6 DEF vars, mainVars, Quiet
<1> QED
  BY <1>1, <1>2, <1>3, <1>4, <1>5, <1>6
     DEF Next, GeneratorStep, DisseminatorStep, FeedHandlerStep, Worker

LEMMA NextFlowInv == PlaceInv /\ FlowInv /\ [Next]_vars => FlowInv'
<1> SUFFICES ASSUME PlaceInv, FlowInv, [Next]_vars PROVE FlowInv'
  OBVIOUS
<1>1. CASE Quiet
  BY <1>1, QuietFlow DEF Quiet
<1> QED
  BY <1>1, QuietSteps, GenerateFlow, PushFlow, PopFlow, SendFlow, ReceiveFlow, RecordFlow

-----------------------------------------------------------------------------
(* No gap before the stop *)

LEMMA InitGapless == Init => GaplessInv
  BY DEF Init, GaplessInv, Worker

LEMMA NextGapless ==
  PlaceInv /\ FlowInv /\ GaplessInv /\ [Next]_vars => GaplessInv'
<1> SUFFICES ASSUME PlaceInv, FlowInv, GaplessInv, [Next]_vars,
                    "generator" \notin stopping'
             PROVE  /\ \A i \in 1 .. Len(queue') :
                         queue'[i].no = Newest' - Len(queue') + i
                    /\ pc'["disseminator"] = "hold" =>
                         disMsg'.no = Newest' - Len(queue')
  BY DEF GaplessInv
<1>0. made \in Nat /\ queue \in Seq(Msg) /\ Len(queue) \in Nat /\ disMsg \in Msg
  BY DEF FlowInv, DataTypes
<1>1. CASE Quiet
  <2>1. UNCHANGED <<made, queue, disMsg>> /\ "generator" \notin stopping
    BY <1>1 DEF Quiet, dataVars
  <2>2. Newest' = Newest
    BY <1>1, <2>1 DEF Quiet, Newest, Worker
  <2>3. pc'["disseminator"] = "hold" => pc["disseminator"] = "hold"
    BY <1>1 DEF Quiet, Worker
  <2> QED
    BY <2>1, <2>2, <2>3 DEF GaplessInv
<1>2. CASE ~Quiet /\ stopping' = stopping
  <2>0. /\ \A i \in 1 .. Len(queue) : queue[i].no = Newest - Len(queue) + i
        /\ pc["disseminator"] = "hold" => disMsg.no = Newest - Len(queue)
    BY <1>2 DEF GaplessInv
  <2>1. CASE Generate
    <3>1. UNCHANGED <<queue, disMsg>> /\ pc["generator"] = "run" /\ made' = made + 1
      BY <2>1 DEF Generate
    <3>2. pc'["generator"] = "hold" /\ pc'["disseminator"] = pc["disseminator"]
      BY <2>1, PlaceOfGoto DEF Generate, Worker
    <3>3. Newest' = Newest
      BY <1>0, <3>1, <3>2 DEF Newest
    <3> QED
      BY <2>0, <3>1, <3>2, <3>3
  <2>2. CASE Push
    <3>1. /\ UNCHANGED <<made, disMsg>> /\ pc["generator"] = "hold"
          /\ queue' = Append(queue, genMsg)
      BY <2>2 DEF Push
    <3>2. pc'["generator"] = "test" /\ pc'["disseminator"] = pc["disseminator"]
      BY <2>2, PlaceOfGoto DEF Push, Worker
    <3>3. Newest = made - 1 /\ Newest' = made
      BY <3>1, <3>2 DEF Newest
    <3>4. genMsg \in Msg /\ genMsg.no = made
      BY <3>1 DEF FlowInv, DataTypes, OrderInv, AtGenerator
    <3>5. /\ Len(queue') = Len(queue) + 1
          /\ \A i \in 1 .. Len(queue) : queue'[i] = queue[i]
          /\ queue'[Len(queue) + 1] = genMsg
      BY <1>0, <3>1, <3>4
    <3>6. Newest' - Len(queue') = Newest - Len(queue)
      BY <1>0, <3>3, <3>5
    <3>7. ASSUME NEW i \in 1 .. Len(queue')
          PROVE  queue'[i].no = Newest' - Len(queue') + i
      <4>1. CASE i \in 1 .. Len(queue)
        BY <2>0, <3>5, <3>6, <4>1
      <4>2. CASE i = Len(queue) + 1
        BY <1>0, <3>3, <3>4, <3>5, <4>2
      <4> QED
        BY <1>0, <3>5, <4>1, <4>2
    <3> QED
      BY <2>0, <3>1, <3>2, <3>6, <3>7
  <2>3. CASE Pop
    <3>1. UNCHANGED made /\ queue # << >> /\ queue' = Tail(queue) /\ disMsg' = Head(queue)
      BY <2>3 DEF Pop
    <3>2. pc'["generator"] = pc["generator"]
      BY <2>3, PlaceOfGoto DEF Pop, Worker
    <3>3. Newest' = Newest /\ Newest \in Int
      BY <1>0, <3>1, <3>2 DEF Newest
    <3>4. /\ Len(queue') = Len(queue) - 1 /\ Len(queue) \in Nat \ {0}
          /\ disMsg' = queue[1]
          /\ \A i \in 1 .. Len(queue') : queue'[i] = queue[i + 1]
      BY <1>0, <3>1, NumbersOfTail
    <3>5. disMsg'.no = Newest' - Len(queue')
      BY <2>0, <3>3, <3>4
    <3>6. ASSUME NEW i \in 1 .. Len(queue')
          PROVE  queue'[i].no = Newest' - Len(queue') + i
      <4>1. i + 1 \in 1 .. Len(queue) /\ queue'[i] = queue[i + 1]
        BY <3>4
      <4>2. queue[i + 1].no = Newest - Len(queue) + (i + 1)
        BY <2>0, <4>1
      <4> QED
        BY <3>3, <3>4, <4>1, <4>2
    <3> QED
      BY <3>5, <3>6
  <2>4. CASE Send
    <3>1. UNCHANGED <<made, queue, disMsg>>
      BY <2>4 DEF Send
    <3>2. pc'["generator"] = pc["generator"] /\ pc'["disseminator"] = "test"
      BY <2>4, PlaceOfGoto DEF Send, Worker
    <3> QED
      BY <2>0, <3>1, <3>2 DEF Newest
  <2>5. CASE Receive \/ Record
    <3>1. UNCHANGED <<made, queue, disMsg>>
      BY <2>5 DEF Receive, Record
    <3>2. pc'["generator"] = pc["generator"] /\ pc'["disseminator"] = pc["disseminator"]
      BY <2>5, PlaceOfGoto DEF Receive, Record, Worker
    <3> QED
      BY <2>0, <3>1, <3>2 DEF Newest
  <2> QED
    BY <1>2, <2>1, <2>2, <2>3, <2>4, <2>5, QuietSteps
<1>3. CASE ~Quiet /\ stopping' # stopping
  <2>1. Generate \/ Push \/ Pop \/ Send \/ Receive \/ Record
    BY <1>3, QuietSteps
  <2> QED
    BY <1>3, <2>1 DEF Generate, Push, Pop, Send, Receive, Record, mainVars
<1> QED
  BY <1>1, <1>2, <1>3

-----------------------------------------------------------------------------
(* Time stamps *)

\* The difference of two time stamps is a true duration when they are in order.
LEMMA ElapsedIsTrue ==
  ASSUME NEW a \in Nat, NEW b \in Nat, a <= b, b <= MaxTime
  PROVE  Elapsed(a, b) = b - a
<1> DEFINE x == b - a + Modulus
           p == x \div Modulus
           u == x % Modulus
<1>1. Modulus \in Nat \ {0} /\ b - a \in Nat /\ b - a < Modulus /\ x \in Nat
      /\ x = Modulus + (b - a)
  BY StampAssumption
<1> HIDE DEF x
<1>2. p \in Nat /\ u \in 0 .. (Modulus - 1) /\ x = Modulus * p + u
  BY <1>1
<1> HIDE DEF p, u
<1>3. Modulus * (p - 1) = (b - a) - u
  BY <1>1, <1>2
<1>4. p - 1 >= 1 => Modulus * (p - 1) >= Modulus
  BY <1>1, <1>2
<1>5. p - 1 <= -1 => Modulus * (p - 1) <= -Modulus
  BY <1>1, <1>2
<1>6. p - 1 = 0
  BY <1>1, <1>2, <1>3, <1>4, <1>5
<1>7. u = b - a
  BY <1>1, <1>2, <1>3, <1>6
<1> QED
  BY <1>7 DEF Elapsed, u, x

LEMMA InitStamps == Init => StampInv
  BY DEF Init, StampInv, Stamped3, NoMsg, LatenciesAreTrue

\* Time passes: nothing becomes younger.
LEMMA StampsKept ==
  ASSUME FlowInv, StampInv, now' \in Nat, now <= now'
  PROVE  /\ genMsg.enqueue_timestamp <= now' /\ disMsg.enqueue_timestamp <= now'
         /\ \A i \in 1 .. Len(queue) : queue[i].enqueue_timestamp <= now'
         /\ \A i \in 1 .. Len(net) :
              /\ net[i].enqueue_timestamp <= net[i].disseminate_timestamp
              /\ net[i].disseminate_timestamp <= now'
         /\ recvMsg.enqueue_timestamp <= recvMsg.disseminate_timestamp
         /\ recvMsg.disseminate_timestamp <= now'
         /\ \A i \in 1 .. Len(records) :
              /\ records[i].total_ns <= now'
              /\ records[i].queue_ns + records[i].network_ns = records[i].total_ns
<1>1. /\ now \in Nat /\ genMsg \in Msg /\ disMsg \in Msg /\ recvMsg \in Msg
      /\ queue \in Seq(Msg) /\ net \in Seq(Msg) /\ records \in Seq(Rec)
  BY DEF FlowInv, DataTypes
<1>2. /\ genMsg.enqueue_timestamp \in Nat /\ disMsg.enqueue_timestamp \in Nat
      /\ recvMsg.disseminate_timestamp \in Nat
      /\ \A i \in 1 .. Len(queue) : queue[i].enqueue_timestamp \in Nat
      /\ \A i \in 1 .. Len(net) : net[i].disseminate_timestamp \in Nat
      /\ \A i \in 1 .. Len(records) : records[i].total_ns \in Nat
  <2>1. /\ \A i \in 1 .. Len(queue) : queue[i] \in Msg
        /\ \A i \in 1 .. Len(net) : net[i] \in Msg
        /\ \A i \in 1 .. Len(records) : records[i] \in Rec
    BY <1>1
  <2>2. /\ \A m \in Msg : /\ m.enqueue_timestamp \in Nat
                          /\ m.disseminate_timestamp \in Nat
        /\ \A r \in Rec : r.total_ns \in Nat
    BY DEF Msg, Rec
  <2> QED
    BY <1>1, <2>1, <2>2
<1>3. \A x \in Nat : x <= now => x <= now'
  BY <1>1
<1> QED
  BY <1>2, <1>3 DEF StampInv, Stamped3, LatenciesAreTrue

LEMMA NextStamps ==
  PlaceInv /\ FlowInv /\ StampInv /\ [Next]_vars => StampInv'
<1> SUFFICES ASSUME PlaceInv, FlowInv, StampInv, [Next]_vars PROVE StampInv'
  OBVIOUS
<1> USE DEF StampInv, Stamped3, LatenciesAreTrue
<1>0. /\ now \in Nat /\ now <= now /\ now <= MaxTime
      /\ genMsg \in Msg /\ disMsg \in Msg /\ recvMsg \in Msg
      /\ queue \in Seq(Msg) /\ net \in Seq(Msg) /\ records \in Seq(Rec)
  BY DEF FlowInv, DataTypes
<1>1. CASE Quiet
  <2>1. /\ UNCHANGED <<genMsg, disMsg, queue, net, recvMsg, records>>
        /\ now' \in Nat /\ now <= now'
    BY <1>1 DEF Quiet, dataVars
  <2> QED
    BY <2>1, StampsKept
<1>2. CASE Generate
  <2>1. genMsg' = [no |-> made + 1, enqueue_timestamp |-> now,
                   disseminate_timestamp |-> 0]
    BY <1>2 DEF Generate, NoMsg
  <2>2. genMsg'.enqueue_timestamp = now
    BY <2>1
  <2> QED
    BY <1>0, <1>2, <2>2 DEF Generate
<1>3. CASE Push
  <2>1. UNCHANGED <<genMsg, disMsg, net, recvMsg, records, now>>
    BY <1>3 DEF Push
  <2>2. \A i \in 1 .. Len(queue') : queue'[i] = genMsg \/ \E j \in 1 .. Len(queue) : queue'[i] = queue[j]
    BY <1>0, <1>3 DEF Push
  <2>3. \A i \in 1 .. Len(queue') : queue'[i].enqueue_timestamp <= now
    BY <2>2
  <2> QED
    BY <2>1, <2>3
<1>4. CASE Pop
  <2>1. UNCHANGED <<genMsg, net, recvMsg, records, now>> /\ queue # << >>
        /\ disMsg' = Head(queue) /\ queue' = Tail(queue)
    BY <1>4 DEF Pop
  <2>2. /\ Len(queue) \in Nat \ {0} /\ disMsg' = queue[1]
        /\ Len(queue') = Len(queue) - 1
        /\ \A i \in 1 .. Len(queue') : queue'[i] = queue[i + 1]
    BY <1>0, <2>1, NumbersOfTail
  <2>3. \A i \in 1 .. Len(queue') : i + 1 \in 1 .. Len(queue)
    BY <2>2
  <2>4. 1 \in 1 .. Len(queue)
    BY <2>2
  <2> QED
    BY <2>1, <2>2, <2>3, <2>4
<1>5. CASE Send
  <2>1. UNCHANGED <<genMsg, disMsg, queue, recvMsg, records, now>>
    BY <1>5 DEF Send
  <2>2. net' = net \/ net' = Append(net, Stamped(disMsg))
    BY <1>5 DEF Send, send_impl
  <2>3. /\ Stamped(disMsg) \in Msg
        /\ Stamped(disMsg).enqueue_timestamp = disMsg.enqueue_timestamp
        /\ Stamped(disMsg).disseminate_timestamp = now
    BY <1>0 DEF Stamped, Msg
  <2>4. \A i \in 1 .. Len(net') :
          net'[i] = Stamped(disMsg) \/ \E j \in 1 .. Len(net) : net'[i] = net[j]
    BY <1>0, <2>2, <2>3
  <2>5. \A i \in 1 .. Len(net') :
          /\ net'[i].enqueue_timestamp <= net'[i].disseminate_timestamp
          /\ net'[i].disseminate_timestamp <= now
    BY <1>0, <2>3, <2>4
  <2> QED
    BY <2>1, <2>5
<1>6. CASE Receive
  <2>1. UNCHANGED <<genMsg, disMsg, queue, records, now>> /\ net # << >>
        /\ recvMsg' = Head(net) /\ net' = Tail(net)
    BY <1>6 DEF Receive, AfterReceive
  <2>2. /\ Len(net) \in Nat \ {0} /\ recvMsg' = net[1]
        /\ Len(net') = Len(net) - 1
        /\ \A i \in 1 .. Len(net') : net'[i] = net[i + 1]
    BY <1>0, <2>1, NumbersOfTail
  <2>3. \A i \in 1 .. Len(net') : i + 1 \in 1 .. Len(net)
    BY <2>2
  <2>4. 1 \in 1 .. Len(net)
    BY <2>2
  <2> QED
    BY <2>1, <2>2, <2>3, <2>4
<1>7. CASE Record
  <2> DEFINE e == recvMsg.enqueue_timestamp
             d == recvMsg.disseminate_timestamp
             r == LatencyRecord(recvMsg, now)
  <2>1. UNCHANGED <<genMsg, disMsg, queue, net, recvMsg, now>>
        /\ records' = Append(records, r)
    BY <1>7 DEF Record
  <2>2. e \in Nat /\ d \in Nat /\ e <= d /\ d <= now
    BY <1>0 DEF Msg
  <2>3. e <= now /\ d <= MaxTime
    BY <1>0, <2>2, StampAssumption
  <2>4. /\ r \in Rec
        /\ r.queue_ns = Elapsed(e, d) /\ r.network_ns = Elapsed(d, now)
        /\ r.total_ns = Elapsed(e, now)
    BY <1>0, <2>2, ElapsedIsNat DEF LatencyRecord, Rec, Msg
  <2>5. r.queue_ns = d - e /\ r.network_ns = now - d /\ r.total_ns = now - e
    BY <1>0, <2>2, <2>3, <2>4, ElapsedIsTrue
  <2> HIDE DEF e, d, r
  <2>6. r.total_ns <= now /\ r.queue_ns + r.network_ns = r.total_ns
    BY <1>0, <2>2, <2>5
  <2>7. \A i \in 1 .. Len(records') :
          records'[i] = r \/ \E j \in 1 .. Len(records) : records'[i] = records[j]
    BY <1>0, <2>1, <2>4
  <2>8. \A i \in 1 .. Len(records') :
          /\ records'[i].total_ns <= now
          /\ records'[i].queue_ns + records'[i].network_ns = records'[i].total_ns
    BY <2>6, <2>7
  <2> QED
    BY <2>1, <2>8
<1> QED
  BY <1>1, <1>2, <1>3, <1>4, <1>5, <1>6, <1>7, QuietSteps

-----------------------------------------------------------------------------
(* Sockets and records *)

\* A message is on its way only while the monitor is there to record it: the
\* generator is started last, so a step of main that throws finds none made.
LEMMA HoldNeedsMonitor ==
  ASSUME PlaceInv, FlowInv, pc["feedhandler"] = "hold"
  PROVE  Len(built) = 5
<1>1. recvMsg.no \in 1 .. made /\ made \in Nat
  BY DEF FlowInv, DataTypes, OrderInv, AtFeedHandler
<1>2. made # 0
  BY <1>1
<1>3. thread["feedhandler"] = "running" /\ step \in 1 .. 14 /\ ~(step <= 10)
  BY <1>2 DEF PlaceInv, MainInv, ThreadInv, Worker
<1>4. phase \in {"go", "join"}
  BY <1>3 DEF PlaceInv, ThreadInv, Worker
<1> QED
  BY <1>3, <1>4 DEF PlaceInv, MainInv

LEMMA InitEnd == Init => EndInv
  BY DEF Init, EndInv

LEMMA NextEnd == PlaceInv /\ FlowInv /\ EndInv /\ [Next]_vars => EndInv'
<1> SUFFICES ASSUME PlaceInv, FlowInv, EndInv, [Next]_vars PROVE EndInv'
  OBVIOUS
<1> USE DEF EndInv, dataVars
<1>0. /\ Len(built) \in Nat /\ step \in 1 .. 14 /\ built \in Seq(Object)
      /\ phase \in {"go", "join"} => Len(built) = IF step <= 5 THEN step - 1 ELSE 5
      /\ phase \in {"options", "dispatch", "go", "join", "unwind", "done", "abort"}
  BY DEF PlaceInv, MainInv
<1>1. CASE ParseOptions \/ dispatch_size \/ Return
  BY <1>0, <1>1 DEF ParseOptions, dispatch_size, Return, PlaceInv, MainInv
<1>2. CASE Exit
  BY <1>0, <1>2 DEF Exit
<1>3. ASSUME NEW o \in Object, Build(o) PROVE EndInv'
  <2>1. step \in 1 .. 5 /\ o = BuildOrder[step] /\ phase = "go"
    BY <1>3, <1>0, AtBuild DEF Build, At
  <2>2. Len(built') = Len(built) + 1 /\ Len(built) = step - 1
    BY <1>0, <1>3, <2>1 DEF Build
  <2>3. UNCHANGED <<saved, records>> /\ phase' = phase /\ open' = open \cup Opens(o)
    BY <1>3 DEF Build
  <2>4. /\ Opens(o) \subseteq {"disseminator", "feedhandler"}
        /\ "disseminator" \in Opens(o) => step = 2
        /\ "feedhandler" \in Opens(o) => step = 3
    BY <2>1, BuildOrderIs DEF Opens
  <2>5. "feedhandler" \in open => Len(built) >= 3
    BY <2>1
  <2>6. "disseminator" \in open' => Len(built') >= 2
    BY <1>0, <2>2, <2>3, <2>4
  <2>7. "feedhandler" \in open' => Len(built') >= 3
    BY <1>0, <2>2, <2>3, <2>4, <2>5
  <2>8. Len(built') < 4 => saved' = records'
    BY <1>0, <2>2, <2>3
  <2> QED
    BY <2>3, <2>4, <2>6, <2>7, <2>8
<1>4. ASSUME NEW o \in Object, Prepare(o) PROVE EndInv'
  <2>1. phase = "go" /\ UNCHANGED <<phase, built, open, saved, records>>
    BY <1>4 DEF Prepare, At
  <2> QED
    BY <2>1
<1>5. ASSUME NEW w \in Worker, Start(w) PROVE EndInv'
  <2>1. phase = "go" /\ UNCHANGED <<phase, built, open, saved, records>>
    BY <1>5 DEF Start, At
  <2> QED
    BY <2>1
<1>6. CASE Throw
  <2>1. phase = "go" /\ phase' = "unwind" /\ UNCHANGED <<step, built, saved, records>>
    BY <1>6 DEF Throw
  <2>2. CASE UNCHANGED open
    BY <2>1, <2>2
  <2>3. CASE At("build", "feedhandler") /\ open' = open \cup {"feedhandler"}
    <3>1. step = 3
      BY <1>0, <2>3, AtBuild, BuildOrderIs
    <3> QED
      BY <2>1, <2>3, <3>1
  <2> QED
    BY <1>6, <2>2, <2>3 DEF Throw
<1>7. ASSUME NEW w \in Worker, Stop(w) \/ Join(w) PROVE EndInv'
  <2>1. phase \in {"go", "join"} /\ UNCHANGED <<built, open, saved, records>>
    BY <1>7 DEF Stop, Join, At
  <2> QED
    BY <2>1
<1>8. ASSUME NEW w \in Worker, DestroyStop(w) PROVE EndInv'
  BY <1>8 DEF DestroyStop
<1>9. ASSUME NEW o \in Object, Destroy(o) PROVE EndInv'
  <2>1. /\ built # << >> /\ phase = "unwind" /\ o = Last(built)
        /\ built' = Front(built) /\ open' = open \ {o}
        /\ saved' = IF o = "monitor" THEN records ELSE saved
        /\ UNCHANGED <<phase, step, records>>
    BY <1>9 DEF Destroy, Closes
  <2>2. Len(built) \in Nat \ {0} /\ o = built[Len(built)] /\ Len(built') = Len(built) - 1
    BY <1>0, <2>1, FrontFacts
  <2>3. Len(built) \in 1 .. 5 /\ o = BuildOrder[Len(built)]
    BY <2>2 DEF PlaceInv, MainInv
  <2>4. /\ Len(built) = 2 => o = "disseminator"
        /\ Len(built) = 3 => o = "feedhandler"
        /\ Len(built) = 4 => o = "monitor"
    BY <2>3, BuildOrderIs
  <2>5. Len(built') < 4 => saved' = records
    BY <2>1, <2>2, <2>3, <2>4
  <2>6. "disseminator" \in open' => Len(built') >= 2
    BY <2>1, <2>2, <2>3, <2>4
  <2>7. "feedhandler" \in open' => Len(built') >= 3 \/ (step = 3 /\ phase = "unwind")
    BY <2>1, <2>2, <2>3, <2>4
  <2> QED
    BY <2>1, <2>5, <2>6, <2>7
<1>10. CASE Record
  <2>1. Len(built) = 5 /\ UNCHANGED mainVars
    BY <1>10, HoldNeedsMonitor DEF Record
  <2> QED
    BY <2>1 DEF mainVars
<1>11. CASE UNCHANGED <<mainVars, records>>
  BY <1>11 DEF mainVars
<1>12. CASE Main
  BY <1>1, <1>2, <1>3, <1>4, <1>5, <1>7, <1>8, <1>9, <1>12 DEF Main
<1>13. CASE ~Main /\ ~Throw /\ ~Record
  <2>1. UNCHANGED <<mainVars, records>>
    BY <1>13 DEF Next, GeneratorStep, DisseminatorStep, FeedHandlerStep, LoopTest,
                 LoopIdle, Generate, Push, GiveUp, Pop, Send, Receive, Tick, vars
  <2> QED
    BY <1>11, <2>1
<1> QED
  BY <1>6, <1>10, <1>12, <1>13

-----------------------------------------------------------------------------
(* Theorems *)

PipelineInv == PlaceInv /\ FlowInv /\ GaplessInv /\ StampInv /\ EndInv

\* The inductive invariant: main's place in the Plan determines which objects
\* and threads are there, and the messages are in order at every stage.
THEOREM PipelineInvariant == Spec => []PipelineInv
<1>1. Init => PipelineInv
  BY InitPlaceInv, InitFlowInv, InitGapless, InitStamps, InitEnd DEF PipelineInv
<1>2. PipelineInv /\ [Next]_vars => PipelineInv'
  BY NextPlaceInv, NextFlowInv, NextGapless, NextStamps, NextEnd DEF PipelineInv
<1> QED
  BY <1>1, <1>2, PTL DEF Spec

\* Places, objects and buffers keep their types and capacities.
THEOREM PipelineTypeCorrect == Spec => []TypeOK
<1>1. PipelineInv => TypeOK
  <2> SUFFICES ASSUME PipelineInv PROVE TypeOK
    OBVIOUS
  <2>1. \A w \in Worker : /\ thread[w] \in {"none", "running", "ended"}
                          /\ pc[w] \in {"test", "run", "hold"}
    BY DEF PipelineInv, PlaceInv, ThreadInv
  <2>2. stopping \subseteq Worker /\ open \subseteq Worker
    BY DEF PipelineInv, PlaceInv, ThreadInv, EndInv, Worker
  <2>3. /\ phase \in {"options", "dispatch", "go", "join", "unwind", "done", "abort"}
        /\ step \in 1 .. Len(Plan) + 1
    BY PlanSteps DEF PipelineInv, PlaceInv, MainInv
  <2>4. ToSet(built) \subseteq Object
    <3>1. built \in Seq(Object)
      BY DEF PipelineInv, PlaceInv, MainInv
    <3> QED
      BY <3>1 DEF ToSet
  <2>5. /\ now \in 0 .. MaxTime /\ made \in 0 .. MaxMessages
        /\ Len(queue) <= QueueCapacity /\ Len(net) <= NetCapacity
    BY StampAssumption, MessagesAssumption DEF PipelineInv, FlowInv, DataTypes
  <2> QED
    BY <2>1, <2>2, <2>3, <2>4, <2>5 DEF TypeOK
<1> QED
  BY <1>1, PipelineInvariant, PTL

\* Every recorded latency is a true duration, and the parts add up, whatever the
\* threads' interleaving, as long as the clock fits the width of a time stamp.
THEOREM LatenciesCorrect == Spec => []LatenciesAreTrue
<1>1. PipelineInv => LatenciesAreTrue
  BY DEF PipelineInv, StampInv
<1> QED
  BY <1>1, PipelineInvariant, PTL

\* No message is lost between the generator and send_impl before the generator
\* is asked to stop.
THEOREM QueueIsLossless == Spec => []NothingLostInside
<1>1. PipelineInv => NothingLostInside
  <2> SUFFICES ASSUME PipelineInv, "generator" \notin stopping, NEW n \in Inside,
                      NEW m \in n .. made
               PROVE  m \in Inside
    BY DEF NothingLostInside
  <2> USE DEF PipelineInv
  <2>0. /\ made \in Nat /\ Len(queue) \in Nat
        /\ \A i \in 1 .. Len(queue) : queue[i].no = Newest - Len(queue) + i
        /\ pc["disseminator"] = "hold" => disMsg.no = Newest - Len(queue)
        /\ pc["generator"] = "hold" => genMsg.no = made /\ Newest = made - 1
        /\ pc["generator"] # "hold" => Newest = made
    BY DEF FlowInv, DataTypes, OrderInv, AtGenerator, GaplessInv, Newest
  <2>1. /\ n \in Int /\ n >= Newest - Len(queue)
        /\ n = Newest - Len(queue) => pc["disseminator"] = "hold"
    <3>1. CASE pc["generator"] = "hold" /\ n = genMsg.no
      BY <2>0, <3>1
    <3>2. CASE pc["disseminator"] = "hold" /\ n = disMsg.no
      BY <2>0, <3>2
    <3>3. ASSUME NEW i \in 1 .. Len(queue), n = queue[i].no
          PROVE  n \in Int /\ n > Newest - Len(queue)
      BY <2>0, <3>3
    <3> QED
      BY <2>0, <3>1, <3>2, <3>3 DEF Inside
  <2>2. m \in Int /\ n <= m /\ m <= made
    BY <2>0, <2>1
  <2>3. CASE m = made /\ pc["generator"] = "hold"
    BY <2>0, <2>3 DEF Inside
  <2>4. CASE m = Newest - Len(queue)
    <3>1. pc["disseminator"] = "hold" /\ m = disMsg.no
      BY <2>0, <2>1, <2>2, <2>4
    <3> QED
      BY <3>1 DEF Inside
  <2>5. CASE m > Newest - Len(queue) /\ m <= Newest
    <3> DEFINE i == m - (Newest - Len(queue))
    <3>1. i \in 1 .. Len(queue) /\ Newest - Len(queue) + i = m
      BY <2>0, <2>2, <2>5
    <3>2. queue[i].no = m
      BY <2>0, <3>1
    <3> QED
      BY <3>1, <3>2 DEF Inside
  <2> QED
    BY <2>0, <2>1, <2>2, <2>3, <2>4, <2>5
<1> QED
  BY <1>1, PipelineInvariant, PTL

\* Whichever step of main throws, a thread only uses objects that are there.
THEOREM NoUseAfterDestroy == Spec => []UsesAreAlive
<1>1. PipelineInv => UsesAreAlive
  <2> SUFFICES ASSUME PipelineInv PROVE UsesAreAlive
    OBVIOUS
  <2> USE DEF PipelineInv
  <2>0. /\ built \in Seq(Object) /\ \A i \in 1 .. Len(built) : built[i] = BuildOrder[i]
        /\ Len(built) \in Nat
        /\ phase \in {"go", "join"} /\ step > 5 => Len(built) = 5
        /\ step \in 1 .. 14
    BY DEF PlaceInv, MainInv
  <2>1. \A i \in 1 .. Len(built) : BuildOrder[i] \in ToSet(built)
    BY <2>0 DEF ToSet
  <2>2. ASSUME thread["generator"] = "running"
        PROVE  /\ {"queue", "generator"} \subseteq ToSet(built)
               /\ ~(phase = "unwind" /\ Last(built) = "generator")
    <3>1. step = 11 /\ phase \in {"go", "join"} /\ Len(built) = 5
      BY <2>0, <2>2 DEF PlaceInv, ThreadInv
    <3>2. 1 \in 1 .. Len(built) /\ 5 \in 1 .. Len(built)
      BY <3>1
    <3> QED
      BY <2>1, <3>1, <3>2, BuildOrderIs
  <2>3. ASSUME thread["disseminator"] = "running"
        PROVE  {"queue", "disseminator"} \subseteq ToSet(built)
    <3>1. 1 \in 1 .. Len(built) /\ 2 \in 1 .. Len(built)
      BY <2>0, <2>3 DEF PlaceInv, ThreadInv
    <3> QED
      BY <2>1, <3>1, BuildOrderIs
  <2>4. ASSUME thread["feedhandler"] = "running"
        PROVE  "feedhandler" \in ToSet(built)
    <3>1. 3 \in 1 .. Len(built)
      BY <2>0, <2>4 DEF PlaceInv, ThreadInv
    <3> QED
      BY <2>1, <3>1, BuildOrderIs
  <2>5. ASSUME pc["feedhandler"] = "hold"
        PROVE  "monitor" \in ToSet(built)
    <3>1. Len(built) = 5
      BY <2>5, HoldNeedsMonitor
    <3>2. 4 \in 1 .. Len(built)
      BY <3>1
    <3> QED
      BY <2>1, <3>2, BuildOrderIs
  <2> QED
    BY <2>2, <2>3, <2>4, <2>5 DEF UsesAreAlive
<1> QED
  BY <1>1, PipelineInvariant, PTL

\* When main is done, no thread is left, every record has been saved, and no
\* socket is open but that of a feed handler whose constructor threw.
THEOREM MainCleansUp == Spec => []EndsClean
<1>1. PipelineInv => EndsClean
  <2> SUFFICES ASSUME PipelineInv, phase = "done"
               PROVE  /\ \A w \in Worker : thread[w] = "none"
                      /\ saved = records
                      /\ open # {} => /\ open = {"feedhandler"}
                                      /\ Plan[step] = <<"build", "feedhandler">>
    BY DEF EndsClean
  <2> USE DEF PipelineInv
  <2>1. Len(built) = 0
    BY DEF PlaceInv, MainInv
  <2>2. \A w \in Worker : thread[w] = "none"
    BY <2>1 DEF PlaceInv, ThreadInv, Worker
  <2>3. saved = records
    BY <2>1 DEF EndInv
  <2>4. "disseminator" \notin open /\ ("feedhandler" \in open => step = 3)
    BY <2>1 DEF EndInv
  <2>5. open # {} => open = {"feedhandler"} /\ step = 3
    BY <2>4 DEF EndInv
  <2> QED
    BY <2>2, <2>3, <2>5, PlanSteps
<1> QED
  BY <1>1, PipelineInvariant, PTL

\* From generator to monitor the pipeline refines a channel that may lose
\* messages but never repeats, reorders or invents one.
THEOREM PipelineIsChannel == Spec => ImplementsChannel
<1>1. Init => Channel!ChannelInit
  BY DEF Init, Channel!ChannelInit
<1>2. PipelineInv /\ [Next]_vars
        => [Channel!SendNext \/ Channel!ReceiveSome]_(Channel!channelVars)
  <2> SUFFICES ASSUME PipelineInv, [Next]_vars
               PROVE  \/ Channel!SendNext \/ Channel!ReceiveSome
                      \/ UNCHANGED Channel!channelVars
    OBVIOUS
  <2> USE DEF PipelineInv
  <2> DEFINE Got(r) == [i \in 1 .. Len(r) |-> r[i].no]
  <2>1. CASE Generate
    BY <2>1 DEF Generate, Channel!SendNext
  <2>2. CASE Record
    <3> DEFINE n == recvMsg.no
               rec == LatencyRecord(recvMsg, now)
    <3>1. records \in Seq(Rec) /\ recvMsg \in Msg /\ now \in Nat
      BY DEF FlowInv, DataTypes
    <3>2. rec \in Rec /\ rec.no = n
      BY <3>1, ElapsedIsNat DEF LatencyRecord, Rec, Msg
    <3>3. records' = Append(records, rec) /\ made' = made
      BY <2>2 DEF Record
    <3> HIDE DEF rec
    <3>4. n \in 1 .. made /\ \A i \in 1 .. Len(records) : records[i].no < n
      BY <2>2 DEF Record, FlowInv, OrderInv, Before, AtFeedHandler, AtMonitor, Numbers
    <3>5. /\ Len(records') = Len(records) + 1 /\ Len(records) \in Nat
          /\ \A i \in 1 .. Len(records) : records'[i] = records[i]
          /\ records'[Len(records) + 1] = rec
          /\ \A i \in 1 .. Len(records) : records[i].no \in Nat
      <4>1. /\ Len(records') = Len(records) + 1 /\ Len(records) \in Nat
            /\ \A i \in 1 .. Len(records) : records'[i] = records[i]
            /\ records'[Len(records) + 1] = rec
            /\ \A i \in 1 .. Len(records) : records[i] \in Rec
        BY <3>1, <3>2, <3>3
      <4>2. \A r \in Rec : r.no \in Nat
        BY DEF Rec
      <4> QED
        BY <4>1, <4>2
    <3>6. Got(records') = Append(Got(records), n)
      <4>1. Got(records) \in Seq(Nat) /\ Len(Got(records)) = Len(records) /\ n \in Nat
        BY <3>1, <3>5 DEF Msg
      <4>2. \A i \in 1 .. Len(records) + 1 :
              Append(Got(records), n)[i] = IF i = Len(records) + 1 THEN n
                                           ELSE records[i].no
        BY <3>5, <4>1
      <4>3. \A i \in 1 .. Len(records) + 1 :
              records'[i].no = IF i = Len(records) + 1 THEN n ELSE records[i].no
        BY <3>2, <3>5
      <4>4. Append(Got(records), n) = [i \in 1 .. Len(records) + 1 |->
                                         Append(Got(records), n)[i]]
        BY <3>5, <4>1
      <4> QED
        BY <3>5, <4>2, <4>3, <4>4
    <3>7. \A i \in DOMAIN Got(records) : Got(records)[i] < n
      BY <3>4
    <3>8. Channel!ReceiveSome
      BY <3>3, <3>4, <3>6, <3>7 DEF Channel!ReceiveSome
    <3> QED
      BY <3>8
  <2>3. CASE ~Generate /\ ~Record
    <3>1. UNCHANGED <<made, records>>
      BY <2>3, QuietSteps DEF Quiet, dataVars, Push, Pop, Send, Receive
    <3> QED
      BY <3>1 DEF Channel!channelVars
  <2> QED
    BY <2>1, <2>2, <2>3
<1> QED
  BY <1>1, <1>2, PipelineInvariant, PTL
     DEF Spec, ImplementsChannel, Channel!ChannelSpec
=============================================================================
