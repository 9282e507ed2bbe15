---------------------- MODULE WaitableSpscQueueProofs -----------------------
(***************************************************************************)
(* Proofs about WaitableSpscQueue for every capacity, every size of the    *)
(* store buffers and every number of pushes.                               *)
(***************************************************************************)
EXTENDS WaitableSpscQueue, TLAPS

-----------------------------------------------------------------------------
(* The inductive invariant: what may wait in the store buffers at each place *)

\* The stores that wait: a counter, or the flag being cleared.  The one store
\* of TRUE goes past the buffer.
WriteStore(n) == [loc |-> "write_", val |-> n]
ReadStore(n)  == [loc |-> "read_", val |-> n]
ClearStore    == [loc |-> "is_sleeping_", val |-> FALSE]

Entry == [loc : {"write_", "read_"}, val : Nat] \cup {ClearStore}

\* Pushes whose store has not reached memory: all that waits in the producer's
\* buffer but the flag, which only comes last.
Unpublished ==
  IF pushPc = "notify" /\ Len(buf["producer"]) > 0 THEN Len(buf["producer"]) - 1
  ELSE Len(buf["producer"])

\* The value of write_ the producer sees.
Newest == mem.write_ + Unpublished

TypesInv ==
  /\ mem \in [write_ : Nat, read_ : Nat, is_sleeping_ : BOOLEAN]
  /\ buf \in [Thread -> Seq(Entry)]
  /\ pushPc \in {"idle", "check", "clear", "notify"}
  /\ popPc \in {"outside", "test", "first", "sleep", "second", "awake", "wait",
                "blocked", "return", "ended"}
  /\ popRet \in BOOLEAN /\ registered \in BOOLEAN /\ stopRequested \in BOOLEAN
  /\ stopPc \in {"idle", "callback", "notify", "join", "joined"}
  /\ \A t \in Thread : Len(buf[t]) <= BufferSize + 1

\* The producer's buffer holds consecutive values of write_, and last the flag.
ProducerInv ==
  /\ \A i \in 1 .. Len(buf["producer"]) :
       buf["producer"][i] = IF i <= Unpublished THEN WriteStore(mem.write_ + i)
                            ELSE ClearStore
  /\ pushPc = "idle" => Len(buf["producer"]) <= BufferSize

\* The consumer's buffer holds at most one value of read_ and then the flag; it is
\* empty before every attempt to take an item, and while the consumer sleeps.
ConsumerInv ==
  /\ Len(buf["consumer"]) <= 2
  /\ \A i \in 1 .. Len(buf["consumer"]) :
       \/ buf["consumer"][i] = ClearStore
       \/ i = 1 /\ buf["consumer"][i] = ReadStore(mem.read_ + 1)
  /\ popPc \in {"outside", "first", "sleep", "second", "wait", "blocked"} =>
       Len(buf["consumer"]) = 0
  /\ popPc = "awake" => Len(buf["consumer"]) <= 1
  /\ popPc = "test" => \A i \in 1 .. Len(buf["consumer"]) :
                         buf["consumer"][i] = ClearStore /\ stopRequested
  /\ popPc = "test" => Len(buf["consumer"]) <= 1
  /\ popPc \in {"first", "sleep", "second", "awake", "wait", "blocked"} => registered
  /\ popPc = "test" /\ ~registered => stopRequested
  /\ popPc = "return" /\ ~registered => ~popRet

StopperInv ==
  /\ \A i \in 1 .. Len(buf["stopper"]) : buf["stopper"][i] = ClearStore
  /\ Len(buf["stopper"]) <= 1
  /\ Len(buf["stopper"]) > 0 => stopPc = "notify"

\* Neither counter overtakes the other, waiting stores included.
CountInv ==
  /\ mem.read_ <= mem.write_
  /\ \A i \in 1 .. Len(buf["consumer"]) :
       buf["consumer"][i] # ClearStore => mem.read_ + 1 <= mem.write_
  /\ Newest <= MaxPushes /\ Newest <= mem.read_ + Capacity

\* A consumer that sleeps, or is about to, with its flag up misses no more
\* pushes than fit in the producer's buffer.
MissedInv ==
  /\ popPc \in {"wait", "blocked"} /\ mem.is_sleeping_
  /\ pushPc = "idle" \/ (pushPc = "notify" /\ Len(buf["producer"]) = 0)
  => Newest <= mem.read_ + BufferSize

WakeInv == TypesInv /\ ProducerInv /\ ConsumerInv /\ StopperInv /\ CountInv
           /\ NoMissedNotify /\ MissedInv

-----------------------------------------------------------------------------
(* Buffers and memory *)

LEMMA EntryFacts ==
  /\ \A n \in Nat : /\ WriteStore(n) \in Entry /\ WriteStore(n).loc = "write_"
                    /\ WriteStore(n).val = n /\ WriteStore(n) # ClearStore
                    /\ ReadStore(n) \in Entry /\ ReadStore(n).loc = "read_"
                    /\ ReadStore(n).val = n /\ ReadStore(n) # ClearStore
  /\ ClearStore \in Entry /\ ClearStore.loc = "is_sleeping_" /\ ClearStore.val = FALSE
  BY DEF WriteStore, ReadStore, ClearStore, Entry

LEMMA MemTypes ==
  ASSUME TypesInv
  PROVE  /\ mem.write_ \in Nat /\ mem.read_ \in Nat /\ mem.is_sleeping_ \in BOOLEAN
         /\ BufferSize \in Nat /\ Capacity \in Nat \ {0} /\ MaxPushes \in Nat
  BY BufferAssumption, CapacityAssumption, BoundAssumption DEF TypesInv

LEMMA BufTypes ==
  ASSUME TypesInv
  PROVE  \A t \in Thread : /\ buf[t] \in Seq(Entry) /\ Len(buf[t]) \in Nat
                           /\ buf[t] = << >> <=> Len(buf[t]) = 0
  BY DEF TypesInv

LEMMA StoreFacts ==
  ASSUME TypesInv, NEW t \in Thread, NEW e \in Entry,
         buf' = [buf EXCEPT ![t] = Append(@, e)]
  PROVE  /\ buf' \in [Thread -> Seq(Entry)]
         /\ Len(buf'[t]) = Len(buf[t]) + 1
         /\ \A i \in 1 .. Len(buf[t]) : buf'[t][i] = buf[t][i]
         /\ buf'[t][Len(buf[t]) + 1] = e
         /\ \A u \in Thread : u # t => buf'[u] = buf[u]
<1>1. buf \in [Thread -> Seq(Entry)] /\ buf[t] \in Seq(Entry)
  BY DEF TypesInv
<1>2. buf'[t] = Append(buf[t], e) /\ \A u \in Thread : u # t => buf'[u] = buf[u]
  BY <1>1
<1>3. /\ Append(buf[t], e) \in Seq(Entry)
      /\ Len(Append(buf[t], e)) = Len(buf[t]) + 1
      /\ \A i \in 1 .. Len(buf[t]) : Append(buf[t], e)[i] = buf[t][i]
      /\ Append(buf[t], e)[Len(buf[t]) + 1] = e
  BY <1>1
<1> QED
  BY <1>1, <1>2, <1>3

LEMMA DrainFacts ==
  ASSUME TypesInv, NEW t \in Thread, Drain(t)
  PROVE  /\ Len(buf[t]) \in Nat \ {0}
         /\ mem' = [mem EXCEPT ![buf[t][1].loc] = buf[t][1].val]
         /\ buf' \in [Thread -> Seq(Entry)]
         /\ Len(buf'[t]) = Len(buf[t]) - 1
         /\ \A i \in 1 .. Len(buf'[t]) : buf'[t][i] = buf[t][i + 1]
         /\ \A u \in Thread : u # t => buf'[u] = buf[u]
         /\ UNCHANGED <<pushPc, popPc, popRet, registered, stopRequested, stopPc>>
<1>1. buf \in [Thread -> Seq(Entry)] /\ buf[t] \in Seq(Entry) /\ buf[t] # << >>
  BY DEF TypesInv, Drain
<1>2. buf'[t] = Tail(buf[t]) /\ \A u \in Thread : u # t => buf'[u] = buf[u]
  BY <1>1 DEF Drain
<1>3. /\ Len(buf[t]) \in Nat \ {0} /\ Head(buf[t]) = buf[t][1]
      /\ Tail(buf[t]) \in Seq(Entry)
      /\ Len(Tail(buf[t])) = Len(buf[t]) - 1
      /\ \A i \in 1 .. Len(Tail(buf[t])) : Tail(buf[t])[i] = buf[t][i + 1]
  BY <1>1
<1> QED
  BY <1>1, <1>2, <1>3 DEF Drain, stopVars

\* What a store does to memory when it drains.
LEMMA MemAfter ==
  ASSUME TypesInv, NEW e, mem' = [mem EXCEPT ![e.loc] = e.val]
  PROVE  /\ \A n \in Nat : e = WriteStore(n) =>
              /\ mem' \in [write_ : Nat, read_ : Nat, is_sleeping_ : BOOLEAN]
              /\ mem'.write_ = n /\ mem'.read_ = mem.read_
              /\ mem'.is_sleeping_ = mem.is_sleeping_
         /\ \A n \in Nat : e = ReadStore(n) =>
              /\ mem' \in [write_ : Nat, read_ : Nat, is_sleeping_ : BOOLEAN]
              /\ mem'.read_ = n /\ mem'.write_ = mem.write_
              /\ mem'.is_sleeping_ = mem.is_sleeping_
         /\ e = ClearStore =>
              /\ mem' \in [write_ : Nat, read_ : Nat, is_sleeping_ : BOOLEAN]
              /\ mem'.read_ = mem.read_ /\ mem'.write_ = mem.write_
              /\ mem'.is_sleeping_ = FALSE
<1>0. mem \in [write_ : Nat, read_ : Nat, is_sleeping_ : BOOLEAN]
  BY DEF TypesInv
<1>1. ASSUME NEW n \in Nat, e = WriteStore(n)
      PROVE  /\ mem' \in [write_ : Nat, read_ : Nat, is_sleeping_ : BOOLEAN]
             /\ mem'.write_ = n /\ mem'.read_ = mem.read_
             /\ mem'.is_sleeping_ = mem.is_sleeping_
  <2>1. mem' = [mem EXCEPT !["write_"] = n]
    BY <1>1, EntryFacts
  <2> QED
    BY <1>0, <2>1
<1>2. ASSUME NEW n \in Nat, e = ReadStore(n)
      PROVE  /\ mem' \in [write_ : Nat, read_ : Nat, is_sleeping_ : BOOLEAN]
             /\ mem'.read_ = n /\ mem'.write_ = mem.write_
             /\ mem'.is_sleeping_ = mem.is_sleeping_
  <2>1. mem' = [mem EXCEPT !["read_"] = n]
    BY <1>2, EntryFacts
  <2> QED
    BY <1>0, <2>1
<1>3. ASSUME e = ClearStore
      PROVE  /\ mem' \in [write_ : Nat, read_ : Nat, is_sleeping_ : BOOLEAN]
             /\ mem'.read_ = mem.read_ /\ mem'.write_ = mem.write_
             /\ mem'.is_sleeping_ = FALSE
  <2>1. mem' = [mem EXCEPT !["is_sleeping_"] = FALSE]
    BY <1>3, EntryFacts
  <2> QED
    BY <1>0, <2>1
<1> QED
  BY <1>1, <1>2, <1>3

\* What the threads see.
LEMMA EmptyBufferSeesMemory ==
  ASSUME NEW t, Len(buf[t]) = 0, NEW l
  PROVE  Load(t, l) = mem[l]
  BY DEF Load, Waiting

LEMMA ProducerSees ==
  ASSUME TypesInv, ProducerInv
  PROVE  /\ Load("producer", "write_") = Newest
         /\ Load("producer", "read_") = mem.read_
         /\ pushPc # "notify" => Load("producer", "is_sleeping_") = mem.is_sleeping_
<1> DEFINE b == buf["producer"]
<1>1. Len(b) \in Nat /\ Unpublished \in 0 .. Len(b) /\ mem.write_ \in Nat
  BY BufTypes, MemTypes DEF Thread, Unpublished
<1>2. \A i \in 1 .. Len(b) : /\ i <= Unpublished => b[i] = WriteStore(mem.write_ + i)
                             /\ ~(i <= Unpublished) => b[i] = ClearStore
  BY DEF ProducerInv
<1>3. \A i \in 1 .. Len(b) : /\ i <= Unpublished => /\ b[i].loc = "write_"
                                                    /\ b[i].val = mem.write_ + i
                             /\ ~(i <= Unpublished) => b[i].loc = "is_sleeping_"
  <2> SUFFICES ASSUME NEW i \in 1 .. Len(b)
               PROVE  /\ i <= Unpublished => /\ b[i].loc = "write_"
                                             /\ b[i].val = mem.write_ + i
                      /\ ~(i <= Unpublished) => b[i].loc = "is_sleeping_"
    OBVIOUS
  <2>1. mem.write_ + i \in Nat
    BY <1>1
  <2> QED
    BY <1>2, <2>1, EntryFacts
<1>4. Waiting("producer", "write_") = 1 .. Unpublished
  BY <1>1, <1>3 DEF Waiting
<1>5. Waiting("producer", "read_") = {}
  BY <1>3 DEF Waiting
<1>6. pushPc # "notify" => Waiting("producer", "is_sleeping_") = {}
  BY <1>1, <1>3 DEF Waiting, Unpublished
<1>7. Load("producer", "write_") = Newest
  <2>1. CASE Unpublished = 0
    <3>1. Waiting("producer", "write_") = {}
      BY <1>4, <2>1
    <3> QED
      BY <1>1, <2>1, <3>1 DEF Load, Newest
  <2>2. CASE Unpublished # 0
    <3> DEFINE k == CHOOSE i \in 1 .. Unpublished : \A j \in 1 .. Unpublished : j <= i
    <3>1. Unpublished \in 1 .. Unpublished /\ \A j \in 1 .. Unpublished : j <= Unpublished
      BY <1>1, <2>2
    <3>2. k \in 1 .. Unpublished /\ \A j \in 1 .. Unpublished : j <= k
      BY <3>1
    <3>3. k = Unpublished
      BY <1>1, <3>1, <3>2
    <3>4. Load("producer", "write_") = b[k].val
      BY <1>4, <3>1 DEF Load
    <3> HIDE DEF k
    <3> QED
      BY <1>1, <1>3, <2>2, <3>3, <3>4 DEF Newest
  <2> QED
    BY <2>1, <2>2
<1> QED
  BY <1>5, <1>6, <1>7 DEF Load

-----------------------------------------------------------------------------
(* What a step leaves alone *)

LEMMA ProducerKept ==
  ASSUME ProducerInv, mem'.write_ = mem.write_, buf'["producer"] = buf["producer"],
         pushPc' = pushPc
  PROVE  ProducerInv' /\ Unpublished' = Unpublished /\ Newest' = Newest
  BY DEF ProducerInv, Unpublished, Newest

LEMMA ConsumerKept ==
  ASSUME ConsumerInv, mem'.read_ = mem.read_, buf'["consumer"] = buf["consumer"],
         popPc' = popPc, popRet' = popRet, registered' = registered,
         stopRequested => stopRequested'
  PROVE  ConsumerInv'
  BY DEF ConsumerInv

LEMMA StopperKept ==
  ASSUME StopperInv, buf'["stopper"] = buf["stopper"], stopPc' = stopPc
  PROVE  StopperInv'
  BY DEF StopperInv

LEMMA CountKept ==
  ASSUME CountInv, mem'.read_ = mem.read_, mem'.write_ = mem.write_,
         Newest' = Newest, buf'["consumer"] = buf["consumer"]
  PROVE  CountInv'
  BY DEF CountInv

-----------------------------------------------------------------------------
(* push *)

LEMMA InitWakeInv == Init => WakeInv
<1> SUFFICES ASSUME Init PROVE WakeInv
  OBVIOUS
<1> USE DEF Init, Thread
<1>1. \A t \in Thread : buf[t] = << >> /\ Len(buf[t]) = 0
  OBVIOUS
<1>2. TypesInv
  <2>1. buf \in [Thread -> Seq(Entry)]
    <3>1. << >> \in Seq(Entry)
      OBVIOUS
    <3> QED
      BY <3>1
  <2>2. mem \in [write_ : Nat, read_ : Nat, is_sleeping_ : BOOLEAN]
    OBVIOUS
  <2>3. \A t \in Thread : Len(buf[t]) <= BufferSize + 1
    BY <1>1, BufferAssumption
  <2> QED
    BY <2>1, <2>2, <2>3 DEF TypesInv
<1>3. mem.write_ = 0 /\ mem.read_ = 0 /\ mem.is_sleeping_ = FALSE
  OBVIOUS
<1>4. ProducerInv /\ Newest = 0
  BY <1>1, <1>3, BufferAssumption DEF ProducerInv, Newest, Unpublished
<1>5. ConsumerInv
  BY <1>1 DEF ConsumerInv
<1>6. StopperInv
  BY <1>1 DEF StopperInv
<1>7. CountInv
  BY <1>1, <1>3, <1>4, BoundAssumption, CapacityAssumption DEF CountInv
<1>8. NoMissedNotify /\ MissedInv
  BY DEF NoMissedNotify, MissedInv
<1> QED
  BY <1>2, <1>4, <1>5, <1>6, <1>7, <1>8 DEF WakeInv

LEMMA PushStoreStep == ASSUME WakeInv, PushStore PROVE WakeInv'
<1> USE DEF WakeInv
<1>0. "producer" \in Thread /\ "consumer" \in Thread /\ "stopper" \in Thread
  BY DEF Thread
<1>1. /\ pushPc = "idle" /\ pushPc' = "check" /\ Len(buf["producer"]) <= BufferSize
      /\ Newest < MaxPushes /\ Newest - mem.read_ # Capacity
      /\ buf' = [buf EXCEPT !["producer"] = Append(@, WriteStore(Newest + 1))]
      /\ UNCHANGED <<mem, popPc, popRet, registered, stopRequested, stopPc>>
  BY ProducerSees DEF PushStore, Store, WriteStore, Full, Ready, stopVars
<1>2. /\ mem.write_ \in Nat /\ mem.read_ \in Nat /\ Len(buf["producer"]) \in Nat
      /\ BufferSize \in Nat /\ Capacity \in Nat /\ MaxPushes \in Nat
  BY <1>0, MemTypes, BufTypes
<1>3. Unpublished = Len(buf["producer"]) /\ Newest = mem.write_ + Len(buf["producer"])
  BY <1>1 DEF Unpublished, Newest
<1>4. WriteStore(Newest + 1) \in Entry
  BY <1>2, <1>3, EntryFacts
<1>5. /\ buf' \in [Thread -> Seq(Entry)]
      /\ Len(buf'["producer"]) = Len(buf["producer"]) + 1
      /\ \A i \in 1 .. Len(buf["producer"]) : buf'["producer"][i] = buf["producer"][i]
      /\ buf'["producer"][Len(buf["producer"]) + 1] = WriteStore(Newest + 1)
      /\ \A u \in Thread : u # "producer" => buf'[u] = buf[u]
  BY <1>0, <1>1, <1>4, StoreFacts
<1>6. /\ buf'["consumer"] = buf["consumer"] /\ buf'["stopper"] = buf["stopper"]
      /\ mem' = mem
  BY <1>0, <1>1, <1>5
<1>7. TypesInv'
  <2>1. \A t \in Thread : Len(buf'[t]) <= BufferSize + 1
    <3> SUFFICES ASSUME NEW t \in Thread PROVE Len(buf'[t]) <= BufferSize + 1
      OBVIOUS
    <3>1. CASE t = "producer"
      BY <1>1, <1>2, <1>5, <3>1
    <3>2. CASE t # "producer"
      BY <1>5, <3>2 DEF TypesInv
    <3> QED
      BY <3>1, <3>2
  <2> QED
    BY <1>1, <1>5, <2>1 DEF TypesInv
<1>8. Unpublished' = Unpublished + 1 /\ Newest' = Newest + 1
  <2>1. Unpublished' = Len(buf'["producer"])
    BY <1>1 DEF Unpublished
  <2>2. Len(buf'["producer"]) = Len(buf["producer"]) + 1
    BY <1>5
  <2>3. Newest' = mem.write_ + Unpublished'
    BY <1>6 DEF Newest
  <2> QED
    BY <1>2, <1>3, <2>1, <2>2, <2>3
<1>9. ProducerInv'
  <2>1. ASSUME NEW i \in 1 .. Len(buf'["producer"])
        PROVE  i <= Unpublished' /\ buf'["producer"][i] = WriteStore(mem'.write_ + i)
    <3>1. CASE i \in 1 .. Len(buf["producer"])
      BY <1>2, <1>3, <1>5, <1>6, <1>8, <3>1 DEF ProducerInv
    <3>2. CASE i = Len(buf["producer"]) + 1
      <4>1. i <= Unpublished' /\ mem'.write_ + i = Newest + 1
        BY <1>2, <1>3, <1>6, <1>8, <3>2
      <4>2. buf'["producer"][i] = WriteStore(Newest + 1)
        BY <1>5, <3>2
      <4> QED
        BY <4>1, <4>2
    <3> QED
      BY <1>2, <1>5, <3>1, <3>2
  <2> QED
    BY <1>1, <2>1 DEF ProducerInv
<1>10. ConsumerInv' /\ StopperInv'
  BY <1>1, <1>6, ConsumerKept, StopperKept
<1>11. CountInv'
  <2>1. Newest' <= MaxPushes /\ Newest' <= mem'.read_ + Capacity
    <3>1. Newest \in Nat /\ Newest <= mem.read_ + Capacity /\ Newest < MaxPushes
          /\ Newest - mem.read_ # Capacity
      BY <1>1, <1>2, <1>3 DEF CountInv
    <3> QED
      BY <1>2, <1>6, <1>8, <3>1
  <2> QED
    BY <1>6, <2>1 DEF CountInv
<1>12. NoMissedNotify' /\ MissedInv'
  BY <1>1, <1>6 DEF NoMissedNotify, MissedInv
<1> QED
  BY <1>7, <1>9, <1>10, <1>11, <1>12

LEMMA PushCheckStep == ASSUME WakeInv, PushCheck PROVE WakeInv'
<1> USE DEF WakeInv
<1>0. "producer" \in Thread
  BY DEF Thread
<1>1. /\ pushPc = "check" /\ Len(buf["producer"]) <= BufferSize
      /\ pushPc' = IF mem.is_sleeping_ THEN "clear" ELSE "idle"
      /\ UNCHANGED <<mem, buf, popPc, popRet, registered, stopRequested, stopPc>>
  BY ProducerSees DEF PushCheck, Ready, stopVars
<1>2. TypesInv'
  BY <1>1 DEF TypesInv
<1>3. Unpublished' = Unpublished /\ Newest' = Newest
  BY <1>1 DEF Unpublished, Newest
<1>4. ProducerInv'
  BY <1>1, <1>3 DEF ProducerInv
<1>5. ConsumerInv' /\ StopperInv' /\ CountInv'
  BY <1>1, <1>3, ConsumerKept, StopperKept, CountKept
<1>6. NoMissedNotify' /\ MissedInv'
  BY <1>1 DEF NoMissedNotify, MissedInv
<1> QED
  BY <1>2, <1>4, <1>5, <1>6

LEMMA PushClearStep == ASSUME WakeInv, PushClear PROVE WakeInv'
<1> USE DEF WakeInv
<1>0. "producer" \in Thread /\ "consumer" \in Thread /\ "stopper" \in Thread
  BY DEF Thread
<1>1. /\ pushPc = "clear" /\ pushPc' = "notify" /\ Len(buf["producer"]) <= BufferSize
      /\ buf' = [buf EXCEPT !["producer"] = Append(@, ClearStore)]
      /\ UNCHANGED <<mem, popPc, popRet, registered, stopRequested, stopPc>>
  BY DEF PushClear, Store, ClearStore, Ready, stopVars
<1>2. mem.write_ \in Nat /\ Len(buf["producer"]) \in Nat /\ BufferSize \in Nat
  BY <1>0, MemTypes, BufTypes
<1>3. Unpublished = Len(buf["producer"])
  BY <1>1 DEF Unpublished
<1>5. /\ buf' \in [Thread -> Seq(Entry)]
      /\ Len(buf'["producer"]) = Len(buf["producer"]) + 1
      /\ \A i \in 1 .. Len(buf["producer"]) : buf'["producer"][i] = buf["producer"][i]
      /\ buf'["producer"][Len(buf["producer"]) + 1] = ClearStore
      /\ \A u \in Thread : u # "producer" => buf'[u] = buf[u]
  BY <1>0, <1>1, EntryFacts, StoreFacts
<1>6. /\ buf'["consumer"] = buf["consumer"] /\ buf'["stopper"] = buf["stopper"]
      /\ mem' = mem
  BY <1>0, <1>1, <1>5
<1>7. TypesInv'
  <2>1. \A t \in Thread : Len(buf'[t]) <= BufferSize + 1
    <3> SUFFICES ASSUME NEW t \in Thread PROVE Len(buf'[t]) <= BufferSize + 1
      OBVIOUS
    <3>1. CASE t = "producer"
      BY <1>1, <1>2, <1>5, <3>1
    <3>2. CASE t # "producer"
      BY <1>5, <3>2 DEF TypesInv
    <3> QED
      BY <3>1, <3>2
  <2> QED
    BY <1>1, <1>5, <2>1 DEF TypesInv
<1>8. Unpublished' = Unpublished /\ Newest' = Newest
  BY <1>1, <1>2, <1>3, <1>5 DEF Unpublished, Newest
<1>9. ProducerInv'
  <2>1. ASSUME NEW i \in 1 .. Len(buf'["producer"])
        PROVE  buf'["producer"][i] = IF i <= Unpublished'
                                     THEN WriteStore(mem'.write_ + i) ELSE ClearStore
    <3>1. CASE i \in 1 .. Len(buf["producer"])
      BY <1>2, <1>3, <1>5, <1>6, <1>8, <3>1 DEF ProducerInv
    <3>2. CASE i = Len(buf["producer"]) + 1
      BY <1>2, <1>3, <1>5, <1>6, <1>8, <3>2
    <3> QED
      BY <1>2, <1>5, <3>1, <3>2
  <2> QED
    BY <1>1, <2>1 DEF ProducerInv
<1>10. ConsumerInv' /\ StopperInv' /\ CountInv'
  BY <1>1, <1>6, <1>8, ConsumerKept, StopperKept, CountKept
<1>11. NoMissedNotify' /\ MissedInv'
  <2>1. Len(buf'["producer"]) # 0
    BY <1>2, <1>5
  <2> QED
    BY <1>1, <2>1 DEF NoMissedNotify, MissedInv
<1> QED
  BY <1>7, <1>9, <1>10, <1>11

\* A notification moves a blocked consumer on, and nobody else.
LEMMA WakeFacts ==
  ASSUME TypesInv, ConsumerInv, Wake, mem' = mem, buf' = buf, popRet' = popRet,
         registered' = registered, stopRequested' = stopRequested
  PROVE  /\ ConsumerInv' /\ popPc' # "blocked"
         /\ popPc' \in {"wait", "blocked"} <=> popPc \in {"wait", "blocked"}
         /\ popPc' \in {"outside", "test", "first", "sleep", "second", "awake", "wait",
                        "blocked", "return", "ended"}
<1>1. popPc' = IF popPc = "blocked" THEN "wait" ELSE popPc
  BY DEF Wake
<1>2. ConsumerInv'
  <2>1. CASE popPc = "blocked"
    BY <1>1, <2>1 DEF ConsumerInv
  <2>2. CASE popPc # "blocked"
    BY <1>1, <2>2, ConsumerKept
  <2> QED
    BY <2>1, <2>2
<1> QED
  BY <1>1, <1>2 DEF TypesInv

LEMMA PushNotifyStep == ASSUME WakeInv, PushNotify PROVE WakeInv'
<1> USE DEF WakeInv
<1>0. "producer" \in Thread
  BY DEF Thread
<1>1. /\ pushPc = "notify" /\ pushPc' = "idle" /\ Len(buf["producer"]) = 0 /\ Wake
      /\ mem' = mem /\ buf' = buf /\ popRet' = popRet /\ registered' = registered
      /\ stopRequested' = stopRequested /\ stopPc' = stopPc
  BY DEF PushNotify, Drained, stopVars
<1>2. /\ ConsumerInv' /\ popPc' # "blocked"
      /\ popPc' \in {"wait", "blocked"} <=> popPc \in {"wait", "blocked"}
      /\ popPc' \in {"outside", "test", "first", "sleep", "second", "awake", "wait",
                     "blocked", "return", "ended"}
  BY <1>1, WakeFacts
<1>3. TypesInv'
  BY <1>1, <1>2 DEF TypesInv
<1>4. Unpublished' = Unpublished /\ Newest' = Newest
  BY <1>1 DEF Unpublished, Newest
<1>5. ProducerInv'
  BY <1>1, <1>4, BufferAssumption DEF ProducerInv
<1>6. StopperInv' /\ CountInv'
  BY <1>1, <1>4, StopperKept, CountKept
<1>7. NoMissedNotify' /\ MissedInv'
  BY <1>1, <1>2, <1>4 DEF NoMissedNotify, MissedInv
<1> QED
  BY <1>2, <1>3, <1>5, <1>6, <1>7

-----------------------------------------------------------------------------
(* pop *)

\* A step of the consumer that stores nothing.
LEMMA ConsumerMoves ==
  ASSUME WakeInv, mem' = mem, buf' = buf, pushPc' = pushPc, stopPc' = stopPc,
         stopRequested' = stopRequested, registered' \in BOOLEAN, popRet' \in BOOLEAN,
         popPc' \in {"outside", "test", "first", "sleep", "second", "awake", "wait",
                     "blocked", "return", "ended"}
  PROVE  TypesInv' /\ ProducerInv' /\ StopperInv' /\ CountInv' /\ Newest' = Newest
<1> USE DEF WakeInv
<1>1. TypesInv'
  BY DEF TypesInv
<1>2. ProducerInv' /\ Newest' = Newest
  BY ProducerKept
<1> QED
  BY <1>1, <1>2, StopperKept, CountKept

\* A step of the consumer that stores one value in its buffer.
LEMMA ConsumerStores ==
  ASSUME WakeInv, mem' = mem, pushPc' = pushPc, stopPc' = stopPc,
         stopRequested' = stopRequested, registered' = registered, popRet' = popRet,
         popPc' \in {"test", "awake", "return"},
         Len(buf["consumer"]) <= BufferSize, NEW e \in Entry,
         buf' = [buf EXCEPT !["consumer"] = Append(@, e)]
  PROVE  /\ TypesInv' /\ ProducerInv' /\ StopperInv' /\ Newest' = Newest
         /\ Len(buf["consumer"]) \in Nat
         /\ Len(buf'["consumer"]) = Len(buf["consumer"]) + 1
         /\ \A i \in 1 .. Len(buf["consumer"]) : buf'["consumer"][i] = buf["consumer"][i]
         /\ buf'["consumer"][Len(buf["consumer"]) + 1] = e
<1> USE DEF WakeInv
<1>0. "producer" \in Thread /\ "consumer" \in Thread /\ "stopper" \in Thread
  BY DEF Thread
<1>1. /\ buf' \in [Thread -> Seq(Entry)]
      /\ Len(buf'["consumer"]) = Len(buf["consumer"]) + 1
      /\ \A i \in 1 .. Len(buf["consumer"]) : buf'["consumer"][i] = buf["consumer"][i]
      /\ buf'["consumer"][Len(buf["consumer"]) + 1] = e
      /\ \A u \in Thread : u # "consumer" => buf'[u] = buf[u]
  BY <1>0, StoreFacts
<1>2. Len(buf["consumer"]) \in Nat /\ BufferSize \in Nat
  BY <1>0, BufTypes, BufferAssumption
<1>3. ASSUME NEW t \in Thread PROVE Len(buf'[t]) <= BufferSize + 1
  <2>1. CASE t = "consumer"
    BY <1>1, <1>2, <2>1
  <2>2. CASE t # "consumer"
    BY <1>1, <2>2 DEF TypesInv
  <2> QED
    BY <2>1, <2>2
<1>4. TypesInv'
  BY <1>1, <1>3 DEF TypesInv
<1>5. buf'["producer"] = buf["producer"] /\ buf'["stopper"] = buf["stopper"]
  BY <1>0, <1>1
<1>6. ProducerInv' /\ Newest' = Newest /\ StopperInv'
  BY <1>5, ProducerKept, StopperKept
<1> QED
  BY <1>1, <1>2, <1>4, <1>6

\* A consumer that is not about to sleep is owed nothing.
LEMMA AwakeIsFine ==
  ASSUME popPc' \notin {"wait", "blocked"}
  PROVE  NoMissedNotify' /\ MissedInv'
  BY DEF NoMissedNotify, MissedInv

\* Before an attempt to take an item the consumer sees memory.
LEMMA AttemptSees ==
  ASSUME TypesInv, ConsumerInv, popPc \in {"first", "second", "wait"}
  PROVE  /\ Len(buf["consumer"]) = 0
         /\ QueueEmpty <=> mem.read_ = mem.write_
         /\ Load("consumer", "read_") = mem.read_
         /\ Load("consumer", "is_sleeping_") = mem.is_sleeping_
<1>1. Len(buf["consumer"]) = 0
  BY DEF ConsumerInv
<1> QED
  BY <1>1, EmptyBufferSeesMemory DEF QueueEmpty

LEMMA PopCallStep == ASSUME WakeInv, PopCall PROVE WakeInv'
<1> USE DEF WakeInv
<1>1. /\ popPc = "outside" /\ popPc' = "test" /\ Len(buf["consumer"]) <= BufferSize
      /\ UNCHANGED <<mem, pushPc, popRet, stopRequested, stopPc>>
      /\ Len(buf["consumer"]) = 0
  BY DEF PopCall, Ready, ConsumerInv
<1>2. CASE /\ stopRequested /\ registered' = registered
           /\ buf' = [buf EXCEPT !["consumer"] = Append(@, ClearStore)]
  <2>1. /\ TypesInv' /\ ProducerInv' /\ StopperInv' /\ Newest' = Newest
        /\ Len(buf'["consumer"]) = 1 /\ buf'["consumer"][1] = ClearStore
    <3>1. /\ TypesInv' /\ ProducerInv' /\ StopperInv' /\ Newest' = Newest
          /\ Len(buf'["consumer"]) = Len(buf["consumer"]) + 1
          /\ buf'["consumer"][Len(buf["consumer"]) + 1] = ClearStore
      BY <1>1, <1>2, ConsumerStores, EntryFacts
    <3>2. Len(buf["consumer"]) + 1 = 1
      BY <1>1
    <3> QED
      BY <3>1, <3>2
  <2>2. \A i \in 1 .. Len(buf'["consumer"]) : buf'["consumer"][i] = ClearStore
    BY <2>1
  <2>3. ConsumerInv'
    BY <1>1, <1>2, <2>1, <2>2 DEF ConsumerInv
  <2>4. CountInv'
    BY <1>1, <2>1, <2>2 DEF CountInv
  <2> QED
    BY <1>1, <2>1, <2>3, <2>4, AwakeIsFine
<1>3. CASE ~stopRequested /\ registered' = TRUE /\ buf' = buf
  <2>1. TypesInv' /\ ProducerInv' /\ StopperInv' /\ CountInv'
    <3>1. popRet' \in BOOLEAN
      BY <1>1 DEF TypesInv
    <3> QED
      BY <1>1, <1>3, <3>1, ConsumerMoves
  <2>2. ConsumerInv'
    BY <1>1, <1>3 DEF ConsumerInv
  <2> QED
    BY <1>1, <2>1, <2>2, AwakeIsFine
<1> QED
  BY <1>2, <1>3 DEF PopCall, Store, ClearStore

LEMMA PopTestStep == ASSUME WakeInv, PopTest PROVE WakeInv'
<1> USE DEF WakeInv
<1>1. /\ popPc = "test" /\ popPc' = IF stopRequested THEN "return" ELSE "first"
      /\ popRet' = ~stopRequested
      /\ UNCHANGED <<mem, buf, pushPc, registered, stopRequested, stopPc>>
  BY DEF PopTest, stopVars
<1>2. registered' \in BOOLEAN /\ popRet' \in BOOLEAN
  BY <1>1 DEF TypesInv
<1>3. TypesInv' /\ ProducerInv' /\ StopperInv' /\ CountInv'
  BY <1>1, <1>2, ConsumerMoves
<1>4. ConsumerInv'
  <2>1. CASE stopRequested
    BY <1>1, <2>1 DEF ConsumerInv
  <2>2. CASE ~stopRequested
    <3>1. Len(buf["consumer"]) = 0
      <4>1. Len(buf["consumer"]) \in Nat
        BY BufTypes DEF Thread
      <4>2. 1 \notin 1 .. Len(buf["consumer"])
        BY <1>1, <2>2 DEF ConsumerInv
      <4> QED
        BY <4>1, <4>2
    <3> QED
      BY <1>1, <2>2, <3>1 DEF ConsumerInv
  <2> QED
    BY <2>1, <2>2
<1>5. popPc' \notin {"wait", "blocked"}
  BY <1>1
<1> QED
  BY <1>3, <1>4, <1>5, AwakeIsFine

\* The item is taken: read_ waits in the buffer, and stays below write_.
LEMMA TakeStep ==
  ASSUME WakeInv, popPc \in {"first", "second"}, popPc' \in {"return", "awake"},
         Len(buf["consumer"]) <= BufferSize, ~QueueEmpty, TakeItem,
         mem' = mem, pushPc' = pushPc, stopPc' = stopPc,
         stopRequested' = stopRequested, registered' = registered, popRet' = popRet
  PROVE  WakeInv'
<1> USE DEF WakeInv
<1>1. /\ Len(buf["consumer"]) = 0 /\ mem.read_ # mem.write_
      /\ Load("consumer", "read_") = mem.read_
  BY AttemptSees
<1>2. mem.read_ \in Nat /\ mem.write_ \in Nat /\ mem.read_ <= mem.write_
  BY MemTypes DEF CountInv
<1>3. /\ buf' = [buf EXCEPT !["consumer"] = Append(@, ReadStore(mem.read_ + 1))]
      /\ ReadStore(mem.read_ + 1) \in Entry
  <2>1. TakeItem <=> Store("consumer", "read_", mem.read_ + 1)
    BY <1>1 DEF TakeItem
  <2>2. mem.read_ + 1 \in Nat
    BY <1>2
  <2> QED
    BY <2>1, <2>2, EntryFacts DEF Store, ReadStore
<1>4. /\ TypesInv' /\ ProducerInv' /\ StopperInv' /\ Newest' = Newest
      /\ Len(buf'["consumer"]) = 1 /\ buf'["consumer"][1] = ReadStore(mem.read_ + 1)
  <2>1. /\ TypesInv' /\ ProducerInv' /\ StopperInv' /\ Newest' = Newest
        /\ Len(buf'["consumer"]) = Len(buf["consumer"]) + 1
        /\ buf'["consumer"][Len(buf["consumer"]) + 1] = ReadStore(mem.read_ + 1)
    <3>1. popPc' \in {"test", "awake", "return"}
      OBVIOUS
    <3> QED
      BY <1>3, <3>1, ConsumerStores
  <2>2. Len(buf["consumer"]) + 1 = 1
    BY <1>1
  <2> QED
    BY <2>1, <2>2
<1>5. ConsumerInv'
  BY <1>4 DEF ConsumerInv
<1>6. CountInv'
  BY <1>1, <1>2, <1>4 DEF CountInv
<1> QED
  BY <1>4, <1>5, <1>6, AwakeIsFine

LEMMA PopFirstStep == ASSUME WakeInv, PopFirst PROVE WakeInv'
<1> USE DEF WakeInv
<1>1. /\ popPc = "first" /\ Len(buf["consumer"]) <= BufferSize
      /\ UNCHANGED <<mem, pushPc, popRet, registered, stopRequested, stopPc>>
  BY DEF PopFirst, Ready, stopVars
<1>2. CASE popPc' = "sleep" /\ buf' = buf
  <2>1. registered' \in BOOLEAN /\ popRet' \in BOOLEAN
    BY <1>1 DEF TypesInv
  <2>2. TypesInv' /\ ProducerInv' /\ StopperInv' /\ CountInv'
    BY <1>1, <1>2, <2>1, ConsumerMoves
  <2>3. ConsumerInv'
    BY <1>1, <1>2 DEF ConsumerInv
  <2> QED
    BY <1>2, <2>2, <2>3, AwakeIsFine
<1>3. CASE ~QueueEmpty /\ TakeItem /\ popPc' = "return"
  BY <1>1, <1>3, TakeStep
<1> QED
  BY <1>2, <1>3 DEF PopFirst

LEMMA PopSleepStep == ASSUME WakeInv, PopSleep PROVE WakeInv'
<1> USE DEF WakeInv
<1>1. /\ popPc = "sleep" /\ popPc' = "second"
      /\ mem' = [mem EXCEPT !.is_sleeping_ = TRUE]
      /\ UNCHANGED <<buf, pushPc, popRet, registered, stopRequested, stopPc>>
  BY DEF PopSleep, stopVars
<1>2. /\ mem' \in [write_ : Nat, read_ : Nat, is_sleeping_ : BOOLEAN]
      /\ mem'.write_ = mem.write_ /\ mem'.read_ = mem.read_
  BY <1>1 DEF TypesInv
<1>3. TypesInv'
  BY <1>1, <1>2 DEF TypesInv
<1>4. ProducerInv' /\ Newest' = Newest
  BY <1>1, <1>2, ProducerKept
<1>5. StopperInv' /\ CountInv'
  BY <1>1, <1>2, <1>4, StopperKept, CountKept
<1>6. ConsumerInv'
  BY <1>1, <1>2 DEF ConsumerInv
<1> QED
  BY <1>1, <1>3, <1>4, <1>5, <1>6, AwakeIsFine

\* The second attempt finds nothing: what the producer has pushed and the consumer
\* cannot see is still in the producer's buffer.
LEMMA PopSecondStep == ASSUME WakeInv, PopSecond PROVE WakeInv'
<1> USE DEF WakeInv
<1>1. /\ popPc = "second" /\ Len(buf["consumer"]) <= BufferSize
      /\ UNCHANGED <<mem, pushPc, popRet, registered, stopRequested, stopPc>>
  BY DEF PopSecond, Ready, stopVars
<1>2. CASE QueueEmpty /\ popPc' = "wait" /\ buf' = buf
  <2>1. registered' \in BOOLEAN /\ popRet' \in BOOLEAN
    BY <1>1 DEF TypesInv
  <2>2. TypesInv' /\ ProducerInv' /\ StopperInv' /\ CountInv' /\ Newest' = Newest
    BY <1>1, <1>2, <2>1, ConsumerMoves
  <2>3. ConsumerInv'
    BY <1>1, <1>2 DEF ConsumerInv
  <2>4. mem.read_ = mem.write_ /\ mem.write_ \in Nat /\ BufferSize \in Nat
    BY <1>1, <1>2, AttemptSees, MemTypes
  <2>5. ASSUME pushPc = "idle" \/ (pushPc = "notify" /\ Len(buf["producer"]) = 0)
        PROVE  Newest <= mem.read_ + BufferSize
    <3>1. Len(buf["producer"]) \in Nat
      BY BufTypes DEF Thread
    <3>2. Unpublished = Len(buf["producer"]) /\ Len(buf["producer"]) <= BufferSize
      BY <2>4, <2>5, <3>1 DEF Unpublished, ProducerInv
    <3> QED
      BY <2>4, <3>1, <3>2 DEF Newest
  <2>6. MissedInv'
    BY <1>1, <1>2, <2>2, <2>5 DEF MissedInv
  <2>7. NoMissedNotify'
    BY <1>2 DEF NoMissedNotify
  <2> QED
    BY <2>2, <2>3, <2>6, <2>7
<1>3. CASE ~QueueEmpty /\ TakeItem /\ popPc' = "awake"
  BY <1>1, <1>3, TakeStep
<1> QED
  BY <1>2, <1>3 DEF PopSecond

LEMMA PopAwakeStep == ASSUME WakeInv, PopAwake PROVE WakeInv'
<1> USE DEF WakeInv
<1>1. /\ popPc = "awake" /\ popPc' = "return" /\ Len(buf["consumer"]) <= BufferSize
      /\ buf' = [buf EXCEPT !["consumer"] = Append(@, ClearStore)]
      /\ UNCHANGED <<mem, pushPc, popRet, registered, stopRequested, stopPc>>
  BY DEF PopAwake, Ready, Store, ClearStore, stopVars
<1>2. /\ TypesInv' /\ ProducerInv' /\ StopperInv' /\ Newest' = Newest
      /\ Len(buf["consumer"]) \in Nat
      /\ Len(buf'["consumer"]) = Len(buf["consumer"]) + 1
      /\ \A i \in 1 .. Len(buf["consumer"]) : buf'["consumer"][i] = buf["consumer"][i]
      /\ buf'["consumer"][Len(buf["consumer"]) + 1] = ClearStore
  BY <1>1, ConsumerStores, EntryFacts
<1>3. Len(buf["consumer"]) <= 1
  BY <1>1 DEF ConsumerInv
<1>4. \A i \in 1 .. Len(buf'["consumer"]) :
        \/ buf'["consumer"][i] = ClearStore
        \/ i \in 1 .. Len(buf["consumer"]) /\ buf'["consumer"][i] = buf["consumer"][i]
  BY <1>2
<1>5. ConsumerInv'
  <2>1. \A i \in 1 .. Len(buf'["consumer"]) :
          \/ buf'["consumer"][i] = ClearStore
          \/ i = 1 /\ buf'["consumer"][i] = ReadStore(mem.read_ + 1)
    BY <1>4 DEF ConsumerInv
  <2>2. Len(buf'["consumer"]) <= 2
    BY <1>2, <1>3
  <2> QED
    BY <1>1, <2>1, <2>2 DEF ConsumerInv
<1>6. CountInv'
  BY <1>1, <1>2, <1>4 DEF CountInv
<1> QED
  BY <1>1, <1>2, <1>5, <1>6, AwakeIsFine

LEMMA PopWaitStep == ASSUME WakeInv, PopWait PROVE WakeInv'
<1> USE DEF WakeInv
<1>1. /\ popPc = "wait"
      /\ popPc' = IF mem.is_sleeping_ THEN "blocked" ELSE "test"
      /\ UNCHANGED <<mem, buf, pushPc, popRet, registered, stopRequested, stopPc>>
  BY AttemptSees DEF PopWait, stopVars
<1>2. registered' \in BOOLEAN /\ popRet' \in BOOLEAN
  BY <1>1 DEF TypesInv
<1>3. TypesInv' /\ ProducerInv' /\ StopperInv' /\ CountInv' /\ Newest' = Newest
  BY <1>1, <1>2, ConsumerMoves
<1>4. ConsumerInv'
  BY <1>1 DEF ConsumerInv
<1>5. NoMissedNotify'
  BY <1>1 DEF NoMissedNotify
<1>6. MissedInv'
  BY <1>1, <1>3 DEF MissedInv
<1> QED
  BY <1>3, <1>4, <1>5, <1>6

LEMMA PopReturnStep == ASSUME WakeInv, PopReturn PROVE WakeInv'
<1> USE DEF WakeInv
<1>1. /\ popPc = "return" /\ registered' = FALSE
      /\ registered => Len(buf["consumer"]) = 0
      /\ popPc' = IF popRet THEN "outside" ELSE "ended"
      /\ UNCHANGED <<mem, buf, pushPc, popRet, stopRequested, stopPc>>
  BY DEF PopReturn, Drained
<1>2. registered' \in BOOLEAN /\ popRet' \in BOOLEAN
  BY <1>1 DEF TypesInv
<1>3. TypesInv' /\ ProducerInv' /\ StopperInv' /\ CountInv'
  BY <1>1, <1>2, ConsumerMoves
<1>4. ConsumerInv'
  BY <1>1 DEF ConsumerInv
<1>5. popPc' \notin {"wait", "blocked"}
  BY <1>1
<1> QED
  BY <1>3, <1>4, <1>5, AwakeIsFine

-----------------------------------------------------------------------------
(* stop *)

\* request_stop and join: the flag, the counters and the buffers stay.
LEMMA StopMovesStep == ASSUME WakeInv, StopRequest \/ StopJoin PROVE WakeInv'
<1> USE DEF WakeInv
<1>1. /\ stopPc \in {"idle", "join"} /\ stopPc' \in {"callback", "join", "joined"}
      /\ stopRequested' \in BOOLEAN /\ (stopRequested => stopRequested')
      /\ UNCHANGED <<mem, buf, pushPc, popPc, popRet, registered>>
  BY DEF StopRequest, StopJoin, TypesInv
<1>2. TypesInv'
  BY <1>1 DEF TypesInv
<1>3. ProducerInv' /\ Newest' = Newest /\ ConsumerInv'
  BY <1>1, ProducerKept, ConsumerKept
<1>4. StopperInv'
  <2>1. Len(buf["stopper"]) = 0
    BY <1>1, BufTypes DEF StopperInv, Thread
  <2> QED
    BY <1>1, <2>1 DEF StopperInv
<1>5. CountInv'
  BY <1>1, <1>3, CountKept
<1>6. NoMissedNotify' /\ MissedInv'
  BY <1>1, <1>3 DEF NoMissedNotify, MissedInv
<1> QED
  BY <1>2, <1>3, <1>4, <1>5, <1>6

LEMMA StopCallbackStep == ASSUME WakeInv, StopCallback PROVE WakeInv'
<1> USE DEF WakeInv
<1>0. "producer" \in Thread /\ "consumer" \in Thread /\ "stopper" \in Thread
  BY DEF Thread
<1>1. /\ stopPc = "callback" /\ stopPc' = "notify"
      /\ buf' = [buf EXCEPT !["stopper"] = Append(@, ClearStore)]
      /\ UNCHANGED <<mem, pushPc, popPc, popRet, registered, stopRequested>>
  BY DEF StopCallback, Store, ClearStore
<1>2. Len(buf["stopper"]) = 0 /\ BufferSize \in Nat
  BY <1>0, <1>1, BufTypes, BufferAssumption DEF StopperInv
<1>3. /\ buf' \in [Thread -> Seq(Entry)]
      /\ Len(buf'["stopper"]) = Len(buf["stopper"]) + 1
      /\ buf'["stopper"][Len(buf["stopper"]) + 1] = ClearStore
      /\ \A u \in Thread : u # "stopper" => buf'[u] = buf[u]
  BY <1>0, <1>1, EntryFacts, StoreFacts
<1>4. Len(buf'["stopper"]) = 1 /\ buf'["stopper"][1] = ClearStore
  <2>1. Len(buf["stopper"]) + 1 = 1
    BY <1>2
  <2> QED
    BY <1>3, <2>1
<1>5. ASSUME NEW t \in Thread PROVE Len(buf'[t]) <= BufferSize + 1
  <2>1. CASE t = "stopper"
    <3>1. 1 <= BufferSize + 1
      BY <1>2
    <3> QED
      BY <1>4, <2>1, <3>1
  <2>2. CASE t # "stopper"
    BY <1>3, <2>2 DEF TypesInv
  <2> QED
    BY <2>1, <2>2
<1>6. TypesInv'
  BY <1>1, <1>3, <1>5 DEF TypesInv
<1>7. buf'["producer"] = buf["producer"] /\ buf'["consumer"] = buf["consumer"]
  BY <1>0, <1>3
<1>8. ProducerInv' /\ Newest' = Newest /\ ConsumerInv'
  BY <1>1, <1>7, ProducerKept, ConsumerKept
<1>9. StopperInv' /\ CountInv'
  BY <1>1, <1>4, <1>7, <1>8, CountKept DEF StopperInv
<1>10. NoMissedNotify' /\ MissedInv'
  BY <1>1, <1>7, <1>8 DEF NoMissedNotify, MissedInv
<1> QED
  BY <1>6, <1>8, <1>9, <1>10

LEMMA StopNotifyStep == ASSUME WakeInv, StopNotify PROVE WakeInv'
<1> USE DEF WakeInv
<1>1. /\ stopPc' = "join" /\ Len(buf["stopper"]) = 0 /\ Wake
      /\ mem' = mem /\ buf' = buf /\ popRet' = popRet /\ registered' = registered
      /\ stopRequested' = stopRequested /\ pushPc' = pushPc
  BY DEF StopNotify, Drained
<1>2. /\ ConsumerInv' /\ popPc' # "blocked"
      /\ popPc' \in {"wait", "blocked"} <=> popPc \in {"wait", "blocked"}
      /\ popPc' \in {"outside", "test", "first", "sleep", "second", "awake", "wait",
                     "blocked", "return", "ended"}
  BY <1>1, WakeFacts
<1>3. TypesInv'
  BY <1>1, <1>2 DEF TypesInv
<1>4. ProducerInv' /\ Newest' = Newest
  BY <1>1, ProducerKept
<1>5. StopperInv' /\ CountInv'
  BY <1>1, <1>4, CountKept DEF StopperInv
<1>6. NoMissedNotify' /\ MissedInv'
  BY <1>1, <1>2, <1>4 DEF NoMissedNotify, MissedInv
<1> QED
  BY <1>2, <1>3, <1>4, <1>5, <1>6

-----------------------------------------------------------------------------
(* The store buffers drain *)

LEMMA DrainKeepsTypes ==
  ASSUME TypesInv, NEW t \in Thread, Drain(t),
         mem' \in [write_ : Nat, read_ : Nat, is_sleeping_ : BOOLEAN]
  PROVE  TypesInv'
<1>1. /\ Len(buf[t]) \in Nat \ {0} /\ buf' \in [Thread -> Seq(Entry)]
      /\ Len(buf'[t]) = Len(buf[t]) - 1
      /\ \A u \in Thread : u # t => buf'[u] = buf[u]
      /\ UNCHANGED <<pushPc, popPc, popRet, registered, stopRequested, stopPc>>
  BY DrainFacts
<1>2. ASSUME NEW u \in Thread PROVE Len(buf'[u]) <= BufferSize + 1
  <2>1. CASE u = t
    BY <1>1, <2>1, BufferAssumption DEF TypesInv
  <2>2. CASE u # t
    BY <1>1, <2>2 DEF TypesInv
  <2> QED
    BY <2>1, <2>2
<1> QED
  BY <1>1, <1>2 DEF TypesInv

\* One step of write_ and one step of an index cancel.
LEMMA ShiftedSum ==
  \A w, i \in Nat : \A u : u = w + 1 => u + i = w + (i + 1)
OBVIOUS

\* A flag that clears in memory belongs to a waker that has yet to notify.
LEMMA DrainProducerStep == ASSUME WakeInv, Drain("producer") PROVE WakeInv'
<1> USE DEF WakeInv
<1> DEFINE b == buf["producer"]
<1>0. "producer" \in Thread /\ "consumer" \in Thread /\ "stopper" \in Thread
  BY DEF Thread
<1>1. /\ Len(b) \in Nat \ {0}
      /\ mem' = [mem EXCEPT ![b[1].loc] = b[1].val]
      /\ Len(b') = Len(b) - 1
      /\ \A i \in 1 .. Len(b') : b'[i] = b[i + 1]
      /\ \A u \in Thread : u # "producer" => buf'[u] = buf[u]
      /\ UNCHANGED <<pushPc, popPc, popRet, registered, stopRequested, stopPc>>
  BY <1>0, DrainFacts
<1>2. buf'["consumer"] = buf["consumer"] /\ buf'["stopper"] = buf["stopper"]
  BY <1>0, <1>1
<1>3. mem.write_ \in Nat /\ mem.read_ \in Nat /\ BufferSize \in Nat
  BY MemTypes
<1>4. CASE Unpublished > 0
  <2>0. Unpublished \in Int /\ 1 <= Unpublished /\ 1 \in 1 .. Len(b)
    BY <1>1, <1>4 DEF Unpublished
  <2>1. b[1] = WriteStore(mem.write_ + 1)
    BY <2>0 DEF ProducerInv
  <2>2. /\ mem' \in [write_ : Nat, read_ : Nat, is_sleeping_ : BOOLEAN]
        /\ mem'.write_ = mem.write_ + 1 /\ mem'.read_ = mem.read_
        /\ mem'.is_sleeping_ = mem.is_sleeping_
    <3>1. mem.write_ + 1 \in Nat
      BY <1>3
    <3> QED
      BY <1>1, <2>1, <3>1, MemAfter
  <2>3. Unpublished' = Unpublished - 1 /\ Unpublished \in 1 .. Len(b)
    <3>1. CASE pushPc = "notify"
      BY <1>1, <1>4, <3>1 DEF Unpublished
    <3>2. CASE pushPc # "notify"
      BY <1>1, <3>2 DEF Unpublished
    <3> QED
      BY <3>1, <3>2
  <2>4. Newest' = Newest
    BY <1>3, <2>2, <2>3 DEF Newest
  <2>5. ProducerInv'
    <3>1. ASSUME NEW i \in 1 .. Len(b')
          PROVE  b'[i] = IF i <= Unpublished' THEN WriteStore(mem'.write_ + i)
                         ELSE ClearStore
      <4>1. /\ i + 1 \in 1 .. Len(b) /\ b'[i] = b[i + 1]
            /\ i <= Unpublished' <=> i + 1 <= Unpublished
            /\ mem'.write_ + i = mem.write_ + (i + 1)
        <5>1. i \in Nat /\ i + 1 \in 1 .. Len(b) /\ b'[i] = b[i + 1]
          BY <1>1
        <5>2. i <= Unpublished' <=> i + 1 <= Unpublished
          BY <2>0, <2>3, <5>1
        <5>3. mem'.write_ + i = mem.write_ + (i + 1)
          BY <1>3, <2>2, <5>1, ShiftedSum
        <5> QED
          BY <5>1, <5>2, <5>3
      <4>2. b[i + 1] = IF i + 1 <= Unpublished THEN WriteStore(mem.write_ + (i + 1))
                       ELSE ClearStore
        BY <4>1 DEF ProducerInv
      <4> QED
        BY <4>1, <4>2
    <3>2. pushPc' = "idle" => Len(b') <= BufferSize
      BY <1>1, <1>3 DEF ProducerInv
    <3> QED
      BY <3>1, <3>2 DEF ProducerInv
  <2>6. TypesInv'
    BY <1>0, <2>2, DrainKeepsTypes
  <2>7. ConsumerInv' /\ StopperInv'
    BY <1>1, <1>2, <2>2, ConsumerKept, StopperKept
  <2>8. CountInv'
    <3>1. mem'.read_ <= mem'.write_
      BY <1>3, <2>2 DEF CountInv
    <3>2. mem.read_ + 1 <= mem.write_ => mem'.read_ + 1 <= mem'.write_
      BY <1>3, <2>2
    <3>3. Newest' <= MaxPushes /\ Newest' <= mem'.read_ + Capacity
      BY <2>2, <2>4 DEF CountInv
    <3> QED
      BY <1>2, <3>1, <3>2, <3>3 DEF CountInv
  <2>9. NoMissedNotify'
    BY <1>1, <2>2 DEF NoMissedNotify
  <2>10. MissedInv'
    <3>1. pushPc = "notify" => Len(b') # 0
      BY <1>1, <1>4 DEF Unpublished
    <3> QED
      BY <1>1, <2>2, <2>4, <3>1 DEF MissedInv
  <2> QED
    BY <2>5, <2>6, <2>7, <2>8, <2>9, <2>10
<1>5. CASE ~(Unpublished > 0)
  <2>1. pushPc = "notify" /\ Len(b) = 1 /\ b[1] = ClearStore /\ Unpublished = 0
    <3>1. pushPc = "notify"
      BY <1>1, <1>5 DEF Unpublished
    <3>2. Len(b) = 1 /\ Unpublished = 0
      <4>1. Unpublished = Len(b) - 1
        BY <1>1, <3>1 DEF Unpublished
      <4> HIDE DEF b
      <4> QED
        BY <1>1, <1>5, <4>1
    <3>3. 1 \in 1 .. Len(b) /\ ~(1 <= Unpublished)
      BY <3>2
    <3> QED
      BY <3>1, <3>2, <3>3 DEF ProducerInv
  <2>2. /\ mem' \in [write_ : Nat, read_ : Nat, is_sleeping_ : BOOLEAN]
        /\ mem'.read_ = mem.read_ /\ mem'.write_ = mem.write_
        /\ mem'.is_sleeping_ = FALSE
    BY <1>1, <2>1, MemAfter
  <2>3. Len(b') = 0 /\ Unpublished' = 0 /\ Newest' = Newest
    BY <1>1, <2>1, <2>2 DEF Unpublished, Newest
  <2>4. ProducerInv'
    BY <1>3, <2>3 DEF ProducerInv
  <2>5. TypesInv'
    BY <1>0, <2>2, DrainKeepsTypes
  <2>6. ConsumerInv' /\ StopperInv' /\ CountInv'
    BY <1>1, <1>2, <2>2, <2>3, ConsumerKept, StopperKept, CountKept
  <2>7. NoMissedNotify' /\ MissedInv'
    BY <1>1, <2>1, <2>2 DEF NoMissedNotify, MissedInv
  <2> QED
    BY <2>4, <2>5, <2>6, <2>7
<1> QED
  BY <1>4, <1>5

LEMMA DrainConsumerStep == ASSUME WakeInv, Drain("consumer") PROVE WakeInv'
<1> USE DEF WakeInv
<1> DEFINE b == buf["consumer"]
<1>0. "producer" \in Thread /\ "consumer" \in Thread /\ "stopper" \in Thread
  BY DEF Thread
<1>1. /\ Len(b) \in Nat \ {0}
      /\ mem' = [mem EXCEPT ![b[1].loc] = b[1].val]
      /\ Len(b') = Len(b) - 1
      /\ \A i \in 1 .. Len(b') : b'[i] = b[i + 1]
      /\ \A u \in Thread : u # "consumer" => buf'[u] = buf[u]
      /\ UNCHANGED <<pushPc, popPc, popRet, registered, stopRequested, stopPc>>
  BY <1>0, DrainFacts
<1>2. buf'["producer"] = buf["producer"] /\ buf'["stopper"] = buf["stopper"]
  BY <1>0, <1>1
<1>3. mem.write_ \in Nat /\ mem.read_ \in Nat /\ Newest \in Int
      /\ Capacity \in Nat /\ MaxPushes \in Nat
  BY <1>0, MemTypes, BufTypes DEF Newest, Unpublished
<1>4. Len(b) <= 2 /\ popPc \notin {"wait", "blocked"}
  BY <1>1 DEF ConsumerInv
<1>5. \A i \in 1 .. Len(b') : i + 1 \in 1 .. Len(b) /\ b'[i] = b[i + 1] /\ i + 1 # 1
  BY <1>1
<1>6. \A i \in 1 .. Len(b') : b'[i] = ClearStore
  BY <1>5 DEF ConsumerInv
<1>7. /\ mem' \in [write_ : Nat, read_ : Nat, is_sleeping_ : BOOLEAN]
      /\ mem'.write_ = mem.write_
      /\ \/ mem'.read_ = mem.read_
         \/ mem'.read_ = mem.read_ + 1 /\ mem.read_ + 1 <= mem.write_
  <2>1. 1 \in 1 .. Len(b) /\ mem.read_ + 1 \in Nat
    BY <1>1, <1>3
  <2>2. CASE b[1] = ClearStore
    BY <1>1, <2>2, MemAfter
  <2>3. CASE b[1] = ReadStore(mem.read_ + 1)
    <3>1. b[1] # ClearStore
      BY <2>1, <2>3, EntryFacts
    <3>2. mem.read_ + 1 <= mem.write_
      BY <2>1, <3>1 DEF CountInv
    <3> QED
      BY <1>1, <2>1, <2>3, <3>2, MemAfter
  <2> QED
    BY <2>1, <2>2, <2>3 DEF ConsumerInv
<1>8. TypesInv'
  BY <1>0, <1>7, DrainKeepsTypes
<1>9. ProducerInv' /\ Newest' = Newest /\ StopperInv'
  BY <1>1, <1>2, <1>7, ProducerKept, StopperKept
<1>10. ConsumerInv'
  <2>1. Len(b') <= 2 /\ Len(b') <= 1
    BY <1>1, <1>4
  <2>2. popPc \notin {"outside", "first", "sleep", "second", "wait", "blocked"}
    BY <1>1 DEF ConsumerInv
  <2>3. popPc = "test" => stopRequested
    <3>1. 1 \in 1 .. Len(b)
      BY <1>1
    <3> QED
      BY <3>1 DEF ConsumerInv
  <2> QED
    BY <1>1, <1>6, <2>1, <2>2, <2>3 DEF ConsumerInv
<1>11. CountInv'
  <2>1. mem'.read_ <= mem'.write_ /\ mem.read_ <= mem'.read_ /\ mem'.read_ \in Nat
    BY <1>3, <1>7 DEF CountInv
  <2>2. Newest' <= MaxPushes /\ Newest' <= mem'.read_ + Capacity
    BY <1>3, <1>9, <2>1 DEF CountInv
  <2> QED
    BY <1>6, <2>1, <2>2 DEF CountInv
<1>12. popPc' \notin {"wait", "blocked"}
  BY <1>1, <1>4
<1> QED
  BY <1>8, <1>9, <1>10, <1>11, <1>12, AwakeIsFine

LEMMA DrainStopperStep == ASSUME WakeInv, Drain("stopper") PROVE WakeInv'
<1> USE DEF WakeInv
<1> DEFINE b == buf["stopper"]
<1>0. "producer" \in Thread /\ "consumer" \in Thread /\ "stopper" \in Thread
  BY DEF Thread
<1>1. /\ Len(b) \in Nat \ {0}
      /\ mem' = [mem EXCEPT ![b[1].loc] = b[1].val]
      /\ Len(b') = Len(b) - 1
      /\ \A u \in Thread : u # "stopper" => buf'[u] = buf[u]
      /\ UNCHANGED <<pushPc, popPc, popRet, registered, stopRequested, stopPc>>
  BY <1>0, DrainFacts
<1>2. buf'["producer"] = buf["producer"] /\ buf'["consumer"] = buf["consumer"]
  BY <1>0, <1>1
<1>3. b[1] = ClearStore /\ stopPc = "notify" /\ Len(b') = 0
  <2>1. 1 \in 1 .. Len(b) /\ Len(b) > 0
    BY <1>1
  <2>2. b[1] = ClearStore /\ stopPc = "notify" /\ Len(b) <= 1
    BY <2>1 DEF StopperInv
  <2> HIDE DEF b
  <2>3. Len(b) = 1
    BY <1>1, <2>2
  <2>4. Len(b') = 0
    BY <1>1, <2>3
  <2> QED
    BY <2>2, <2>4
<1>4. /\ mem' \in [write_ : Nat, read_ : Nat, is_sleeping_ : BOOLEAN]
      /\ mem'.read_ = mem.read_ /\ mem'.write_ = mem.write_
      /\ mem'.is_sleeping_ = FALSE
  BY <1>1, <1>3, MemAfter
<1>5. TypesInv'
  BY <1>0, <1>4, DrainKeepsTypes
<1>6. ProducerInv' /\ Newest' = Newest /\ ConsumerInv'
  BY <1>1, <1>2, <1>4, ProducerKept, ConsumerKept
<1>7. StopperInv' /\ CountInv'
  BY <1>2, <1>3, <1>4, <1>6, CountKept DEF StopperInv
<1>8. NoMissedNotify' /\ MissedInv'
  BY <1>1, <1>3, <1>4 DEF NoMissedNotify, MissedInv
<1> QED
  BY <1>5, <1>6, <1>7, <1>8

-----------------------------------------------------------------------------
(* Theorems *)

LEMMA NextWakeInv == WakeInv /\ [Next]_vars => WakeInv'
<1> SUFFICES ASSUME WakeInv, [Next]_vars PROVE WakeInv'
  OBVIOUS
<1>1. CASE PushStore \/ PushRest
  BY <1>1, PushStoreStep, PushCheckStep, PushClearStep, PushNotifyStep DEF PushRest
<1>2. CASE Consumer
  BY <1>2, PopCallStep, PopTestStep, PopFirstStep, PopSleepStep, PopSecondStep,
     PopAwakeStep, PopWaitStep, PopReturnStep DEF Consumer
<1>3. CASE StopRequest \/ StopRest
  BY <1>3, StopMovesStep, StopCallbackStep, StopNotifyStep DEF StopRest
<1>4. CASE \E t \in Thread : Drain(t)
  BY <1>4, DrainProducerStep, DrainConsumerStep, DrainStopperStep DEF Thread
<1>5. CASE UNCHANGED vars
  <2> USE <1>5 DEF vars, WakeInv
  <2>1. TypesInv'
    BY DEF TypesInv
  <2>2. ProducerInv' /\ Newest' = Newest /\ ConsumerInv'
    BY ProducerKept, ConsumerKept
  <2>3. StopperInv' /\ CountInv'
    BY <2>2, StopperKept, CountKept
  <2>4. NoMissedNotify' /\ MissedInv'
    BY <2>2 DEF NoMissedNotify, MissedInv
  <2> QED
    BY <2>1, <2>2, <2>3, <2>4
<1> QED
  BY <1>1, <1>2, <1>3, <1>4, <1>5 DEF Next

\* The inductive invariant: what each store buffer may hold at each place of its
\* thread, and what a sleeping consumer can have missed.
THEOREM WakeInvariant == Spec => []WakeInv
<1>1. Init => WakeInv
  BY InitWakeInv
<1>2. WakeInv /\ [Next]_vars => WakeInv'
  BY NextWakeInv
<1> QED
  BY <1>1, <1>2, PTL DEF Spec

\* The places, counters and buffers of push, pop and stop keep their types.
THEOREM WaitableTypeCorrect == FairSpec => []TypeOK
<1>1. WakeInv => TypeOK
  <2> SUFFICES ASSUME WakeInv PROVE TypeOK
    OBVIOUS
  <2> USE DEF WakeInv
  <2>1. mem.write_ \in 0 .. MaxPushes /\ mem.read_ \in 0 .. MaxPushes
    <3>1. /\ mem.write_ \in Nat /\ mem.read_ \in Nat /\ MaxPushes \in Nat
          /\ Len(buf["producer"]) \in Nat
      BY MemTypes, BufTypes DEF Thread
    <3>2. Unpublished \in Nat
      BY <3>1 DEF Unpublished
    <3> QED
      BY <3>1, <3>2 DEF CountInv, Newest
  <2> QED
    BY <2>1, MemTypes DEF TypeOK, TypesInv
<1> QED
  BY <1>1, WakeInvariant, PTL DEF FairSpec

\* Nobody clears is_sleeping_ under a blocked consumer without a notification
\* still to come, however long the stores wait in the buffers.
THEOREM NotifyFollowsClear == FairSpec => []NoMissedNotify
<1>1. WakeInv => NoMissedNotify
  BY DEF WakeInv
<1> QED
  BY <1>1, WakeInvariant, PTL DEF FairSpec

\* With fewer buffered stores than slots, the producer never spins on a full
\* queue whose consumer sleeps with no wake-up on its way.
THEOREM NeverFullAsleep ==
  ASSUME BufferSize < Capacity
  PROVE  FairSpec => []NoFullStall
<1>1. WakeInv => NoFullStall
  <2> SUFFICES ASSUME WakeInv, popPc = "blocked",
                      Load("producer", "write_") - Load("producer", "read_") = Capacity,
                      pushPc = "idle", stopPc \notin {"callback", "notify"}
               PROVE  FALSE
    BY DEF NoFullStall
  <2> USE DEF WakeInv
  <2>1. Newest - mem.read_ = Capacity
    BY ProducerSees
  <2>2. mem.is_sleeping_
    BY DEF NoMissedNotify
  <2>3. Newest <= mem.read_ + BufferSize
    BY <2>2 DEF MissedInv
  <2>4. mem.read_ \in Nat /\ Newest \in Int /\ BufferSize \in Nat /\ Capacity \in Nat
    BY MemTypes, BufTypes DEF Newest, Unpublished, Thread
  <2> QED
    BY <2>1, <2>3, <2>4
<1> QED
  BY <1>1, WakeInvariant, PTL DEF FairSpec

\* What a sleeping consumer can have missed, when no push and no stop is about to
\* wake it.
FewLeftBehind ==
  popPc = "blocked" /\ pushPc = "idle" /\ stopPc # "notify" =>
    mem.write_ <= mem.read_ + BufferSize

\* At the end of a burst a sleeping consumer has left behind at most as many items
\* as the producer's store buffer holds stores, and none on a machine without
\* store buffers: the reordering of the store of write_ and the load of the flag
\* in push is the only way to miss one.
THEOREM MissesOnlyBuffered == FairSpec => []FewLeftBehind
<1>1. WakeInv => FewLeftBehind
  <2> SUFFICES ASSUME WakeInv, popPc = "blocked", pushPc = "idle", stopPc # "notify"
               PROVE  mem.write_ <= mem.read_ + BufferSize
    BY DEF FewLeftBehind
  <2> USE DEF WakeInv
  <2>1. mem.is_sleeping_
    BY DEF NoMissedNotify
  <2>2. Newest <= mem.read_ + BufferSize
    BY <2>1 DEF MissedInv
  <2>3. /\ mem.read_ \in Nat /\ mem.write_ \in Nat /\ BufferSize \in Nat
        /\ Unpublished \in Nat
    BY MemTypes, BufTypes DEF Unpublished, Thread
  <2> QED
    BY <2>2, <2>3 DEF Newest
<1> QED
  BY <1>1, WakeInvariant, PTL DEF FairSpec

\* The numbers 1 to n in order, and one more.
LEMMA CountAppend ==
  ASSUME NEW n \in Nat
  PROVE  /\ [i \in 1 .. n |-> i] \in Seq(Nat) /\ Len([i \in 1 .. n |-> i]) = n
         /\ [i \in 1 .. (n + 1) |-> i] = Append([i \in 1 .. n |-> i], n + 1)
<1> DEFINE q == [i \in 1 .. n |-> i]
<1>1. q \in Seq(Nat) /\ Len(q) = n
  OBVIOUS
<1>2. Append(q, n + 1) = [i \in 1 .. (n + 1) |-> Append(q, n + 1)[i]]
  BY <1>1
<1>3. \A i \in 1 .. (n + 1) : Append(q, n + 1)[i] = i
  BY <1>1
<1> QED
  BY <1>1, <1>2, <1>3

\* What memory shows of the two counters is a bounded queue, store buffers and
\* all: a drained write_ is the acceptance of an item, a drained read_ hands out.
THEOREM WaitableRefinesFifo == FairSpec => ImplementsFifo
<1>1. Init => Fifo!FifoInit
  <2> SUFFICES ASSUME Init PROVE Fifo!FifoInit
    OBVIOUS
  <2>1. mem.write_ = 0 /\ mem.read_ = 0
    BY DEF Init
  <2> QED
    BY <2>1 DEF Fifo!FifoInit
<1>2. WakeInv /\ [Next]_vars => [Fifo!FifoNext]_(Fifo!fifoVars)
  <2> SUFFICES ASSUME WakeInv, [Next]_vars
               PROVE  Fifo!FifoNext \/ UNCHANGED Fifo!fifoVars
    OBVIOUS
  <2> USE DEF WakeInv
  <2> DEFINE Upto(n) == [i \in 1 .. n |-> i]
  <2>0. /\ mem.write_ \in Nat /\ mem.read_ \in Nat /\ mem.read_ <= mem.write_
        /\ Capacity \in Nat /\ MaxPushes \in Nat
        /\ Newest \in Int /\ Newest <= MaxPushes /\ Newest <= mem.read_ + Capacity
        /\ Len(buf["producer"]) \in Nat
    BY MemTypes, BufTypes DEF CountInv, Newest, Unpublished, Thread
  <2>1. CASE mem'.write_ = mem.write_ /\ mem'.read_ = mem.read_
    BY <2>1 DEF Fifo!fifoVars
  <2>2. CASE Drain("producer") /\ mem'.write_ # mem.write_
    <3>1. /\ Len(buf["producer"]) \in Nat \ {0}
          /\ mem' = [mem EXCEPT ![buf["producer"][1].loc] = buf["producer"][1].val]
      BY <2>2, DrainFacts DEF Thread
    <3>2. buf["producer"][1] \in {WriteStore(mem.write_ + 1), ClearStore}
      BY <3>1 DEF ProducerInv
    <3>3. mem'.write_ = mem.write_ + 1 /\ mem'.read_ = mem.read_
          /\ buf["producer"][1] # ClearStore
      <4>1. mem.write_ + 1 \in Nat
        BY <2>0
      <4> QED
        BY <2>2, <3>1, <3>2, <4>1, MemAfter
    <3>4. Unpublished >= 1
      <4>1. 1 \in 1 .. Len(buf["producer"]) /\ Unpublished \in Int
        BY <3>1 DEF Unpublished
      <4>2. 1 <= Unpublished
        BY <3>3, <4>1 DEF ProducerInv
      <4> QED
        BY <4>1, <4>2
    <3>5. /\ mem.write_ - mem.read_ < Capacity /\ mem.write_ + 1 \in 1 .. MaxPushes
      <4>1. Unpublished \in Int /\ mem.write_ + 1 <= mem.write_ + Unpublished
        BY <2>0, <3>4 DEF Unpublished
      <4>2. mem.write_ + 1 <= Newest
        BY <4>1 DEF Newest
      <4> QED
        BY <2>0, <4>2
    <3>6. Upto(mem'.write_) = Append(Upto(mem.write_), mem.write_ + 1)
      BY <2>0, <3>3, CountAppend
    <3>7. Len(Upto(mem.write_)) = mem.write_ /\ Len(Upto(mem.read_)) = mem.read_
      BY <2>0, CountAppend
    <3>8. \E v \in 1 .. MaxPushes : Fifo!Accept(v)
      <4>1. mem.write_ + 1 \in 1 .. MaxPushes
        BY <3>5
      <4> HIDE DEF Upto
      <4> QED
        BY <3>3, <3>5, <3>6, <3>7, <4>1 DEF Fifo!Accept
    <3> QED
      BY <3>8 DEF Fifo!FifoNext
  <2>3. CASE Drain("consumer") /\ mem'.read_ # mem.read_
    <3>1. /\ Len(buf["consumer"]) \in Nat \ {0}
          /\ mem' = [mem EXCEPT ![buf["consumer"][1].loc] = buf["consumer"][1].val]
      BY <2>3, DrainFacts DEF Thread
    <3>2. 1 \in 1 .. Len(buf["consumer"]) /\ mem.read_ + 1 \in Nat
      BY <2>0, <3>1
    <3>3. buf["consumer"][1] # ClearStore
      BY <2>3, <3>1, MemAfter
    <3>4. buf["consumer"][1] = ReadStore(mem.read_ + 1) /\ mem.read_ + 1 <= mem.write_
      BY <3>2, <3>3 DEF ConsumerInv, CountInv
    <3>5. mem'.read_ = mem.read_ + 1 /\ mem'.write_ = mem.write_
      BY <3>1, <3>2, <3>4, MemAfter
    <3>6. Upto(mem'.read_) = Append(Upto(mem.read_), mem.read_ + 1)
      BY <2>0, <3>5, CountAppend
    <3>7. /\ Len(Upto(mem.write_)) = mem.write_ /\ Len(Upto(mem.read_)) = mem.read_
          /\ Upto(mem.write_)[mem.read_ + 1] = mem.read_ + 1
          /\ mem.read_ < mem.write_
      BY <2>0, <3>4, CountAppend
    <3>8. Fifo!HandOut
      BY <3>5, <3>6, <3>7 DEF Fifo!HandOut
    <3> QED
      BY <3>8 DEF Fifo!FifoNext
  <2>4. CASE Drain("producer") /\ mem'.write_ = mem.write_
    <3>1. /\ Len(buf["producer"]) \in Nat \ {0}
          /\ mem' = [mem EXCEPT ![buf["producer"][1].loc] = buf["producer"][1].val]
      BY <2>4, DrainFacts DEF Thread
    <3>2. buf["producer"][1] \in {WriteStore(mem.write_ + 1), ClearStore}
      BY <3>1 DEF ProducerInv
    <3>3. mem'.read_ = mem.read_
      <4>1. mem.write_ + 1 \in Nat
        BY <2>0
      <4> QED
        BY <3>1, <3>2, <4>1, MemAfter
    <3> QED
      BY <2>1, <2>4, <3>3
  <2>5. CASE Drain("consumer") /\ mem'.read_ = mem.read_
    <3>1. /\ Len(buf["consumer"]) \in Nat \ {0}
          /\ mem' = [mem EXCEPT ![buf["consumer"][1].loc] = buf["consumer"][1].val]
      BY <2>5, DrainFacts DEF Thread
    <3>2. 1 \in 1 .. Len(buf["consumer"]) /\ mem.read_ + 1 \in Nat
      BY <2>0, <3>1
    <3>3. buf["consumer"][1] \in {ReadStore(mem.read_ + 1), ClearStore}
      BY <3>2 DEF ConsumerInv
    <3>4. mem'.write_ = mem.write_
      BY <3>1, <3>2, <3>3, MemAfter
    <3> QED
      BY <2>1, <2>5, <3>4
  <2>6. CASE Drain("stopper")
    <3>1. /\ Len(buf["stopper"]) \in Nat \ {0}
          /\ mem' = [mem EXCEPT ![buf["stopper"][1].loc] = buf["stopper"][1].val]
      BY <2>6, DrainFacts DEF Thread
    <3>2. 1 \in 1 .. Len(buf["stopper"])
      BY <3>1
    <3>3. buf["stopper"][1] = ClearStore
      BY <3>2 DEF StopperInv
    <3> QED
      BY <2>1, <3>1, <3>3, MemAfter
  <2>7. CASE PopSleep
    <3>1. mem'.write_ = mem.write_ /\ mem'.read_ = mem.read_
      BY <2>7 DEF PopSleep, TypesInv
    <3> QED
      BY <2>1, <3>1
  <2>8. CASE ~PopSleep /\ ~Drain("producer") /\ ~Drain("consumer") /\ ~Drain("stopper")
    <3>1. mem' = mem
      BY <2>8 DEF Next, PushRest, Consumer, StopRest, PushStore, PushCheck, PushClear,
                  PushNotify, PopCall, PopTest, PopFirst, PopSecond, PopAwake, PopWait,
                  PopReturn, StopRequest, StopCallback, StopNotify, StopJoin, Thread,
                  vars
    <3> QED
      BY <2>1, <3>1
  <2> QED
    BY <2>2, <2>3, <2>4, <2>5, <2>6, <2>7, <2>8
<1> QED
  BY <1>1, <1>2, WakeInvariant, PTL
     DEF FairSpec, Spec, ImplementsFifo, Fifo!FifoSpec
=============================================================================
