----------------------- MODULE CustomSpscQueueProofs ------------------------
(***************************************************************************)
(* Proofs about CustomSpscQueue for every capacity, every counter width    *)
(* that is a multiple of it, every element type and every number of        *)
(* pushes.                                                                 *)
(***************************************************************************)
EXTENDS CustomSpscQueue, TLAPS

-----------------------------------------------------------------------------
(* Arithmetic of the counters *)

\* The remainder of a division is determined by the division.
LEMMA ModUnique ==
  ASSUME NEW N \in Nat \ {0}, NEW a \in Nat, NEW q \in Nat,
         NEW t \in 0 .. (N - 1), a = N * q + t
  PROVE  a % N = t
<1> DEFINE p == a \div N
           u == a % N
<1>1. p \in Nat /\ u \in 0 .. (N - 1) /\ a = N * p + u
  OBVIOUS
<1> HIDE DEF p, u
<1>2. N * (p - q) = t - u
  BY <1>1
<1>3. p - q >= 1 => N * (p - q) >= N
  BY <1>1
<1>4. p - q <= -1 => N * (p - q) <= -N
  BY <1>1
<1>5. p - q = 0
  BY <1>1, <1>2, <1>3, <1>4
<1>6. u = t
  BY <1>1, <1>2, <1>5
<1> QED
  BY <1>6 DEF u

\* Numbers less than N apart have different remainders: no two items that are
\* in the ring together share a slot.
LEMMA SlotsDiffer ==
  ASSUME NEW N \in Nat \ {0}, NEW i \in Nat, NEW j \in Nat, i < j, j - i < N
  PROVE  i % N # j % N
<1> DEFINE p == i \div N
           q == j \div N
           u == i % N
<1> SUFFICES ASSUME i % N = j % N
             PROVE  FALSE
  OBVIOUS
<1>1. p \in Nat /\ q \in Nat /\ u \in 0 .. (N - 1)
  OBVIOUS
<1>2. i = N * p + u /\ j = N * q + u
  OBVIOUS
<1> HIDE DEF p, q, u
<1>3. N * (q - p) = j - i
  BY <1>1, <1>2
<1>4. q - p >= 1 => N * (q - p) >= N
  BY <1>1
<1>5. q - p <= 0 => N * (q - p) <= 0
  BY <1>1
<1> QED
  BY <1>1, <1>3, <1>4, <1>5

\* Reducing modulo a multiple of C first does not change the remainder by C:
\* a wrapped counter still selects the slot of its item.
LEMMA ModMod ==
  ASSUME NEW C \in Nat \ {0}, NEW M \in Nat \ {0}, M % C = 0, NEW a \in Nat
  PROVE  (a % M) % C = a % C
<1> DEFINE q == a \div M
           r == a % M
           k == M \div C
           s == r \div C
           t == r % C
<1>1. q \in Nat /\ r \in Nat /\ a = M * q + r
  OBVIOUS
<1>2. k \in Nat /\ M = C * k
  OBVIOUS
<1>3. s \in Nat /\ t \in 0 .. (C - 1) /\ r = C * s + t
  BY <1>1
<1> HIDE DEF q, r, k, s, t
<1>4. k * q + s \in Nat
  BY <1>1, <1>2, <1>3
<1>5. M * q = C * (k * q)
  BY <1>1, <1>2
<1>6. C * (k * q + s) = C * (k * q) + C * s
  BY <1>1, <1>2, <1>3
<1>7. a = C * (k * q + s) + t
  BY <1>1, <1>3, <1>5, <1>6
<1>8. a % C = t
  BY <1>3, <1>4, <1>7, ModUnique
<1> QED
  BY <1>8 DEF t, r

\* Incrementing a counter of width M.
LEMMA ModSucc ==
  ASSUME NEW M \in Nat \ {0}, NEW a \in Nat
  PROVE  ((a % M) + 1) % M = (a + 1) % M
<1> DEFINE q == a \div M
           r == a % M
<1>1. q \in Nat /\ r \in 0 .. (M - 1) /\ a = M * q + r
  OBVIOUS
<1> HIDE DEF q, r
<1>2. CASE r + 1 < M
  <2>1. (a + 1) % M = r + 1
    BY <1>1, <1>2, ModUnique
  <2>2. (r + 1) % M = r + 1
    BY <1>1, <1>2, ModUnique
  <2> QED
    BY <2>1, <2>2 DEF r
<1>3. CASE r + 1 = M
  <2>1. a + 1 = M * (q + 1) + 0
    BY <1>1, <1>3
  <2>2. (a + 1) % M = 0
    BY <1>1, <2>1, ModUnique
  <2>3. r + 1 = M * 1 + 0
    BY <1>3
  <2>4. (r + 1) % M = 0
    BY <1>1, <2>3, ModUnique
  <2> QED
    BY <2>2, <2>4 DEF r
<1> QED
  BY <1>1, <1>2, <1>3

\* w - r in std::size_t is the true number of items between two tickets, also
\* when one of the counters has wrapped.
LEMMA MinusTrue ==
  ASSUME Modulus \in Nat \ {0}, NEW w \in Nat, NEW r \in Nat,
         r <= w, w - r < Modulus
  PROVE  Minus(w % Modulus, r % Modulus) = w - r
<1> DEFINE p == w \div Modulus
           u == w % Modulus
           q == r \div Modulus
           v == r % Modulus
<1>1. /\ p \in Nat /\ u \in 0 .. (Modulus - 1) /\ w = Modulus * p + u
      /\ q \in Nat /\ v \in 0 .. (Modulus - 1) /\ r = Modulus * q + v
  OBVIOUS
<1> HIDE DEF p, q, u, v
<1>2. w - r = Modulus * (p - q) + (u - v)
  BY <1>1
<1>3. p - q >= 2 => Modulus * (p - q) >= 2 * Modulus
  BY <1>1
<1>4. p - q <= -1 => Modulus * (p - q) <= -Modulus
  BY <1>1
<1>5. p - q = 0 \/ p - q = 1
  BY <1>1, <1>2, <1>3, <1>4
<1>6. (u - v + Modulus) % Modulus = w - r
  <2>1. CASE p - q = 0
    <3>1. u - v + Modulus = Modulus * 1 + (w - r)
      BY <1>1, <1>2, <2>1
    <3>2. u - v + Modulus \in Nat /\ w - r \in 0 .. (Modulus - 1)
      BY <1>1
    <3> QED
      BY <3>1, <3>2, ModUnique
  <2>2. CASE p - q = 1
    <3>1. u - v + Modulus = Modulus * 0 + (w - r)
      BY <1>1, <1>2, <2>2
    <3>2. u - v + Modulus \in Nat /\ w - r \in 0 .. (Modulus - 1)
      BY <1>1
    <3> QED
      BY <3>1, <3>2, ModUnique
  <2> QED
    BY <1>5, <2>1, <2>2
<1> QED
  BY <1>6 DEF Minus, u, v

\* A sequence with one element more.
LEMMA AppendFacts ==
  ASSUME NEW S, NEW q \in Seq(S), NEW e \in S, NEW q1, q1 = Append(q, e)
  PROVE  /\ q1 \in Seq(S) /\ q1 # << >> /\ Len(q1) = Len(q) + 1
         /\ \A k \in 1 .. Len(q) : q1[k] = q[k]
         /\ q1[Len(q) + 1] = e
  OBVIOUS

-----------------------------------------------------------------------------
(* What the invariant says about a state *)

IInv == TypeOK /\ RingInv

\* Both sizes are positive.
LEMMA ModulusPositive == Modulus \in Nat \ {0} /\ Capacity \in Nat \ {0}
  BY CapacityAssumption, ModulusAssumption

\* The bounds on tickets and views, and the values of the counters.
LEMMA RingFacts ==
  ASSUME IInv
  PROVE  /\ NPushed \in Nat /\ NDelivered \in Nat
         /\ NDelivered <= NPushed /\ NPushed - NDelivered <= Capacity
         /\ pushView \in Nat \ {0} /\ pushView - 1 <= NDelivered
         /\ popView \in Nat \ {0} /\ popView - 1 <= NPushed
         /\ Latest(write_) = NPushed % Modulus
         /\ Latest(read_) = NDelivered % Modulus
         /\ pushPc # "idle" => SlotOf(pushW) = NPushed % Capacity
         /\ popPc # "idle" => SlotOf(popR) = NDelivered % Capacity
<1>1. NPushed \in Nat /\ NDelivered \in Nat
  BY DEF IInv, TypeOK, NPushed, NDelivered
<1>2. Len(write_) = NPushed + 1 /\ Len(read_) = NDelivered + 1
  BY DEF IInv, RingInv, CountersInv
<1>3. /\ pushView \in Nat \ {0} /\ pushView - 1 <= NDelivered
      /\ popView \in Nat \ {0} /\ popView - 1 <= NPushed
  BY <1>1, <1>2 DEF IInv, TypeOK
<1>4. NDelivered <= NPushed /\ NPushed - NDelivered <= Capacity
  BY <1>1, <1>3, CapacityAssumption DEF IInv, RingInv, ViewsInv
<1>5. /\ Latest(write_) = NPushed % Modulus
      /\ Latest(read_) = NDelivered % Modulus
  BY <1>1, <1>2 DEF IInv, RingInv, CountersInv, Latest
<1>6. /\ (NPushed % Modulus) % Capacity = NPushed % Capacity
      /\ (NDelivered % Modulus) % Capacity = NDelivered % Capacity
  BY <1>1, ModMod, ModulusPositive, ModulusAssumption
<1>7. /\ pushPc # "idle" => SlotOf(pushW) = NPushed % Capacity
      /\ popPc # "idle" => SlotOf(popR) = NDelivered % Capacity
  BY <1>6 DEF IInv, RingInv, PushInv, PopInv, SlotOf
<1> QED
  BY <1>1, <1>3, <1>4, <1>5, <1>7

\* The counters are values of std::size_t.
LEMMA LatestInRange ==
  ASSUME IInv
  PROVE  /\ Latest(write_) \in 0 .. (Modulus - 1)
         /\ Latest(read_) \in 0 .. (Modulus - 1)
  BY RingFacts, ModulusPositive

\* Two live tickets are less than Capacity apart, and so is a live ticket from
\* the one push is about to construct.
LEMMA LiveTicketFacts ==
  ASSUME IInv, NEW t \in LiveTicket
  PROVE  /\ t \in Nat /\ NDelivered <= t /\ t <= NPushed
         /\ t - NDelivered < Capacity
         /\ pushPc \in {"construct", "publish"} => NPushed - t < Capacity
         /\ pushPc # "publish" => t < NPushed
         /\ popPc = "release" => NDelivered < t
         /\ ItemOf(t) \in Item
<1>1. t \in Nat /\ NDelivered <= t /\ t <= NPushed
  BY RingFacts DEF LiveTicket
<1>2. pushPc \in {"construct", "publish"} => NPushed - NDelivered < Capacity
  BY RingFacts, CapacityAssumption DEF IInv, RingInv, PushInv
<1>3. pushPc # "publish" => t < NPushed
  BY <1>1, RingFacts DEF LiveTicket
<1>4. t - NDelivered < Capacity
  BY <1>1, <1>2, <1>3, RingFacts, CapacityAssumption
<1>5. popPc = "release" => NDelivered < t
  BY <1>1, RingFacts DEF LiveTicket
<1>6. ItemOf(t) \in Item
  <2>1. CASE t = NPushed
    BY <1>3, <2>1, RingFacts DEF ItemOf, IInv, RingInv, PushInv
  <2>2. CASE t # NPushed
    <3>1. t + 1 \in 1 .. Len(pushed)
      BY <1>1, <2>2, RingFacts DEF NPushed
    <3> QED
      BY <2>2, <3>1 DEF ItemOf, IInv, TypeOK
  <2> QED
    BY <2>1, <2>2
<1>7. pushPc \in {"construct", "publish"} => NPushed - t < Capacity
  BY <1>1, <1>2, RingFacts, CapacityAssumption
<1> QED
  BY <1>1, <1>3, <1>4, <1>5, <1>6, <1>7

-----------------------------------------------------------------------------
(* Every step preserves the invariant *)

\* A new queue satisfies the invariant.
LEMMA InitIInv == Init => IInv
<1> SUFFICES ASSUME Init PROVE IInv
  OBVIOUS
<1> USE DEF Init
<1>1. TypeOK
  BY ModulusPositive DEF TypeOK, Slot
<1>2. CountersInv
  <2>1. 0 % Modulus = 0
    BY ModulusPositive, ModUnique
  <2> QED
    BY <2>1 DEF CountersInv, NPushed, NDelivered
<1>3. ViewsInv
  BY CapacityAssumption DEF ViewsInv, NPushed, NDelivered
<1>4. LiveTicket = {}
  BY DEF LiveTicket, NPushed, NDelivered
<1>5. DataInv
  BY <1>4 DEF DataInv
<1> QED
  BY <1>1, <1>2, <1>3, <1>5
     DEF IInv, RingInv, PushInv, PopInv, DestroyedInv, EmptyInv, FifoOrder,
         NPushed, NDelivered

\* A step that leaves alone what the ring consists of, except for the control
\* state of the calls, keeps the data part of the invariant.
LEMMA DataKept ==
  ASSUME DataInv,
         UNCHANGED <<data_, alive, pushed, delivered>>,
         LiveTicket' = LiveTicket,
         \A t \in LiveTicket : t = NPushed => pushItem' = pushItem
  PROVE  DataInv'
<1>1. \A t \in LiveTicket : ItemOf(t)' = ItemOf(t)
  BY DEF ItemOf, NPushed
<1> QED
  BY <1>1 DEF DataInv, Slot

\* The call of push only changes the locals of push.
LEMMA PushCallStep == ASSUME IInv, NEW v \in Item, PushCall(v) PROVE IInv'
<1> USE DEF PushCall, popVars
<1>1. TypeOK'
  <2>1. pushW' \in 0 .. (Modulus - 1)
    BY LatestInRange
  <2> QED
    BY <2>1 DEF IInv, TypeOK
<1>2. LiveTicket' = LiveTicket
  BY DEF LiveTicket, NPushed, NDelivered
<1>3. \A t \in LiveTicket : t # NPushed
  BY LiveTicketFacts, RingFacts
<1>4. DataInv'
  BY <1>2, <1>3, DataKept DEF IInv, RingInv
<1> QED
  BY <1>1, <1>4, RingFacts
     DEF IInv, RingInv, CountersInv, ViewsInv, PushInv, PopInv, DestroyedInv,
         EmptyInv, FifoOrder, NPushed, NDelivered

\* The view is not older than the one before, so the ring is not overfull; and
\* if push goes on it has seen a free slot, although the value may be old.
LEMMA PushLoadReadStep == ASSUME IInv, PushLoadRead PROVE IInv'
<1> PICK i \in pushView .. Len(read_) :
           /\ pushView' = i
           /\ pushPc' = IF Full(pushW, read_[i]) THEN "idle" ELSE "construct"
  BY DEF PushLoadRead
<1> USE DEF PushLoadRead, popVars
<1>1. /\ i \in Nat /\ i >= pushView /\ i <= NDelivered + 1
      /\ i \in 1 .. Len(read_)
  BY RingFacts DEF IInv, RingInv, CountersInv
<1>2. TypeOK'
  BY <1>1 DEF IInv, TypeOK
<1>3. NPushed - (i - 1) <= Capacity
  BY <1>1, RingFacts, CapacityAssumption DEF IInv, RingInv, ViewsInv
<1>4. Minus(pushW, read_[i]) = NPushed - (i - 1)
  <2>1. pushW = NPushed % Modulus /\ read_[i] = (i - 1) % Modulus
    BY <1>1 DEF IInv, RingInv, PushInv, CountersInv
  <2>2. /\ i - 1 \in Nat /\ i - 1 <= NPushed
        /\ NPushed - (i - 1) < Modulus
    BY <1>1, <1>3, RingFacts, ModulusAssumption, CapacityAssumption
  <2> QED
    BY <2>1, <2>2, MinusTrue, ModulusPositive, RingFacts
<1>5. pushPc' = "construct" => NPushed - (i - 1) < Capacity
  BY <1>1, <1>3, <1>4, RingFacts, CapacityAssumption DEF Full
<1>6. LiveTicket' = LiveTicket
  BY DEF LiveTicket, NPushed, NDelivered
<1>7. DataInv'
  BY <1>6, DataKept DEF IInv, RingInv
<1> QED
  BY <1>2, <1>3, <1>5, <1>7
     DEF IInv, RingInv, CountersInv, ViewsInv, PushInv, PopInv, DestroyedInv,
         EmptyInv, FifoOrder, NPushed, NDelivered

\* The slot that is constructed is the slot of no other live ticket.
LEMMA PushConstructStep == ASSUME IInv, PushConstruct PROVE IInv'
<1> USE DEF PushConstruct, popVars
<1>1. pushPc # "idle" /\ pushItem \in Item
  BY DEF IInv, RingInv, PushInv
<1>2. SlotOf(pushW) = NPushed % Capacity /\ NPushed % Capacity \in Slot
  BY <1>1, RingFacts, ModulusPositive DEF Slot
<1>3. TypeOK'
  BY <1>1, <1>2 DEF IInv, TypeOK
<1>4. NPushed' = NPushed /\ NDelivered' = NDelivered
  BY DEF NPushed, NDelivered
<1>5. NPushed # NDelivered \/ popPc # "release"
  BY RingFacts DEF IInv, RingInv, PopInv
<1>6. LiveTicket' = LiveTicket \cup {NPushed}
  BY <1>4, <1>5, RingFacts DEF LiveTicket
<1>7. \A t \in LiveTicket : /\ t \in Nat /\ t < NPushed
                            /\ t % Capacity # NPushed % Capacity
  BY LiveTicketFacts, SlotsDiffer, RingFacts, ModulusPositive
<1>8. DataInv'
  <2> SUFFICES ASSUME alive PROVE DataInv'
    BY DEF DataInv
  <2>1. data_ \in [Slot -> Item \cup {Raw}]
    BY DEF IInv, TypeOK
  <2>2. data_' = [data_ EXCEPT ![NPushed % Capacity] = pushItem]
    BY <1>2
  <2>3. ASSUME NEW t \in LiveTicket'
        PROVE  (data_')[t % Capacity] = ItemOf(t)'
    <3>1. CASE t = NPushed
      BY <1>2, <1>4, <2>1, <2>2, <3>1 DEF ItemOf
    <3>2. CASE t \in LiveTicket
      <4>1. data_[t % Capacity] = ItemOf(t)
        BY <3>2 DEF IInv, RingInv, DataInv
      <4>2. t % Capacity \in Slot
        BY <1>7, <3>2, ModulusPositive DEF Slot
      <4>3. ItemOf(t)' = ItemOf(t)
        BY <1>4 DEF ItemOf
      <4> QED
        BY <1>7, <2>1, <2>2, <3>2, <4>1, <4>2, <4>3
    <3> QED
      BY <1>6, <3>1, <3>2
  <2>4. ASSUME NEW s \in Slot, (data_')[s] # Raw
        PROVE  \E t \in LiveTicket' : t % Capacity = s
    <3>1. CASE s = NPushed % Capacity
      BY <1>6, <3>1
    <3>2. CASE s # NPushed % Capacity
      BY <1>6, <2>1, <2>2, <2>4, <3>2 DEF IInv, RingInv, DataInv
    <3> QED
      BY <3>1, <3>2
  <2> QED
    BY <2>3, <2>4 DEF DataInv, Slot
<1> QED
  BY <1>3, <1>8
     DEF IInv, RingInv, CountersInv, ViewsInv, PushInv, PopInv, DestroyedInv,
         EmptyInv, FifoOrder, NPushed, NDelivered

\* The ticket of the item in hand goes on being live under its new number.
LEMMA PushPublishStep == ASSUME IInv, PushPublish PROVE IInv'
<1>1. /\ pushPc = "publish" /\ pushPc' = "idle"
      /\ UNCHANGED <<read_, data_, alive, pushW, pushItem, pushView, popPc, popR,
                     popItem, popView, emptyRet, delivered>>
  BY DEF PushPublish, popVars
<1>2. pushItem \in Item /\ pushW = NPushed % Modulus
  BY <1>1 DEF IInv, RingInv, PushInv
<1>3. /\ NPushed' = NPushed + 1 /\ NDelivered' = NDelivered
      /\ \A k \in 1 .. NPushed : (pushed')[k] = pushed[k]
      /\ (pushed')[NPushed + 1] = pushItem
      /\ pushed' \in Seq(Item)
  <2>1. pushed' = Append(pushed, pushItem) /\ pushed \in Seq(Item)
    BY DEF PushPublish, IInv, TypeOK
  <2> QED
    BY <1>1, <1>2, <2>1, AppendFacts DEF NPushed, NDelivered
<1>4. /\ write_' \in Seq(0 .. (Modulus - 1)) /\ write_' # << >>
      /\ Len(write_) = NPushed + 1 /\ Len(write_') = NPushed + 2
      /\ \A k \in 1 .. (NPushed + 1) : (write_')[k] = write_[k]
      /\ (write_')[NPushed + 2] = (NPushed + 1) % Modulus
  <2>1. (pushW + 1) % Modulus = (NPushed + 1) % Modulus
    BY <1>2, ModSucc, ModulusPositive, RingFacts
  <2>2. (NPushed + 1) % Modulus \in 0 .. (Modulus - 1)
    BY ModulusPositive, RingFacts
  <2>3. Len(write_) = NPushed + 1 /\ write_ \in Seq(0 .. (Modulus - 1))
    BY DEF IInv, TypeOK, RingInv, CountersInv
  <2>4. write_' = Append(write_, (NPushed + 1) % Modulus)
    BY <2>1 DEF PushPublish
  <2>5. /\ write_' \in Seq(0 .. (Modulus - 1)) /\ write_' # << >>
        /\ Len(write_') = Len(write_) + 1
        /\ \A k \in 1 .. Len(write_) : (write_')[k] = write_[k]
        /\ (write_')[Len(write_) + 1] = (NPushed + 1) % Modulus
    BY <2>2, <2>3, <2>4, AppendFacts
  <2> QED
    BY <2>3, <2>5, RingFacts
<1>5. TypeOK'
  BY <1>1, <1>3, <1>4, RingFacts DEF IInv, TypeOK
<1>6. CountersInv'
  <2>1. ASSUME NEW i \in 1 .. Len(write_')
        PROVE  (write_')[i] = (i - 1) % Modulus
    <3>1. CASE i = NPushed + 2
      BY <1>4, <3>1, RingFacts
    <3>2. CASE i # NPushed + 2
      <4>1. i \in 1 .. Len(write_) /\ i \in 1 .. (NPushed + 1)
        BY <1>4, <3>2, RingFacts
      <4>2. write_[i] = (i - 1) % Modulus
        BY <4>1 DEF IInv, RingInv, CountersInv
      <4> QED
        BY <1>4, <4>1, <4>2
    <3> QED
      BY <3>1, <3>2
  <2> QED
    BY <1>1, <1>3, <1>4, <2>1, RingFacts DEF IInv, RingInv, CountersInv
<1>7. ViewsInv'
  BY <1>1, <1>3, RingFacts, CapacityAssumption
     DEF IInv, RingInv, ViewsInv, PushInv
<1>8. popPc = "release" => NDelivered < NPushed
  BY RingFacts DEF IInv, RingInv, PopInv
<1>9. LiveTicket' = LiveTicket
  BY <1>1, <1>3, <1>8, RingFacts DEF LiveTicket
<1>10. DataInv'
  <2>1. ASSUME NEW t \in LiveTicket
        PROVE  ItemOf(t)' = ItemOf(t)
    <3>1. t \in Nat /\ t <= NPushed /\ NPushed \in Nat
      BY LiveTicketFacts, RingFacts
    <3>2. CASE t = NPushed
      BY <1>3, <3>1, <3>2 DEF ItemOf
    <3>3. CASE t # NPushed
      <4>1. t + 1 \in 1 .. NPushed
        BY <3>1, <3>3
      <4> QED
        BY <1>3, <3>1, <3>3, <4>1 DEF ItemOf
    <3> QED
      BY <3>2, <3>3
  <2> QED
    BY <1>1, <1>9, <2>1 DEF IInv, RingInv, DataInv, Slot
<1>11. PopInv'
  <2>1. /\ popPc # "idle" => popR = NDelivered % Modulus
        /\ popPc \in {"move", "destroy", "release"} => NDelivered < popView - 1
        /\ popPc \in {"destroy", "release"} => popItem = pushed[NDelivered + 1]
    BY DEF IInv, RingInv, PopInv
  <2>2. popPc \in {"destroy", "release"} => NDelivered + 1 \in 1 .. NPushed
    BY <2>1, RingFacts
  <2> QED
    BY <1>1, <1>3, <2>1, <2>2 DEF PopInv
<1>12. FifoOrder'
  <2>1. NDelivered <= NPushed /\ NPushed \in Nat /\ NDelivered \in Nat
    BY RingFacts
  <2>2. \A k \in 1 .. NDelivered : delivered[k] = pushed[k]
    BY DEF IInv, RingInv, FifoOrder, NDelivered
  <2>3. \A k \in 1 .. NDelivered : k \in 1 .. NPushed
    BY <2>1
  <2>4. \A k \in 1 .. NDelivered : (delivered')[k] = (pushed')[k]
    BY <1>1, <1>3, <2>2, <2>3
  <2> QED
    BY <1>1, <1>3, <2>1, <2>4 DEF FifoOrder, NDelivered, NPushed
<1> QED
  BY <1>1, <1>5, <1>6, <1>7, <1>10, <1>11, <1>12
     DEF IInv, RingInv, PushInv, DestroyedInv, EmptyInv

\* The call of pop only changes the locals of pop.
LEMMA PopCallStep == ASSUME IInv, PopCall PROVE IInv'
<1> USE DEF PopCall, pushVars
<1>1. TypeOK'
  <2>1. popR' \in 0 .. (Modulus - 1)
    BY LatestInRange
  <2> QED
    BY <2>1 DEF IInv, TypeOK
<1>2. LiveTicket' = LiveTicket
  BY DEF LiveTicket, NPushed, NDelivered
<1>3. DataInv'
  BY <1>2, DataKept DEF IInv, RingInv
<1> QED
  BY <1>1, <1>3, RingFacts
     DEF IInv, RingInv, CountersInv, ViewsInv, PushInv, PopInv, DestroyedInv,
         EmptyInv, FifoOrder, NPushed, NDelivered

\* If pop goes on, the value of write_ it has seen is beyond the oldest item.
LEMMA PopLoadWriteStep == ASSUME IInv, PopLoadWrite PROVE IInv'
<1> PICK i \in popView .. Len(write_) :
           /\ popView' = i
           /\ popPc' = IF NothingToPop(popR, write_[i]) THEN "idle" ELSE "move"
  BY DEF PopLoadWrite
<1> USE DEF PopLoadWrite, pushVars
<1>1. i \in Nat /\ i >= popView /\ i \in 1 .. Len(write_)
  BY RingFacts DEF IInv, RingInv, CountersInv
<1>2. TypeOK'
  BY <1>1 DEF IInv, TypeOK
<1>3. NDelivered <= i - 1
  BY <1>1, RingFacts DEF IInv, RingInv, ViewsInv
<1>4. popPc' = "move" => NDelivered < i - 1
  <2>1. popR = NDelivered % Modulus /\ write_[i] = (i - 1) % Modulus
    BY <1>1 DEF IInv, RingInv, PopInv, CountersInv
  <2> QED
    BY <1>1, <1>3, <2>1, RingFacts DEF NothingToPop
<1>5. LiveTicket' = LiveTicket
  BY DEF LiveTicket, NPushed, NDelivered
<1>6. DataInv'
  BY <1>5, DataKept DEF IInv, RingInv
<1> QED
  BY <1>2, <1>3, <1>4, <1>6
     DEF IInv, RingInv, CountersInv, ViewsInv, PushInv, PopInv, DestroyedInv,
         EmptyInv, FifoOrder, NPushed, NDelivered

\* A pop past its test has the oldest accepted item under its hands.
LEMMA OldestIsLive ==
  ASSUME IInv, popPc \in {"move", "destroy"}
  PROVE  /\ NDelivered \in LiveTicket /\ NDelivered < NPushed
         /\ ItemOf(NDelivered) = pushed[NDelivered + 1]
<1>1. NDelivered < NPushed
  BY RingFacts DEF IInv, RingInv, PopInv
<1> QED
  BY <1>1, RingFacts DEF LiveTicket, ItemOf

\* What is moved out of the slot is the oldest accepted item.
LEMMA PopMoveStep == ASSUME IInv, PopMove PROVE IInv'
<1> USE DEF PopMove, pushVars
<1>1. alive
  BY DEF IInv, RingInv, DestroyedInv
<1>2. data_[SlotOf(popR)] = pushed[NDelivered + 1]
  BY <1>1, OldestIsLive, RingFacts DEF IInv, RingInv, DataInv
<1>3. pushed[NDelivered + 1] \in Item
  BY OldestIsLive, LiveTicketFacts
<1>4. TypeOK'
  BY <1>2, <1>3 DEF IInv, TypeOK
<1>5. LiveTicket' = LiveTicket
  BY DEF LiveTicket, NPushed, NDelivered
<1>6. DataInv'
  BY <1>5, DataKept DEF IInv, RingInv
<1> QED
  BY <1>2, <1>4, <1>6
     DEF IInv, RingInv, CountersInv, ViewsInv, PushInv, PopInv, DestroyedInv,
         EmptyInv, FifoOrder, NPushed, NDelivered

\* The slot that is destroyed is the slot of no other live ticket.
LEMMA PopDestroyStep == ASSUME IInv, PopDestroy PROVE IInv'
<1>1. /\ popPc = "destroy" /\ popPc' = "release"
      /\ data_' = [data_ EXCEPT ![SlotOf(popR)] = Raw]
      /\ UNCHANGED <<read_, write_, alive, pushPc, pushW, pushItem, pushView,
                     popR, popItem, popView, emptyRet, pushed, delivered>>
  BY DEF PopDestroy, pushVars
<1>2. SlotOf(popR) = NDelivered % Capacity /\ NDelivered % Capacity \in Slot
  BY <1>1, RingFacts, ModulusPositive DEF Slot
<1>3. data_ \in [Slot -> Item \cup {Raw}]
  BY DEF IInv, TypeOK
<1>4. TypeOK'
  BY <1>1, <1>2 DEF IInv, TypeOK
<1>5. NPushed' = NPushed /\ NDelivered' = NDelivered
  BY <1>1 DEF NPushed, NDelivered
<1>6. LiveTicket' = LiveTicket \ {NDelivered}
  BY <1>1, <1>5, RingFacts DEF LiveTicket
<1>7. \A t \in LiveTicket' : /\ t \in LiveTicket /\ t \in Nat
                             /\ t % Capacity # NDelivered % Capacity
                             /\ t % Capacity \in Slot
  <2> TAKE t \in LiveTicket'
  <2>1. t \in LiveTicket /\ t # NDelivered
    BY <1>6
  <2>2. t \in Nat /\ NDelivered < t /\ t - NDelivered < Capacity
    BY <2>1, LiveTicketFacts, RingFacts
  <2>3. NDelivered % Capacity # t % Capacity
    BY <2>2, SlotsDiffer, RingFacts, ModulusPositive
  <2>4. t % Capacity \in Slot
    BY <2>2, ModulusPositive DEF Slot
  <2> QED
    BY <2>1, <2>2, <2>3, <2>4
<1>8. DataInv'
  <2> SUFFICES ASSUME alive PROVE DataInv'
    BY <1>1 DEF DataInv
  <2>1. ASSUME NEW t \in LiveTicket'
        PROVE  (data_')[t % Capacity] = ItemOf(t)'
    <3>1. data_[t % Capacity] = ItemOf(t)
      BY <1>7 DEF IInv, RingInv, DataInv
    <3>2. ItemOf(t)' = ItemOf(t)
      BY <1>1, <1>5 DEF ItemOf
    <3> QED
      BY <1>1, <1>2, <1>3, <1>7, <3>1, <3>2
  <2>2. ASSUME NEW s \in Slot, (data_')[s] # Raw
        PROVE  \E t \in LiveTicket' : t % Capacity = s
    <3>1. s # NDelivered % Capacity /\ data_[s] # Raw
      BY <1>1, <1>2, <1>3, <2>2
    <3> QED
      BY <1>6, <3>1 DEF IInv, RingInv, DataInv
  <2> QED
    BY <2>1, <2>2 DEF DataInv, Slot
<1> QED
  BY <1>1, <1>4, <1>8
     DEF IInv, RingInv, CountersInv, ViewsInv, PushInv, PopInv, DestroyedInv,
         EmptyInv, FifoOrder, NPushed, NDelivered

\* The oldest ticket stops being counted; its slot is free already.
LEMMA PopReleaseStep == ASSUME IInv, PopRelease PROVE IInv'
<1>1. /\ popPc = "release" /\ popPc' = "idle"
      /\ UNCHANGED <<write_, data_, alive, pushPc, pushW, pushItem, pushView,
                     popR, popItem, popView, emptyRet, pushed>>
  BY DEF PopRelease, pushVars
<1>2. /\ popR = NDelivered % Modulus /\ popItem = pushed[NDelivered + 1]
      /\ NDelivered < popView - 1
  BY <1>1 DEF IInv, RingInv, PopInv
<1>3. NDelivered < NPushed /\ popItem \in Item
  <2>1. NDelivered < NPushed
    BY <1>2, RingFacts
  <2>2. NDelivered + 1 \in 1 .. Len(pushed)
    BY <2>1, RingFacts DEF NPushed
  <2> QED
    BY <1>2, <2>1, <2>2 DEF IInv, TypeOK
<1>4. /\ NDelivered' = NDelivered + 1 /\ NPushed' = NPushed
      /\ \A k \in 1 .. NDelivered : (delivered')[k] = delivered[k]
      /\ (delivered')[NDelivered + 1] = popItem
      /\ delivered' \in Seq(Item)
  <2>1. delivered' = Append(delivered, popItem) /\ delivered \in Seq(Item)
    BY DEF PopRelease, IInv, TypeOK
  <2> QED
    BY <1>1, <1>3, <2>1, AppendFacts DEF NPushed, NDelivered
<1>5. /\ read_' \in Seq(0 .. (Modulus - 1)) /\ read_' # << >>
      /\ Len(read_) = NDelivered + 1 /\ Len(read_') = NDelivered + 2
      /\ \A k \in 1 .. (NDelivered + 1) : (read_')[k] = read_[k]
      /\ (read_')[NDelivered + 2] = (NDelivered + 1) % Modulus
  <2>1. (popR + 1) % Modulus = (NDelivered + 1) % Modulus
    BY <1>2, ModSucc, ModulusPositive, RingFacts
  <2>2. (NDelivered + 1) % Modulus \in 0 .. (Modulus - 1)
    BY ModulusPositive, RingFacts
  <2>3. Len(read_) = NDelivered + 1 /\ read_ \in Seq(0 .. (Modulus - 1))
    BY DEF IInv, TypeOK, RingInv, CountersInv
  <2>4. read_' = Append(read_, (NDelivered + 1) % Modulus)
    BY <2>1 DEF PopRelease
  <2>5. /\ read_' \in Seq(0 .. (Modulus - 1)) /\ read_' # << >>
        /\ Len(read_') = Len(read_) + 1
        /\ \A k \in 1 .. Len(read_) : (read_')[k] = read_[k]
        /\ (read_')[Len(read_) + 1] = (NDelivered + 1) % Modulus
    BY <2>2, <2>3, <2>4, AppendFacts
  <2> QED
    BY <2>3, <2>5, RingFacts
<1>6. TypeOK'
  BY <1>1, <1>4, <1>5, RingFacts DEF IInv, TypeOK
<1>7. CountersInv'
  <2>1. ASSUME NEW i \in 1 .. Len(read_')
        PROVE  (read_')[i] = (i - 1) % Modulus
    <3>1. CASE i = NDelivered + 2
      BY <1>5, <3>1, RingFacts
    <3>2. CASE i # NDelivered + 2
      <4>1. i \in 1 .. Len(read_) /\ i \in 1 .. (NDelivered + 1)
        BY <1>5, <3>2, RingFacts
      <4>2. read_[i] = (i - 1) % Modulus
        BY <4>1 DEF IInv, RingInv, CountersInv
      <4> QED
        BY <1>5, <4>1, <4>2
    <3> QED
      BY <3>1, <3>2
  <2> QED
    BY <1>1, <1>4, <1>5, <2>1, RingFacts DEF IInv, RingInv, CountersInv
<1>8. ViewsInv'
  BY <1>1, <1>2, <1>4, RingFacts DEF IInv, RingInv, ViewsInv
<1>9. LiveTicket' = LiveTicket
  BY <1>1, <1>4, RingFacts DEF LiveTicket
<1>10. DataInv'
  <2>1. ASSUME NEW t \in LiveTicket
        PROVE  ItemOf(t)' = ItemOf(t)
    BY <1>1, <1>4 DEF ItemOf
  <2> QED
    BY <1>1, <1>9, <2>1 DEF IInv, RingInv, DataInv, Slot
<1>11. PushInv'
  BY <1>1, <1>4 DEF IInv, RingInv, PushInv
<1>12. FifoOrder'
  <2>1. \A k \in 1 .. NDelivered : delivered[k] = pushed[k]
    BY DEF IInv, RingInv, FifoOrder, NDelivered
  <2>2. \A k \in 1 .. (NDelivered + 1) :
          k \in 1 .. NDelivered \/ k = NDelivered + 1
    BY RingFacts
  <2>3. \A k \in 1 .. (NDelivered + 1) : (delivered')[k] = (pushed')[k]
    BY <1>1, <1>2, <1>4, <2>1, <2>2
  <2> QED
    BY <1>3, <1>4, <2>3, RingFacts DEF FifoOrder, NDelivered, NPushed
<1>13. EmptyInv'
  BY <1>1, <1>3, RingFacts DEF IInv, RingInv, EmptyInv
<1> QED
  BY <1>1, <1>6, <1>7, <1>8, <1>10, <1>11, <1>12, <1>13
     DEF IInv, RingInv, PopInv, DestroyedInv

\* The counters are less than Modulus apart, so equal values are equal tickets.
LEMMA EmptyStep == ASSUME IInv, Empty PROVE IInv'
<1> PICK i \in pushView .. Len(read_) :
           /\ pushView' = i
           /\ emptyRet' = CountersEqual(read_[i], Latest(write_))
  BY DEF Empty
<1> USE DEF Empty, popVars
<1>1. /\ i \in Nat /\ i >= pushView /\ i <= NDelivered + 1
      /\ i \in 1 .. Len(read_)
  BY RingFacts DEF IInv, RingInv, CountersInv
<1>2. NPushed - (i - 1) <= Capacity
  BY <1>1, RingFacts, CapacityAssumption DEF IInv, RingInv, ViewsInv
<1>3. emptyRet' => NDelivered = NPushed
  <2>1. read_[i] = (i - 1) % Modulus /\ Latest(write_) = NPushed % Modulus
    BY <1>1, RingFacts DEF IInv, RingInv, CountersInv
  <2>2. i - 1 \in Nat /\ NPushed \in Nat /\ NPushed - (i - 1) < Modulus
    BY <1>1, <1>2, RingFacts, ModulusAssumption, CapacityAssumption
  <2>3. i - 1 < NPushed => (i - 1) % Modulus # NPushed % Modulus
    BY <2>2, SlotsDiffer, ModulusPositive
  <2>4. emptyRet' = (read_[i] = Latest(write_))
    BY DEF CountersEqual
  <2>5. emptyRet' => ~(i - 1 < NPushed)
    BY <2>1, <2>3, <2>4
  <2> QED
    BY <1>1, <2>2, <2>5, RingFacts
<1>4. TypeOK'
  BY <1>1 DEF IInv, TypeOK, CountersEqual
<1>5. LiveTicket' = LiveTicket
  BY DEF LiveTicket, NPushed, NDelivered
<1>6. DataInv'
  BY <1>5, DataKept DEF IInv, RingInv
<1> QED
  BY <1>2, <1>3, <1>4, <1>6
     DEF IInv, RingInv, CountersInv, ViewsInv, PushInv, PopInv, DestroyedInv,
         EmptyInv, FifoOrder, NPushed, NDelivered

\* After the destructor nothing is said about data_.
LEMMA DestroyStep == ASSUME IInv, Destroy PROVE IInv'
<1> USE DEF Destroy, pushVars, popVars
<1>1. TypeOK'
  BY DEF IInv, TypeOK
<1>2. DataInv'
  BY DEF DataInv
<1> QED
  BY <1>1, <1>2
     DEF IInv, RingInv, CountersInv, ViewsInv, PushInv, PopInv, DestroyedInv,
         EmptyInv, FifoOrder, NPushed, NDelivered

\* Every step of the queue preserves the invariant.
LEMMA NextIInv == IInv /\ [Next]_vars => IInv'
<1> SUFFICES ASSUME IInv, [Next]_vars PROVE IInv'
  OBVIOUS
<1>1. CASE \E v \in Item : PushCall(v)
  BY <1>1, PushCallStep
<1>2. CASE PushLoadRead
  BY <1>2, PushLoadReadStep
<1>3. CASE PushConstruct
  BY <1>3, PushConstructStep
<1>4. CASE PushPublish
  BY <1>4, PushPublishStep
<1>5. CASE PopCall
  BY <1>5, PopCallStep
<1>6. CASE PopLoadWrite
  BY <1>6, PopLoadWriteStep
<1>7. CASE PopMove
  BY <1>7, PopMoveStep
<1>8. CASE PopDestroy
  BY <1>8, PopDestroyStep
<1>9. CASE PopRelease
  BY <1>9, PopReleaseStep
<1>10. CASE Empty
  BY <1>10, EmptyStep
<1>11. CASE Destroy
  BY <1>11, DestroyStep
<1>12. CASE UNCHANGED vars
  <2> USE <1>12 DEF vars, pushVars, popVars
  <2>1. TypeOK'
    BY DEF IInv, TypeOK
  <2>2. LiveTicket' = LiveTicket
    BY DEF LiveTicket, NPushed, NDelivered
  <2>3. DataInv'
    BY <2>2, DataKept DEF IInv, RingInv
  <2> QED
    BY <2>1, <2>3
       DEF IInv, RingInv, CountersInv, ViewsInv, PushInv, PopInv, DestroyedInv,
           EmptyInv, FifoOrder, NPushed, NDelivered
<1> QED
  BY <1>1, <1>2, <1>3, <1>4, <1>5, <1>6, <1>7, <1>8, <1>9, <1>10, <1>11, <1>12
     DEF Next, Push, Pop

-----------------------------------------------------------------------------
(* Theorems *)

\* The inductive invariant holds in every reachable state of the ring: where
\* each accepted item lies, and how old a counter value may still be acted on.
THEOREM RingInvariant == Spec => []IInv
<1>1. Init => IInv
  BY InitIInv
<1>2. IInv /\ [Next]_vars => IInv'
  BY NextIInv
<1> QED
  BY <1>1, <1>2, PTL DEF Spec

\* Every variable of push, pop, empty and the destructor keeps its type.
THEOREM TypeCorrect == Spec => []TypeOK
<1>1. IInv => TypeOK
  BY DEF IInv
<1> QED
  BY <1>1, RingInvariant, PTL

\* pop hands out exactly the items push accepted, in that order, at any
\* capacity and however the two calls interleave.
THEOREM FifoCorrect == Spec => []FifoOrder
<1>1. IInv => FifoOrder
  BY DEF IInv, RingInv
<1> QED
  BY <1>1, RingInvariant, PTL

\* push only constructs into a free slot and pop only takes from an occupied
\* one, so the plain accesses to data_ never race.
THEOREM SlotsOwned == Spec => []SlotOwnership
<1>1. ASSUME IInv PROVE SlotOwnership
  <2>1. ASSUME pushPc = "construct" PROVE data_[pushW % Capacity] = Raw
    <3>1. alive /\ pushW % Capacity = NPushed % Capacity
      BY <1>1, <2>1, RingFacts DEF IInv, RingInv, DestroyedInv, SlotOf
    <3>2. NPushed % Capacity \in Slot
      BY <1>1, RingFacts, ModulusPositive DEF Slot
    <3>3. ASSUME NEW t \in LiveTicket
          PROVE  t % Capacity # NPushed % Capacity
      <4>1. t \in Nat /\ t < NPushed /\ NPushed - t < Capacity
        BY <1>1, <2>1, LiveTicketFacts
      <4> QED
        BY <1>1, <4>1, SlotsDiffer, RingFacts, ModulusPositive
    <3> QED
      BY <1>1, <3>1, <3>2, <3>3 DEF IInv, RingInv, DataInv
  <2>2. ASSUME popPc \in {"move", "destroy"} PROVE data_[popR % Capacity] # Raw
    <3>1. alive /\ popR % Capacity = NDelivered % Capacity
      BY <1>1, <2>2, RingFacts DEF IInv, RingInv, DestroyedInv, SlotOf
    <3>2. NDelivered \in LiveTicket /\ ItemOf(NDelivered) \in Item
      BY <1>1, <2>2, OldestIsLive, LiveTicketFacts
    <3>3. data_[NDelivered % Capacity] = ItemOf(NDelivered)
      BY <1>1, <3>1, <3>2 DEF IInv, RingInv, DataInv
    <3> QED
      BY <3>1, <3>2, <3>3, RawAssumption
  <2> QED
    BY <2>1, <2>2 DEF SlotOwnership
<1> QED
  BY <1>1, RingInvariant, PTL

\* When empty() has told the pushing thread so, everything it pushed has been
\* handed out, although the counter it compared with may have been old.
THEOREM EmptyIsSound == Spec => []EmptyMeansDrained
<1>1. IInv => EmptyMeansDrained
  BY DEF IInv, RingInv, EmptyInv, EmptyMeansDrained, NPushed, NDelivered
<1> QED
  BY <1>1, RingInvariant, PTL

\* The ring of any capacity implements the bounded queue of SpscFifo: publishing
\* is the acceptance of an item, releasing is handing it out, and every other
\* step is invisible.
THEOREM RefinesFifo == Spec => ImplementsFifo
<1>1. Init => Fifo!FifoInit
  BY DEF Init, Fifo!FifoInit
<1>2. IInv /\ [Next]_vars => [Fifo!FifoNext]_(Fifo!fifoVars)
  <2> SUFFICES ASSUME IInv, [Next]_vars
               PROVE  Fifo!FifoNext \/ UNCHANGED <<pushed, delivered>>
    BY DEF Fifo!fifoVars
  <2>1. CASE PushPublish
    <3>1. Len(pushed) - Len(delivered) < Capacity /\ pushItem \in Item
      BY <2>1, RingFacts, CapacityAssumption
         DEF PushPublish, IInv, RingInv, PushInv, NPushed, NDelivered
    <3>2. Fifo!Accept(pushItem)
      BY <2>1, <3>1 DEF PushPublish, Fifo!Accept
    <3> QED
      BY <3>1, <3>2 DEF Fifo!FifoNext
  <2>2. CASE PopRelease
    <3>1. Len(delivered) < Len(pushed)
      BY <2>2, RingFacts
         DEF PopRelease, IInv, RingInv, PopInv, NPushed, NDelivered
    <3>2. popItem = pushed[Len(delivered) + 1]
      BY <2>2 DEF PopRelease, IInv, RingInv, PopInv, NDelivered
    <3>3. Fifo!HandOut
      BY <2>2, <3>1, <3>2 DEF PopRelease, Fifo!HandOut
    <3> QED
      BY <3>3 DEF Fifo!FifoNext
  <2>3. CASE ~PushPublish /\ ~PopRelease
    BY <2>3 DEF Next, Push, Pop, PushCall, PushLoadRead, PushConstruct, PopCall,
                PopLoadWrite, PopMove, PopDestroy, Empty, Destroy, vars
  <2> QED
    BY <2>1, <2>2, <2>3
<1> QED
  BY <1>1, <1>2, RingInvariant, PTL DEF Spec, ImplementsFifo, Fifo!FifoSpec

\* When the counters have not wrapped between them, the destructor's loop visits
\* the slot of every item that is left.
LEMMA LeftOverIsAll ==
  ASSUME IInv, alive, pushPc = "idle", popPc = "idle",
         Latest(read_) <= Latest(write_), NEW s \in Slot, data_[s] # Raw
  PROVE  \E i \in LeftOver(Latest(read_), Latest(write_)) : SlotOf(i) = s
<1> PICK t \in LiveTicket : t % Capacity = s
  BY DEF IInv, RingInv, DataInv
<1> DEFINE r == Latest(read_)
           w == Latest(write_)
           q == NDelivered \div Modulus
           i == r + (t - NDelivered)
<1>1. /\ t \in Nat /\ NDelivered <= t /\ t < NPushed
      /\ NPushed \in Nat /\ NDelivered \in Nat
      /\ NDelivered <= NPushed /\ NPushed - NDelivered < Modulus
      /\ Modulus \in Nat \ {0}
  BY LiveTicketFacts, RingFacts, ModulusPositive, ModulusAssumption, CapacityAssumption
<1>2. r = NDelivered % Modulus /\ w = NPushed % Modulus
  BY RingFacts
<1>3. r \in 0 .. (Modulus - 1) /\ w \in 0 .. (Modulus - 1) /\ r <= w
  BY LatestInRange
<1> HIDE DEF r, w
<1>4. Minus(w, r) = NPushed - NDelivered
  <2>1. Minus(NPushed % Modulus, NDelivered % Modulus) = NPushed - NDelivered
    BY <1>1, MinusTrue
  <2> QED
    BY <1>2, <2>1
<1>5. w - r = NPushed - NDelivered
  <2>1. w - r + Modulus = Modulus * 1 + (w - r) /\ w - r \in 0 .. (Modulus - 1)
    BY <1>1, <1>3
  <2>2. (w - r + Modulus) % Modulus = w - r
    BY <1>1, <2>1, ModUnique
  <2> QED
    BY <1>4, <2>2 DEF Minus
<1>6. i \in r .. (w - 1) /\ i \in 0 .. (Modulus - 1)
  BY <1>1, <1>3, <1>5
<1>7. t % Modulus = i
  <2>1. q \in Nat /\ NDelivered = Modulus * q + r
    BY <1>1, <1>2
  <2> HIDE DEF q
  <2>2. t = Modulus * q + i
    BY <1>1, <1>3, <2>1
  <2> QED
    BY <1>1, <1>6, <2>1, <2>2, ModUnique
<1>8. SlotOf(i) = s
  <2>1. (t % Modulus) % Capacity = t % Capacity
    BY <1>1, ModMod, ModulusPositive, ModulusAssumption
  <2> QED
    BY <1>7, <2>1 DEF SlotOf
<1> QED
  BY <1>6, <1>8 DEF LeftOver, r, w

\* When they have wrapped, the loop visits nothing and the oldest item that was
\* not handed out is still in its slot.
LEMMA WrappedLeavesOldest ==
  ASSUME IInv, alive, pushPc = "idle", popPc = "idle",
         ~(Latest(read_) <= Latest(write_))
  PROVE  /\ LeftOver(Latest(read_), Latest(write_)) = {}
         /\ \E s \in Slot : data_[s] # Raw
<1>1. /\ NPushed \in Nat /\ NDelivered \in Nat /\ NDelivered <= NPushed
      /\ Latest(read_) = NDelivered % Modulus
      /\ Latest(write_) = NPushed % Modulus
      /\ Latest(read_) \in Int /\ Latest(write_) \in Int
  BY RingFacts, LatestInRange
<1>2. NDelivered < NPushed
  BY <1>1
<1>3. NDelivered \in LiveTicket
  BY <1>1, <1>2 DEF LiveTicket
<1>4. data_[NDelivered % Capacity] = pushed[NDelivered + 1]
  BY <1>1, <1>2, <1>3 DEF IInv, RingInv, DataInv, ItemOf
<1>5. pushed[NDelivered + 1] \in Item
  BY <1>1, <1>2 DEF IInv, TypeOK, NPushed
<1>6. NDelivered % Capacity \in Slot
  BY <1>1, CapacityAssumption DEF Slot
<1>7. LeftOver(Latest(read_), Latest(write_)) = {}
  BY <1>1 DEF LeftOver
<1> QED
  BY <1>4, <1>5, <1>6, <1>7, RawAssumption

\* The destructor leaves no live object behind exactly when read_ is not above
\* write_, for every capacity and whatever the threads left in the ring; in the
\* other case, when write_ has wrapped and read_ has not, it leaves objects.
THEOREM DestructorIsExact == Spec => []DestroysUnlessWrapped
<1>1. Init => DestroysUnlessWrapped
  BY DEF Init, DestroysUnlessWrapped
<1>2. IInv /\ DestroysUnlessWrapped /\ [Next]_vars => DestroysUnlessWrapped'
  <2> SUFFICES ASSUME IInv, DestroysUnlessWrapped, [Next]_vars, ~alive'
               PROVE  NothingLeft' <=> Latest(read_)' <= Latest(write_)'
    BY DEF DestroysUnlessWrapped
  <2>1. CASE alive
    <3>1. Destroy
      BY <2>1 DEF Next, Push, Pop, PushCall, PushLoadRead, PushConstruct, PushPublish,
                  PopCall, PopLoadWrite, PopMove, PopDestroy, PopRelease, Empty, vars
    <3>2. /\ pushPc = "idle" /\ popPc = "idle"
          /\ Latest(read_)' = Latest(read_) /\ Latest(write_)' = Latest(write_)
      BY <3>1 DEF Destroy, Latest
    <3> DEFINE left == {SlotOf(i) : i \in LeftOver(Latest(read_), Latest(write_))}
    <3>3. data_' = [s \in Slot |-> IF s \in left THEN Raw ELSE data_[s]]
      BY <3>1 DEF Destroy
    <3>4. ASSUME Latest(read_) <= Latest(write_), NEW s \in Slot
          PROVE  (data_')[s] = Raw
      <4>1. data_[s] # Raw =>
              \E i \in LeftOver(Latest(read_), Latest(write_)) : SlotOf(i) = s
        BY <2>1, <3>2, <3>4, LeftOverIsAll
      <4> QED
        BY <3>3, <4>1
    <3>5. ASSUME ~(Latest(read_) <= Latest(write_))
          PROVE  \E s \in Slot : (data_')[s] # Raw
      <4>1. /\ LeftOver(Latest(read_), Latest(write_)) = {}
            /\ \E s \in Slot : data_[s] # Raw
        BY <2>1, <3>2, <3>5, WrappedLeavesOldest
      <4>2. left = {}
        BY <4>1
      <4> QED
        BY <3>3, <4>1, <4>2
    <3> QED
      BY <3>2, <3>4, <3>5 DEF NothingLeft, Slot
  <2>2. CASE ~alive
    <3>1. pushPc = "idle" /\ popPc = "idle"
      BY <2>2 DEF IInv, RingInv, DestroyedInv
    <3>2. UNCHANGED vars
      BY <2>2, <3>1 DEF Next, Push, Pop, PushCall, PushLoadRead, PushConstruct,
                  PushPublish, PopCall, PopLoadWrite, PopMove, PopDestroy, PopRelease,
                  Empty, Destroy
    <3> QED
      BY <2>2, <3>2 DEF DestroysUnlessWrapped, NothingLeft, Latest, vars
  <2> QED
    BY <2>1, <2>2
<1> QED
  BY <1>1, <1>2, RingInvariant, PTL DEF Spec

\* As long as fewer items are pushed than std::size_t has values, no counter
\* wraps: the destructor then leaves no live object behind, unconditionally.
THEOREM DestructorIsComplete ==
  ASSUME MaxPushes < Modulus
  PROVE  Spec => [](~alive => NothingLeft)
<1> DEFINE Bound == /\ NPushed <= MaxPushes
                    /\ pushPc # "idle" => NPushed < MaxPushes
<1>1. Init => Bound
  BY BoundAssumption DEF Init, NPushed
<1>2. IInv /\ Bound /\ [Next]_vars => Bound'
  <2> SUFFICES ASSUME IInv, Bound, [Next]_vars
               PROVE  Bound'
    OBVIOUS
  <2>1. pushed \in Seq(Item) /\ pushItem \in Item \cup {Raw} /\ NPushed \in Nat
    BY DEF IInv, TypeOK, NPushed
  <2>2. CASE PushPublish
    <3>1. pushItem \in Item
      BY <2>2 DEF PushPublish, IInv, RingInv, PushInv
    <3>2. NPushed' = NPushed + 1 /\ pushPc' = "idle" /\ pushPc # "idle"
      BY <2>1, <2>2, <3>1 DEF PushPublish, NPushed
    <3> QED
      BY <2>1, <3>2, BoundAssumption
  <2>3. CASE \E v \in Item : PushCall(v)
    BY <2>1, <2>3, BoundAssumption DEF PushCall, NPushed
  <2>4. CASE UNCHANGED pushed /\ (pushPc' \in {pushPc, "idle"} \/ pushPc # "idle")
    BY <2>4 DEF NPushed
  <2> QED
    BY <2>2, <2>3, <2>4
       DEF Next, Push, Pop, PushLoadRead, PushConstruct, PopCall, PopLoadWrite,
           PopMove, PopDestroy, PopRelease, Empty, Destroy, vars, pushVars
<1>3. IInv /\ Bound /\ DestroysUnlessWrapped => (~alive => NothingLeft)
  <2> SUFFICES ASSUME IInv, Bound, DestroysUnlessWrapped, ~alive
               PROVE  NothingLeft
    OBVIOUS
  <2>1. /\ NPushed \in Nat /\ NDelivered \in Nat /\ NDelivered <= NPushed
        /\ NPushed < Modulus /\ Modulus \in Nat \ {0}
    BY RingFacts, ModulusPositive, ModulusAssumption, BoundAssumption
  <2>2. NDelivered % Modulus = NDelivered /\ NPushed % Modulus = NPushed
    BY <2>1
  <2>3. Latest(read_) = NDelivered % Modulus /\ Latest(write_) = NPushed % Modulus
    BY RingFacts
  <2> QED
    BY <2>1, <2>2, <2>3 DEF DestroysUnlessWrapped
<1> QED
  BY <1>1, <1>2, <1>3, RingInvariant, DestructorIsExact, PTL DEF Spec
=============================================================================
