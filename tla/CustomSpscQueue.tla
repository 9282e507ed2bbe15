-------------------------- MODULE CustomSpscQueue ---------------------------
(***************************************************************************)
(* The lock-free ring of src/src/utils/CustomSpscQueue.h, one action per   *)
(* access to shared memory, with one producer thread (push, empty) and one *)
(* consumer thread (pop), which may run in any interleaving.               *)
(*                                                                         *)
(* Memory model.  read_ and write_ are std::atomic.  Each is represented   *)
(* by its modification order: the sequence of all values ever stored,      *)
(* starting with the initial 0.  A thread reads its own counter exactly    *)
(* (it is the only writer), but an acquire load of the other thread's      *)
(* counter may return any value that is not older than the one it has read *)
(* before: pushView and popView are these coherence bounds, as positions   *)
(* in the modification order.  An acquire load of a value happens after    *)
(* everything before the release store of it, so the plain accesses to     *)
(* data_ made before that store have their effect.                         *)
(*                                                                         *)
(* The counters have the width of std::size_t: they, and the difference    *)
(* w - r, are computed modulo Modulus (2^64 in the program).               *)
(***************************************************************************)
EXTENDS Integers, Sequences

CONSTANTS
  Capacity,    \* the template argument Capacity (RealCapacity)
  Modulus,     \* number of values of std::size_t
  Item,        \* the values of the element type T
  Raw,         \* marks a slot of data_ that holds no live object
  MaxPushes    \* bound: the client pushes until this many were accepted

ASSUME CapacityAssumption == Capacity \in Nat \ {0}

\* Every capacity main.cpp instantiates is a power of two below 2^64.
ASSUME ModulusAssumption == /\ Modulus \in Nat
                            /\ Capacity < Modulus
                            /\ Modulus % Capacity = 0

ASSUME RawAssumption == Raw \notin Item

ASSUME BoundAssumption == MaxPushes \in Nat

VARIABLES
  read_, write_,   \* modification orders of the two atomic counters
  data_,           \* the allocated slots
  alive,           \* the queue object has not been destroyed
  pushPc, pushW, pushItem, pushView,  \* producer: place in push, w, item, bound
  popPc, popR, popItem, popView,      \* consumer: place in pop, r, item, bound
  emptyRet,        \* empty() returned true and nothing was pushed since
  pushed,          \* items for which push returned true, in order
  delivered        \* items handed out by a pop that returned true, in order

pushVars == <<pushPc, pushW, pushItem, pushView>>
popVars  == <<popPc, popR, popItem, popView>>
vars     == <<read_, write_, data_, alive, pushVars, popVars, emptyRet,
              pushed, delivered>>

Slot == 0 .. (Capacity - 1)

\* The value a thread sees in the counter that only it writes.
Latest(atomic) == atomic[Len(atomic)]

\* The difference of two std::size_t values.
Minus(a, b) == (a - b + Modulus) % Modulus

\* The slot of a counter value: data_ + (w % RealCapacity).
SlotOf(counter) == counter % Capacity

-----------------------------------------------------------------------------
(* Faults a change to the header could introduce.  No action uses them; they *)
(* are what the properties below are tested against.                         *)

FullOneLate(w, r) == Minus(w, r) = Capacity + 1

NeverEmpty(r, w) == FALSE

LastIsEmpty(r, w) == Minus(w, r) <= 1

\* read_ is released before the item is moved out and destroyed.
ReleaseFirst ==
  /\ popPc = "move"
  /\ read_' = Append(read_, (popR + 1) % Modulus)
  /\ popItem' = data_[popR % Capacity]
  /\ popPc' = "destroy"
  /\ UNCHANGED <<write_, data_, alive, pushVars, popR, popView, emptyRet,
                 pushed, delivered>>

SkipOldest(r, w) == (r + 1) .. (w - 1)

\* The slots are compared instead of the counters: a full ring looks empty.
SameSlot(r, w) == SlotOf(r) = SlotOf(w)

-----------------------------------------------------------------------------
\* The test w - r == RealCapacity of push.
Full(w, r) == Minus(w, r) = Capacity

\* The test r == w of pop.
NothingToPop(r, w) == r = w

\* The comparison of empty().
CountersEqual(r, w) == r = w

\* The counter values the loop of the destructor visits.
LeftOver(r, w) == r .. (w - 1)

-----------------------------------------------------------------------------
Init ==
  /\ read_ = <<0>>
  /\ write_ = <<0>>
  /\ data_ = [s \in Slot |-> Raw]
  /\ alive = TRUE
  /\ pushPc = "idle" /\ pushW = 0 /\ pushItem = Raw /\ pushView = 1
  /\ popPc = "idle" /\ popR = 0 /\ popItem = Raw /\ popView = 1
  /\ emptyRet = FALSE
  /\ pushed = << >>
  /\ delivered = << >>

-----------------------------------------------------------------------------
(* push, on the producer thread *)

\* The call, and the relaxed load of the producer's own counter.
PushCall(v) ==
  /\ alive
  /\ pushPc = "idle"
  /\ Len(pushed) < MaxPushes
  /\ pushPc' = "load"
  /\ pushW' = Latest(write_)
  /\ pushItem' = v
  /\ emptyRet' = FALSE
  /\ UNCHANGED <<read_, write_, data_, alive, pushView, popVars, pushed, delivered>>

\* The acquire load of read_ and the test for a full ring: push returns false
\* or goes on.
PushLoadRead ==
  /\ pushPc = "load"
  /\ \E i \in pushView .. Len(read_) :
       /\ pushView' = i
       /\ pushPc' = IF Full(pushW, read_[i]) THEN "idle" ELSE "construct"
  /\ UNCHANGED <<read_, write_, data_, alive, pushW, pushItem, popVars, emptyRet,
                 pushed, delivered>>

\* std::construct_at(data_ + (w % RealCapacity), item)
PushConstruct ==
  /\ pushPc = "construct"
  /\ data_' = [data_ EXCEPT ![SlotOf(pushW)] = pushItem]
  /\ pushPc' = "publish"
  /\ UNCHANGED <<read_, write_, alive, pushW, pushItem, pushView, popVars, emptyRet,
                 pushed, delivered>>

\* write_.store(w + 1, release); push returns true.
PushPublish ==
  /\ pushPc = "publish"
  /\ write_' = Append(write_, (pushW + 1) % Modulus)
  /\ pushed' = Append(pushed, pushItem)
  /\ pushPc' = "idle"
  /\ UNCHANGED <<read_, data_, alive, pushW, pushItem, pushView, popVars, emptyRet,
                 delivered>>

-----------------------------------------------------------------------------
(* pop, on the consumer thread *)

\* The call, and the relaxed load of the consumer's own counter.
PopCall ==
  /\ alive
  /\ popPc = "idle"
  /\ popPc' = "load"
  /\ popR' = Latest(read_)
  /\ UNCHANGED <<read_, write_, data_, alive, pushVars, popItem, popView, emptyRet,
                 pushed, delivered>>

\* The acquire load of write_ and the test for an empty ring.
PopLoadWrite ==
  /\ popPc = "load"
  /\ \E i \in popView .. Len(write_) :
       /\ popView' = i
       /\ popPc' = IF NothingToPop(popR, write_[i]) THEN "idle" ELSE "move"
  /\ UNCHANGED <<read_, write_, data_, alive, pushVars, popR, popItem, emptyRet,
                 pushed, delivered>>

\* item = std::move(data_[idx])
PopMove ==
  /\ popPc = "move"
  /\ popItem' = data_[SlotOf(popR)]
  /\ popPc' = "destroy"
  /\ UNCHANGED <<read_, write_, data_, alive, pushVars, popR, popView, emptyRet,
                 pushed, delivered>>

\* std::destroy_at(data_ + idx)
PopDestroy ==
  /\ popPc = "destroy"
  /\ data_' = [data_ EXCEPT ![SlotOf(popR)] = Raw]
  /\ popPc' = "release"
  /\ UNCHANGED <<read_, write_, alive, pushVars, popR, popItem, popView, emptyRet,
                 pushed, delivered>>

\* read_.store(r + 1, release); pop returns true.
PopRelease ==
  /\ popPc = "release"
  /\ read_' = Append(read_, (popR + 1) % Modulus)
  /\ delivered' = Append(delivered, popItem)
  /\ popPc' = "idle"
  /\ UNCHANGED <<write_, data_, alive, pushVars, popR, popItem, popView, emptyRet,
                 pushed>>

-----------------------------------------------------------------------------
\* empty(), called by the thread that pushes (as the tests do): its own
\* counter is exact, the other one may be an older value.
Empty ==
  /\ alive
  /\ pushPc = "idle"
  /\ \E i \in pushView .. Len(read_) :
       /\ pushView' = i
       /\ emptyRet' = CountersEqual(read_[i], Latest(write_))
  /\ UNCHANGED <<read_, write_, data_, alive, pushPc, pushW, pushItem, popVars,
                 pushed, delivered>>

\* ~CustomSpscQueue, after both threads have been joined: destroys the slots
\* of the counter values r, r+1, ... below w.
Destroy ==
  /\ alive
  /\ pushPc = "idle" /\ popPc = "idle"
  /\ LET left == {SlotOf(i) : i \in LeftOver(Latest(read_), Latest(write_))}
     IN  data_' = [s \in Slot |-> IF s \in left THEN Raw ELSE data_[s]]
  /\ alive' = FALSE
  /\ UNCHANGED <<read_, write_, pushVars, popVars, emptyRet, pushed, delivered>>

-----------------------------------------------------------------------------
Push == \/ \E v \in Item : PushCall(v)
        \/ PushLoadRead \/ PushConstruct \/ PushPublish

Pop == PopCall \/ PopLoadWrite \/ PopMove \/ PopDestroy \/ PopRelease

Next == Push \/ Pop \/ Empty \/ Destroy

Spec == Init /\ [][Next]_vars

-----------------------------------------------------------------------------
(* Properties *)

\* The counters stay values of std::size_t, the slots hold items or nothing, and
\* a view is a position of the other thread's counter.
TypeOK ==
  /\ read_ \in Seq(0 .. (Modulus - 1)) /\ read_ # << >>
  /\ write_ \in Seq(0 .. (Modulus - 1)) /\ write_ # << >>
  /\ data_ \in [Slot -> Item \cup {Raw}]
  /\ alive \in BOOLEAN
  /\ pushPc \in {"idle", "load", "construct", "publish"}
  /\ pushW \in 0 .. (Modulus - 1)
  /\ pushItem \in Item \cup {Raw}
  /\ pushView \in 1 .. Len(read_)
  /\ popPc \in {"idle", "load", "move", "destroy", "release"}
  /\ popR \in 0 .. (Modulus - 1)
  /\ popItem \in Item \cup {Raw}
  /\ popView \in 1 .. Len(write_)
  /\ emptyRet \in BOOLEAN
  /\ pushed \in Seq(Item)
  /\ delivered \in Seq(Item)

\* The k-th pop that returns true hands out the item of the k-th push that
\* returned true, however the two calls interleave and however old the counter
\* values are that the threads see: no item is lost, repeated, reordered or
\* torn by a slot being reused too early.
FifoOrder ==
  /\ Len(delivered) <= Len(pushed)
  /\ \A k \in 1 .. Len(delivered) : delivered[k] = pushed[k]

\* push constructs only into a slot that holds no object, and pop moves from
\* and destroys only a slot that holds one.  In particular the two threads
\* never access a slot at the same time (a data race on data_), and no live
\* object is overwritten without its destructor having run.
SlotOwnership ==
  /\ pushPc = "construct" => data_[pushW % Capacity] = Raw
  /\ popPc \in {"move", "destroy"} => data_[popR % Capacity] # Raw

\* Once empty() has returned true to the pushing thread, every item pushed
\* before has been handed out, although the read_ it compared with may be old.
EmptyMeansDrained == emptyRet => Len(delivered) = Len(pushed)

NothingLeft == \A s \in Slot : data_[s] = Raw

\* What the destructor leaves: no live object, whatever the threads left in the
\* ring, if and only if read_ is not above write_.  When write_ has wrapped
\* around and read_ has not, the loop on r < w does nothing and the items in
\* the ring are never destroyed.
DestroysUnlessWrapped ==
  ~alive => (NothingLeft <=> Latest(read_) <= Latest(write_))

\* The ring implements the queue of SpscFifo.
Fifo == INSTANCE SpscFifo
ImplementsFifo == Fifo!FifoSpec

-----------------------------------------------------------------------------
(* The inductive invariant.  A ticket is the number of an item in pushed,    *)
(* counted from 0; counters are tickets modulo Modulus.                      *)

NPushed    == Len(pushed)
NDelivered == Len(delivered)

\* Every value of a modification order is its position, modulo Modulus.
CountersInv ==
  /\ Len(write_) = NPushed + 1
  /\ Len(read_) = NDelivered + 1
  /\ \A i \in 1 .. Len(write_) : write_[i] = (i - 1) % Modulus
  /\ \A i \in 1 .. Len(read_) : read_[i] = (i - 1) % Modulus

\* What a thread knows of the other's counter is never too old to be safe.
ViewsInv ==
  /\ NPushed - (pushView - 1) <= Capacity
  /\ NDelivered <= popView - 1

PushInv ==
  /\ pushPc # "idle" => /\ pushW = NPushed % Modulus
                        /\ pushItem \in Item
  /\ pushPc \in {"construct", "publish"} => NPushed - (pushView - 1) < Capacity

PopInv ==
  /\ popPc # "idle" => popR = NDelivered % Modulus
  /\ popPc \in {"move", "destroy", "release"} => NDelivered < popView - 1
  /\ popPc \in {"destroy", "release"} => popItem = pushed[NDelivered + 1]

\* The tickets whose item is in data_: accepted and not destroyed, or
\* constructed and about to be published.
LiveTicket ==
  {t \in NDelivered .. NPushed :
     /\ t = NPushed => pushPc = "publish"
     /\ t = NDelivered => popPc # "release"}

ItemOf(t) == IF t = NPushed THEN pushItem ELSE pushed[t + 1]

DataInv ==
  alive => /\ \A t \in LiveTicket : data_[t % Capacity] = ItemOf(t)
           /\ \A s \in Slot :
                data_[s] # Raw => \E t \in LiveTicket : t % Capacity = s

DestroyedInv == ~alive => pushPc = "idle" /\ popPc = "idle"

EmptyInv == emptyRet => pushPc = "idle" /\ NDelivered = NPushed

\* The strengthening of FifoOrder, SlotOwnership and EmptyMeansDrained that every step of push
\* and pop preserves: where each accepted item lies in data_, and how old a
\* counter value a thread may still act upon.
RingInv == /\ CountersInv /\ ViewsInv /\ PushInv /\ PopInv /\ DataInv
           /\ DestroyedInv /\ EmptyInv /\ FifoOrder
=============================================================================
