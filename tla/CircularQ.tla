----------------------------- MODULE CircularQ -----------------------------
(***************************************************************************)
(* details/circular_q.h: the ring buffer under the asynchronous queue, the *)
(* backtracer and the ringbuffer sink.  v holds max_items slots, one more  *)
(* than the capacity asked for: the slot at tail is never part of the      *)
(* contents, so that head = tail means empty and never full.               *)
(*                                                                         *)
(* Each member of Objects is one circular_q; they are assigned, copied and *)
(* moved between one another the way backtracer and ringbuffer_sink do.    *)
(***************************************************************************)
EXTENDS Integers, Sequences

CONSTANTS Objects,      \* the circular_q objects
          Items,        \* the values pushed
          NoItem,       \* a default-constructed value, in slots never written
          Capacities,   \* arguments given to the constructor
          MaxOverrun    \* bound: overrun_counter_ is a size_t that only grows

ASSUME CapacitiesAssumption == Capacities \subseteq Nat
ASSUME MaxOverrunAssumption == MaxOverrun \in Nat
ASSUME NoItemAssumption == NoItem \notin Items

VARIABLE obj            \* obj[o]: the members of circular_q object o

-----------------------------------------------------------------------------
Slot == Items \cup {NoItem}

(* circular_q() = default: a queue with no slots at all.                   *)
Disabled == [max_items |-> 0, head |-> 0, tail |-> 0,
             overrun_counter |-> 0, v |-> [i \in {} |-> NoItem]]

construct(max_items) ==
    [max_items |-> max_items + 1, head |-> 0, tail |-> 0,
     overrun_counter |-> 0, v |-> [i \in 0 .. max_items |-> NoItem]]

next_index(c, i) == (i + 1) % c.max_items

(* push_back that drops the oldest item without counting it.               *)
push_back_uncounted(c, item) ==
    IF c.max_items = 0 THEN c
    ELSE LET tail == next_index(c, c.tail)
         IN  [max_items       |-> c.max_items,
              head            |-> IF tail = c.head THEN next_index(c, c.head) ELSE c.head,
              tail            |-> tail,
              overrun_counter |-> c.overrun_counter,
              v               |-> [c.v EXCEPT ![c.tail] = item]]

(* push_back that advances tail_ before it stores the item.                *)
push_back_stores_late(c, item) ==
    IF c.max_items = 0 THEN c
    ELSE LET tail    == next_index(c, c.tail)
             overrun == tail = c.head
         IN  [max_items       |-> c.max_items,
              head            |-> IF overrun THEN next_index(c, c.head) ELSE c.head,
              tail            |-> tail,
              overrun_counter |-> c.overrun_counter + (IF overrun THEN 1 ELSE 0),
              v               |-> [c.v EXCEPT ![tail] = item]]

push_back(c, item) ==
    IF c.max_items = 0 THEN c
    ELSE LET tail    == next_index(c, c.tail)
             overrun == tail = c.head
         IN  [max_items       |-> c.max_items,
              head            |-> IF overrun THEN next_index(c, c.head) ELSE c.head,
              tail            |-> tail,
              overrun_counter |-> c.overrun_counter + (IF overrun THEN 1 ELSE 0),
              v               |-> [c.v EXCEPT ![c.tail] = item]]

(* size() that forgets the wrapped-around case.                            *)
size_unwrapped(c) == IF c.tail >= c.head THEN c.tail - c.head ELSE c.head - c.tail

size(c) == IF c.tail >= c.head THEN c.tail - c.head
                               ELSE c.max_items - (c.head - c.tail)

at(c, i) == c.v[(c.head + i) % c.max_items]

front(c) == c.v[c.head]

empty(c) == c.tail = c.head

full(c) == c.max_items > 0 /\ next_index(c, c.tail) = c.head

pop_front(c) == [max_items       |-> c.max_items,
                 head            |-> next_index(c, c.head),
                 tail            |-> c.tail,
                 overrun_counter |-> c.overrun_counter,
                 v               |-> c.v]

reset_overrun_counter(c) == [max_items       |-> c.max_items,
                             head            |-> c.head,
                             tail            |-> c.tail,
                             overrun_counter |-> 0,
                             v               |-> c.v]

-----------------------------------------------------------------------------
RingInit == obj = [o \in Objects |-> Disabled]

PushBack(o, item) ==
    /\ push_back(obj[o], item).overrun_counter <= MaxOverrun
    /\ obj' = [obj EXCEPT ![o] = push_back(obj[o], item)]

(* Popping an empty queue is undefined behaviour: every caller tests       *)
(* empty() first.                                                          *)
PopFront(o) == /\ ~empty(obj[o])
               /\ obj' = [obj EXCEPT ![o] = pop_front(obj[o])]

ResetOverrunCounter(o) ==
    obj' = [obj EXCEPT ![o] = reset_overrun_counter(obj[o])]

(* o = circular_q(max_items), as backtracer::enable does.                  *)
Assign(o, max_items) == obj' = [obj EXCEPT ![o] = construct(max_items)]

(* o = p, the defaulted copy assignment.                                   *)
CopyAssign(o, p) == obj' = [obj EXCEPT ![o] = obj[p]]

(* o = std::move(p): p is left disabled, its vector moved away.            *)
copy_moveable(o, p) == /\ o # p
                       /\ obj' = [obj EXCEPT ![o] = obj[p], ![p] = Disabled]

RingNext ==
    \/ \E o \in Objects, item \in Items : PushBack(o, item)
    \/ \E o \in Objects : PopFront(o)
    \/ \E o \in Objects : ResetOverrunCounter(o)
    \/ \E o \in Objects, max_items \in Capacities : Assign(o, max_items)
    \/ \E o, p \in Objects : CopyAssign(o, p)
    \/ \E o, p \in Objects : copy_moveable(o, p)

RingSpec == RingInit /\ [][RingNext]_obj

-----------------------------------------------------------------------------
(* A ring: the slots of the vector and two indices inside it.  A disabled  *)
(* queue has no slots and both indices at 0.                               *)
Ring(c) ==
    /\ c = [max_items |-> c.max_items, head |-> c.head, tail |-> c.tail,
            overrun_counter |-> c.overrun_counter, v |-> c.v]
    /\ c.max_items \in Nat
    /\ c.overrun_counter \in Nat
    /\ c.v \in [0 .. c.max_items - 1 -> Slot]
    /\ IF c.max_items = 0 THEN c.head = 0 /\ c.tail = 0
       ELSE c.head \in 0 .. c.max_items - 1 /\ c.tail \in 0 .. c.max_items - 1

(* Type invariant: every index the code uses to reach a slot is inside the *)
(* vector, whatever was pushed, popped, copied or moved.                   *)
TypeOK == /\ obj = [o \in Objects |-> obj[o]]
          /\ \A o \in Objects : Ring(obj[o])

(* What the accessors show of a ring: item i of the queue is at(i - 1).    *)
contents(c) == [i \in 1 .. size(c) |-> at(c, i - 1)]

(* Every slot an accessor can reach was written by a push: at() and        *)
(* front() never show the default-constructed value of an unused slot.     *)
NoUnwrittenSlotVisible ==
    \A o \in Objects : \A i \in 1 .. size(obj[o]) : contents(obj[o])[i] \in Items

(* The three ways the code asks how many items there are agree with one    *)
(* another: empty() is size() = 0, and full() is size() = the capacity     *)
(* given to the constructor.  mpmc_blocking_queue blocks on full() and     *)
(* empty() while ringbuffer_sink and backtracer iterate up to size().      *)
SizeEmptyFullAgree ==
    \A o \in Objects :
        LET c == obj[o]
        IN  /\ size(c) >= 0
            /\ empty(c) <=> size(c) = 0
            /\ c.max_items > 0 => /\ size(c) <= c.max_items - 1
                                  /\ full(c) <=> size(c) = c.max_items - 1
            /\ c.max_items = 0 => ~full(c)

(* The bounded FIFO a ring stands for.                                     *)
Abstract(c) == [cap      |-> c.max_items - 1,
                items    |-> contents(c),
                overruns |-> c.overrun_counter]

Fifo == INSTANCE BoundedFifo WITH fifo <- [o \in Objects |-> Abstract(obj[o])]

(* The ring implements the bounded FIFO with overrun: contents in arrival  *)
(* order, a push without room drops exactly the oldest item and counts it, *)
(* a moved-from queue is disabled.                                         *)
ImplementsFifo == Fifo!FifoSpec
=============================================================================
