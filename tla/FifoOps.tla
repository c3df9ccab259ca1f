------------------------------ MODULE FifoOps ------------------------------
(***************************************************************************)
(* The queue of details/circular_q.h as a value: a FIFO of at most cap     *)
(* items whose push, when there is no room, drops the oldest item and      *)
(* counts the loss.  A default-constructed or moved-from queue is          *)
(* disabled: it ignores pushes and is never full.                          *)
(*                                                                         *)
(* CircularQ shows that the ring behaves so; the modules of the components *)
(* that own a circular_q use these operators.                              *)
(***************************************************************************)
EXTENDS Integers, Sequences

DisabledCap == -1

DisabledFifo == [cap |-> DisabledCap, items |-> <<>>, overruns |-> 0]

NewFifo(cap) == [cap |-> cap, items |-> <<>>, overruns |-> 0]

(* Room for one more item: the negation of full().                         *)
HasRoom(items, cap) == Len(items) < cap

(* A push that drops nothing.                                              *)
PushItems_unbounded(items, cap, item) == Append(items, item)

(* The items after a push.  Without room the oldest of the old items goes, *)
(* or, in a queue of capacity 0, the new item itself.                      *)
PushItems(items, cap, item) ==
    IF HasRoom(items, cap) THEN Append(items, item)
                           ELSE Tail(Append(items, item))

(* How many items a push loses.                                            *)
PushLoses(items, cap) == IF HasRoom(items, cap) THEN 0 ELSE 1

Pushed(f, item) ==
    IF f.cap = DisabledCap
    THEN f
    ELSE [cap      |-> f.cap,
          items    |-> PushItems(f.items, f.cap, item),
          overruns |-> f.overruns + PushLoses(f.items, f.cap)]
=============================================================================
