----------------------------- MODULE MpmcQueue -----------------------------
(***************************************************************************)
(* details/mpmc_blocking_q.h: the queue between the logging threads and    *)
(* the workers of the thread pool.                                         *)
(*                                                                         *)
(* A step of a thread is one critical section of queue_mutex_, one         *)
(* notify_one or one atomic increment: everything the code does while it   *)
(* holds the mutex is one step, what it does after the unlock is another.  *)
(* condition_variable::wait(lock, pred) is: test pred under the mutex, and *)
(* release the mutex and sleep in one step; a sleeper leaves the wait set  *)
(* by a notify_one, spuriously, or (wait_for) by its timeout, and then has *)
(* to enter the critical section and test pred again.                      *)
(***************************************************************************)
EXTENDS FifoOps, FiniteSets

CONSTANTS Producers,    \* threads that enqueue
          Consumers,    \* threads that dequeue
          Capacity,     \* q_max_items
          MaxCalls      \* bound: enqueue calls made in a behaviour

ASSUME ThreadsAssumption == /\ IsFiniteSet(Producers)
                            /\ IsFiniteSet(Consumers)
                            /\ Producers \cap Consumers = {}
ASSUME CapacityAssumption == Capacity \in Nat
ASSUME MaxCallsAssumption == MaxCalls \in Nat

VARIABLES
    q,                  \* q_, oldest message first
    overrun_counter,    \* q_.overrun_counter_
    discard_counter,    \* discard_counter_, atomic, outside the mutex
    pc,                 \* where each thread is
    item,               \* the message a producer is enqueueing
    \* history
    calls,              \* enqueue calls so far: message m is the m-th
    taken,              \* messages handed to a consumer
    lost,               \* messages overrun
    dropped,            \* messages refused by enqueue_if_have_room
    cleared             \* what the counters showed when they were reset

vars == <<q, overrun_counter, discard_counter, pc, item,
          calls, taken, lost, dropped, cleared>>

Threads == Producers \cup Consumers

EnqueueOps == {"enqueue", "enqueue_nowait", "enqueue_if_have_room"}

ProducerPcs == EnqueueOps \cup {"idle", "wait_pop_cv", "notify_push", "discard"}

ConsumerPcs == {"idle", "dequeue", "wait_push_cv", "dequeue_for",
                "wait_push_cv_for", "timed_out", "notify_pop"}

Goto(t, where) == pc' = [pc EXCEPT ![t] = where]

At(threads, where) == {t \in threads : pc[t] = where}

(* The wait sets of the two condition variables.                           *)
PushCvWaiters == At(Consumers, "wait_push_cv") \cup At(Consumers, "wait_push_cv_for")

PopCvWaiters == At(Producers, "wait_pop_cv")

(* A woken sleeper goes back to testing its predicate under the mutex.     *)
AfterWakeup(where) == CASE where = "wait_pop_cv"      -> "enqueue"
                        [] where = "wait_push_cv"     -> "dequeue"
                        [] where = "wait_push_cv_for" -> "dequeue_for"

-----------------------------------------------------------------------------
Init == /\ q = <<>>
        /\ overrun_counter = 0
        /\ discard_counter = 0
        /\ pc = [t \in Threads |-> "idle"]
        /\ item = [p \in Producers |-> 0]
        /\ calls = 0
        /\ taken = {}
        /\ lost = {}
        /\ dropped = {}
        /\ cleared = [overrun |-> 0, discard |-> 0]

CallEnqueue(p, op) ==
    /\ pc[p] = "idle"
    /\ calls < MaxCalls
    /\ calls' = calls + 1
    /\ item' = [item EXCEPT ![p] = calls + 1]
    /\ Goto(p, op)
    /\ UNCHANGED <<q, overrun_counter, discard_counter, taken, lost, dropped, cleared>>

(* q_.push_back(std::move(item)) by producer p, with the mutex held.       *)
PushBack(p) ==
    /\ q' = PushItems(q, Capacity, item[p])
    /\ overrun_counter' = overrun_counter + PushLoses(q, Capacity)
    /\ lost' = IF HasRoom(q, Capacity) THEN lost
                                       ELSE lost \cup {Head(Append(q, item[p]))}

(* enqueue: push when pop_cv_.wait finds room.                             *)
enqueue(p) ==
    /\ pc[p] = "enqueue"
    /\ HasRoom(q, Capacity)
    /\ PushBack(p)
    /\ Goto(p, "notify_push")
    /\ UNCHANGED <<discard_counter, item, calls, taken, dropped, cleared>>

(* enqueue: release the mutex and sleep in pop_cv_ when the queue is full. *)
enqueue_wait(p) ==
    /\ pc[p] = "enqueue"
    /\ ~HasRoom(q, Capacity)
    /\ Goto(p, "wait_pop_cv")
    /\ UNCHANGED <<q, overrun_counter, discard_counter, item,
                   calls, taken, lost, dropped, cleared>>

enqueue_nowait(p) ==
    /\ pc[p] = "enqueue_nowait"
    /\ PushBack(p)
    /\ Goto(p, "notify_push")
    /\ UNCHANGED <<discard_counter, item, calls, taken, dropped, cleared>>

enqueue_if_have_room(p) ==
    /\ pc[p] = "enqueue_if_have_room"
    /\ IF HasRoom(q, Capacity)
       THEN /\ PushBack(p)
            /\ Goto(p, "notify_push")
            /\ UNCHANGED dropped
       ELSE /\ dropped' = dropped \cup {item[p]}
            /\ Goto(p, "discard")
            /\ UNCHANGED <<q, overrun_counter, lost>>
    /\ UNCHANGED <<discard_counter, item, calls, taken, cleared>>

(* ++discard_counter_ forgotten.                                           *)
count_discard_forgotten(p) ==
    /\ pc[p] = "discard"
    /\ Goto(p, "idle")
    /\ UNCHANGED <<q, overrun_counter, discard_counter, item,
                   calls, taken, lost, dropped, cleared>>

(* ++discard_counter_, after the mutex was released.                       *)
count_discard(p) ==
    /\ pc[p] = "discard"
    /\ discard_counter' = discard_counter + 1
    /\ Goto(p, "idle")
    /\ UNCHANGED <<q, overrun_counter, item, calls, taken, lost, dropped, cleared>>

(* A notify_one that reaches nobody.                                       *)
notify_nobody(t, where, waiters) ==
    /\ pc[t] = where
    /\ Goto(t, "idle")

(* cv.notify_one() wakes one sleeper, any of them; with none it is lost.   *)
notify_one(t, where, waiters) ==
    /\ pc[t] = where
    /\ \/ /\ waiters = {}
          /\ Goto(t, "idle")
       \/ \E w \in waiters :
             pc' = [pc EXCEPT ![t] = "idle", ![w] = AfterWakeup(pc[w])]

notify_push(p) ==
    /\ notify_one(p, "notify_push", PushCvWaiters)
    /\ UNCHANGED <<q, overrun_counter, discard_counter, item,
                   calls, taken, lost, dropped, cleared>>

-----------------------------------------------------------------------------
CallDequeue(c, op) ==
    /\ pc[c] = "idle"
    /\ Goto(c, op)
    /\ UNCHANGED <<q, overrun_counter, discard_counter, item,
                   calls, taken, lost, dropped, cleared>>

(* A pop that leaves the message at the front.                             *)
PopFront_keeps_message(c) ==
    /\ q # <<>>
    /\ taken' = taken \cup {Head(q)}
    /\ Goto(c, "notify_pop")
    /\ UNCHANGED <<q, overrun_counter, discard_counter, item,
                   calls, lost, dropped, cleared>>

(* A pop that notifies only when the queue was full: with two producers    *)
(* asleep the second pop wakes nobody.                                     *)
PopFront_notifies_if_full(c) ==
    /\ q # <<>>
    /\ taken' = taken \cup {Head(q)}
    /\ q' = Tail(q)
    /\ Goto(c, IF HasRoom(q, Capacity) THEN "idle" ELSE "notify_pop")
    /\ UNCHANGED <<overrun_counter, discard_counter, item,
                   calls, lost, dropped, cleared>>

(* popped_item = std::move(q_.front()); q_.pop_front(), mutex held.        *)
PopFront(c) ==
    /\ q # <<>>
    /\ taken' = taken \cup {Head(q)}
    /\ q' = Tail(q)
    /\ Goto(c, "notify_pop")
    /\ UNCHANGED <<overrun_counter, discard_counter, item,
                   calls, lost, dropped, cleared>>

dequeue(c) == pc[c] \in {"dequeue", "dequeue_for", "timed_out"} /\ PopFront(c)

(* Empty: sleep in push_cv_; a dequeue_for whose time is up gives up.      *)
dequeue_empty(c) ==
    /\ q = <<>>
    /\ \/ pc[c] = "dequeue"     /\ Goto(c, "wait_push_cv")
       \/ pc[c] = "dequeue_for" /\ Goto(c, "wait_push_cv_for")
       \/ pc[c] = "timed_out"   /\ Goto(c, "idle")
    /\ UNCHANGED <<q, overrun_counter, discard_counter, item,
                   calls, taken, lost, dropped, cleared>>

(* wait_for runs out of time: pred is tested once more under the mutex.    *)
timeout(c) ==
    /\ pc[c] = "wait_push_cv_for"
    /\ Goto(c, "timed_out")
    /\ UNCHANGED <<q, overrun_counter, discard_counter, item,
                   calls, taken, lost, dropped, cleared>>

notify_pop(c) ==
    /\ notify_one(c, "notify_pop", PopCvWaiters)
    /\ UNCHANGED <<q, overrun_counter, discard_counter, item,
                   calls, taken, lost, dropped, cleared>>

-----------------------------------------------------------------------------
(* The standard allows a wait to return without a notification.            *)
SpuriousWakeup(t) ==
    /\ t \in PushCvWaiters \cup PopCvWaiters
    /\ Goto(t, AfterWakeup(pc[t]))
    /\ UNCHANGED <<q, overrun_counter, discard_counter, item,
                   calls, taken, lost, dropped, cleared>>

reset_overrun_counter ==
    /\ overrun_counter' = 0
    /\ cleared' = [overrun |-> cleared.overrun + overrun_counter,
                   discard |-> cleared.discard]
    /\ UNCHANGED <<q, discard_counter, pc, item, calls, taken, lost, dropped>>

reset_discard_counter ==
    /\ discard_counter' = 0
    /\ cleared' = [overrun |-> cleared.overrun,
                   discard |-> cleared.discard + discard_counter]
    /\ UNCHANGED <<q, overrun_counter, pc, item, calls, taken, lost, dropped>>

ProducerStep(p) == \/ enqueue(p) \/ enqueue_wait(p) \/ enqueue_nowait(p)
                   \/ enqueue_if_have_room(p) \/ count_discard(p) \/ notify_push(p)

(* Everything a consumer does between two calls.                           *)
ConsumerStep(c) == dequeue(c) \/ dequeue_empty(c) \/ timeout(c) \/ notify_pop(c)

Next == \/ \E p \in Producers : \/ \E op \in EnqueueOps : CallEnqueue(p, op)
                                \/ ProducerStep(p)
        \/ \E c \in Consumers : \/ \E op \in {"dequeue", "dequeue_for"} : CallDequeue(c, op)
                                \/ ConsumerStep(c)
        \/ \E t \in Threads : SpuriousWakeup(t)
        \/ reset_overrun_counter
        \/ reset_discard_counter

Spec == Init /\ [][Next]_vars

(* The scheduler runs every thread that can take a step, a timer fires and *)
(* the consumers come back for more, as worker_loop_ does.  Nothing forces *)
(* a producer to call, a sleeper to wake spuriously or anyone to reset a   *)
(* counter.                                                                *)
Fairness ==
    /\ \A p \in Producers : WF_vars(ProducerStep(p))
    /\ \A c \in Consumers :
          WF_vars(ConsumerStep(c) \/ \E op \in {"dequeue", "dequeue_for"} : CallDequeue(c, op))

FairSpec == Spec /\ Fairness

-----------------------------------------------------------------------------
(* Type invariant.                                                         *)
TypeOK ==
    /\ q \in Seq(1 .. calls)
    /\ Len(q) <= Capacity
    /\ overrun_counter \in Nat
    /\ discard_counter \in Nat
    /\ pc \in [Threads -> ProducerPcs \cup ConsumerPcs]
    /\ \A p \in Producers : pc[p] \in ProducerPcs
    /\ \A c \in Consumers : pc[c] \in ConsumerPcs
    /\ item \in [Producers -> 0 .. calls]
    /\ \A p \in Producers : pc[p] # "idle" => item[p] # 0
    /\ calls \in Nat
    /\ taken \subseteq 1 .. calls
    /\ lost \subseteq 1 .. calls
    /\ dropped \subseteq 1 .. calls
    /\ cleared \in [overrun : Nat, discard : Nat]

(* Threads that will act on an item or on a free place without being woken:*)
(* they have still to call notify_one, or are about to test the queue.     *)
ItemPlaces == {"notify_push", "dequeue", "dequeue_for", "timed_out"}
RoomPlaces == {"notify_pop", "enqueue"}

HeadedForItems == {t \in Threads : pc[t] \in ItemPlaces}
HeadedForRoom  == {t \in Threads : pc[t] \in RoomPlaces}

(* No lost wakeup on push_cv_: while a consumer sleeps in dequeue, every   *)
(* message in the queue has a thread of its own headed for it.  The code   *)
(* notifies after it released the mutex, once per push, and a wakeup may   *)
(* be stolen by a consumer that was not asleep.                            *)
NoMissedPush == PushCvWaiters # {} => Len(q) <= Cardinality(HeadedForItems)

(* No lost wakeup on pop_cv_: while a producer sleeps in enqueue, every    *)
(* free place in the queue has a thread of its own headed for it, although *)
(* enqueue_nowait and enqueue_if_have_room take places without waiting.    *)
NoMissedPop == PopCvWaiters # {} => Capacity - Len(q) <= Cardinality(HeadedForRoom)

Pending == {p \in Producers : pc[p] \in EnqueueOps \cup {"wait_pop_cv"}}

(* Every message has exactly one fate: still with its producer, in the     *)
(* queue, handed to one consumer, overrun, or refused.                     *)
OneFatePerMessage ==
    \A m \in 1 .. calls :
          Cardinality({p \in Pending : item[p] = m})
          + Cardinality({i \in DOMAIN q : q[i] = m})
          + Cardinality({fate \in {<<"taken", taken>>, <<"lost", lost>>, <<"dropped", dropped>>} :
                            m \in fate[2]}) = 1

(* The counters the API reports miss no lost message: overrun_counter() is *)
(* exact at any time, discard_counter() lags behind by the producers that  *)
(* left the critical section and have not yet counted their message.       *)
CountersExact ==
    /\ overrun_counter + cleared.overrun = Cardinality(lost)
    /\ discard_counter + cleared.discard + Cardinality(At(Producers, "discard"))
          = Cardinality(dropped)

(* With consumers that keep coming back, every enqueue returns, a blocked  *)
(* one included.                                                           *)
EnqueueReturns == \A p \in Producers : []<>(pc[p] = "idle")

(* ... and every message is eventually delivered, overrun or refused: none *)
(* stays in the queue while the consumers sleep.                           *)
EveryMessageSettled == []<>(1 .. calls = taken \cup lost \cup dropped)
=============================================================================
