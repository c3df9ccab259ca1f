------------------------- MODULE MpmcQueue_proofs -------------------------
(***************************************************************************)
(* No wakeup is lost in mpmc_blocking_queue, every message has one fate    *)
(* and the counters are exact, for any number of producers and consumers   *)
(* and any capacity.                                                       *)
(***************************************************************************)
EXTENDS MpmcQueue, SequenceTheorems, FiniteSetTheorems, TLAPS

LEMMA ThreadsFinite == IsFiniteSet(Threads)
BY ThreadsAssumption, FS_Union DEF Threads

(* How many threads a placement f puts in one of the places S.             *)
Count(f, S) == Cardinality({u \in Threads : f[u] \in S})

(* What one thread's move does to a count.                                 *)
LEMMA CountAfterGoto ==
    ASSUME NEW f, NEW g, NEW S, NEW t \in Threads,
           \A u \in Threads \ {t} : g[u] = f[u]
    PROVE  /\ Count(f, S) \in Nat
           /\ Count(g, S) \in Nat
           /\ Count(g, S) = Count(f, S) + (IF g[t] \in S THEN 1 ELSE 0)
                                       - (IF f[t] \in S THEN 1 ELSE 0)
<1> DEFINE before == {u \in Threads : f[u] \in S}
           after  == {u \in Threads : g[u] \in S}
<1>1. IsFiniteSet(before) /\ IsFiniteSet(after)
  BY ThreadsFinite, FS_Subset
<1>2. Cardinality(before) \in Nat /\ Cardinality(after) \in Nat
  BY <1>1, FS_CardinalityType
<1>3. Count(f, S) = Cardinality(before) /\ Count(g, S) = Cardinality(after)
  BY DEF Count
<1>4. CASE g[t] \in S
  <2>1. after = before \cup {t}
    BY <1>4
  <2>2. Cardinality(after) = IF t \in before THEN Cardinality(before)
                                             ELSE Cardinality(before) + 1
    BY <1>1, <2>1, FS_AddElement
  <2>3. QED
    BY <1>2, <1>3, <1>4, <2>2, SMT
<1>5. CASE g[t] \notin S
  <2>1. after = before \ {t}
    BY <1>5
  <2>2. Cardinality(after) = IF t \in before THEN Cardinality(before) - 1
                                             ELSE Cardinality(before)
    BY <1>1, <2>1, FS_RemoveElement
  <2>3. QED
    BY <1>2, <1>3, <1>5, <2>2, SMT
<1>6. QED
  BY <1>4, <1>5

(* The count stays when t hands its place over to w.                       *)
LEMMA CountAfterHandover ==
    ASSUME NEW f, NEW h, NEW S, NEW t \in Threads, NEW w \in Threads, t # w,
           \A u \in Threads \ {t, w} : h[u] = f[u],
           h[t] \notin S, f[w] \notin S, f[t] \in S <=> h[w] \in S
    PROVE  Count(h, S) = Count(f, S)
<1>1. PICK g : g = [u \in Threads |-> IF u = t THEN h[t] ELSE f[u]]
  OBVIOUS
<1>2. /\ g[t] = h[t] /\ g[w] = f[w]
      /\ \A u \in Threads \ {t} : g[u] = f[u]
      /\ \A u \in Threads \ {w} : h[u] = g[u]
  BY <1>1
<1>3. /\ Count(f, S) \in Nat
      /\ Count(g, S) \in Nat
      /\ Count(g, S) = Count(f, S) + (IF g[t] \in S THEN 1 ELSE 0)
                                  - (IF f[t] \in S THEN 1 ELSE 0)
  BY <1>2, CountAfterGoto
<1>4. /\ Count(h, S) \in Nat
      /\ Count(h, S) = Count(g, S) + (IF h[w] \in S THEN 1 ELSE 0)
                                  - (IF g[w] \in S THEN 1 ELSE 0)
  BY <1>2, CountAfterGoto
<1>5. QED
  BY <1>2, <1>3, <1>4, SMT

(* Pushing keeps the queue a sequence of messages within its capacity.     *)
LEMMA PushItemsType ==
    ASSUME NEW S, NEW s \in Seq(S), NEW item_ \in S, Len(s) <= Capacity
    PROVE  /\ PushItems(s, Capacity, item_) \in Seq(S)
           /\ HasRoom(s, Capacity)  => Len(PushItems(s, Capacity, item_)) = Len(s) + 1
           /\ ~HasRoom(s, Capacity) => /\ Len(s) = Capacity
                                       /\ Len(PushItems(s, Capacity, item_)) = Len(s)
           /\ Len(PushItems(s, Capacity, item_)) <= Capacity
           /\ Head(Append(s, item_)) \in S
<1> DEFINE a == Append(s, item_)
<1>1. a \in Seq(S) /\ a # <<>> /\ Len(a) = Len(s) + 1 /\ Len(s) \in Nat
  BY AppendProperties, LenProperties
<1>2. Tail(a) \in Seq(S) /\ Len(Tail(a)) = Len(s) /\ Head(a) \in S
  BY <1>1, HeadTailProperties, SMT
<1>3. QED
  BY <1>1, <1>2, CapacityAssumption, SMT DEF PushItems, HasRoom

-----------------------------------------------------------------------------
(* The parts of TypeOK about pc, and about everything else.                *)
PcOK == /\ pc \in [Threads -> ProducerPcs \cup ConsumerPcs]
        /\ \A p \in Producers : pc[p] \in ProducerPcs
        /\ \A c \in Consumers : pc[c] \in ConsumerPcs

LEMMA PushBackType ==
    ASSUME TypeOK, NEW p \in Producers, pc[p] # "idle", PushBack(p)
    PROVE  /\ q' \in Seq(1 .. calls) /\ Len(q') <= Capacity
           /\ overrun_counter' \in Nat
           /\ lost' \subseteq 1 .. calls
<1>1. item[p] \in 1 .. calls
  BY SMT DEF TypeOK
<1>2. /\ PushItems(q, Capacity, item[p]) \in Seq(1 .. calls)
      /\ Len(PushItems(q, Capacity, item[p])) <= Capacity
      /\ Head(Append(q, item[p])) \in 1 .. calls
  BY <1>1, PushItemsType DEF TypeOK
<1>3. overrun_counter + PushLoses(q, Capacity) \in Nat
  BY SMT DEF TypeOK, PushLoses
<1>4. QED
  BY <1>2, <1>3 DEF PushBack, TypeOK

(* A thread that moves to one of its own places keeps PcOK.                *)
LEMMA GotoType ==
    ASSUME TypeOK, NEW t \in Threads, NEW where, Goto(t, where),
           \/ t \in Producers /\ where \in ProducerPcs
           \/ t \in Consumers /\ where \in ConsumerPcs
    PROVE  PcOK'
BY ThreadsAssumption DEF TypeOK, PcOK, Goto, Threads

LEMMA WakeupPlace ==
    ASSUME TypeOK, NEW w \in PushCvWaiters \cup PopCvWaiters
    PROVE  /\ w \in Threads
           /\ w \in PushCvWaiters => /\ w \in Consumers
                                     /\ AfterWakeup(pc[w]) \in {"dequeue", "dequeue_for"}
                                     /\ pc[w] \in {"wait_push_cv", "wait_push_cv_for"}
           /\ w \in PopCvWaiters => /\ w \in Producers
                                    /\ AfterWakeup(pc[w]) = "enqueue"
                                    /\ pc[w] = "wait_pop_cv"
BY DEF PushCvWaiters, PopCvWaiters, At, AfterWakeup, Threads

LEMMA NotifyType ==
    ASSUME TypeOK, NEW t \in Threads, NEW where, NEW waiters,
           waiters \in {PushCvWaiters, PopCvWaiters}, notify_one(t, where, waiters)
    PROVE  PcOK'
<1>1. CASE Goto(t, "idle")
  BY <1>1, GotoType DEF Threads, ProducerPcs, ConsumerPcs
<1>2. ASSUME NEW w \in waiters, pc' = [pc EXCEPT ![t] = "idle", ![w] = AfterWakeup(pc[w])]
      PROVE  PcOK'
  <2>1. w \in PushCvWaiters \cup PopCvWaiters
    BY <1>2
  <2>2. \/ w \in Consumers /\ AfterWakeup(pc[w]) \in ConsumerPcs
        \/ w \in Producers /\ AfterWakeup(pc[w]) \in ProducerPcs
    BY <2>1, WakeupPlace DEF ProducerPcs, ConsumerPcs, EnqueueOps
  <2>3. QED
    BY <1>2, <2>2, ThreadsAssumption DEF TypeOK, PcOK, Threads, ProducerPcs, ConsumerPcs
<1>3. QED
  BY <1>1, <1>2 DEF notify_one

LEMMA NextKeepsType == TypeOK /\ [Next]_vars => TypeOK'
<1> SUFFICES ASSUME TypeOK, [Next]_vars PROVE TypeOK'
  OBVIOUS
<1> DEFINE others == <<q, overrun_counter, discard_counter, item,
                       calls, taken, lost, dropped, cleared>>
<1>1. ASSUME PcOK', UNCHANGED others, \A p \in Producers : pc'[p] # "idle" => pc[p] # "idle"
      PROVE  TypeOK'
  BY <1>1 DEF TypeOK, PcOK
<1>2. ASSUME NEW p \in Producers, NEW op \in EnqueueOps, CallEnqueue(p, op) PROVE TypeOK'
  <2>1. PcOK'
    BY <1>2, GotoType DEF CallEnqueue, Threads, ProducerPcs
  <2>2. calls + 1 \in Nat /\ calls + 1 # 0 /\ 1 .. calls \subseteq 1 .. calls + 1
        /\ 0 .. calls \subseteq 0 .. calls + 1 /\ calls + 1 \in 0 .. calls + 1
    BY SMT DEF TypeOK
  <2>3. q \in Seq(1 .. calls + 1)
    BY <2>2, SeqMonotonic DEF TypeOK
  <2>4. item' \in [Producers -> 0 .. calls + 1]
    BY <1>2, <2>2 DEF TypeOK, CallEnqueue
  <2>5. \A r \in Producers : pc'[r] # "idle" => item'[r] # 0
    BY <1>2, <2>2 DEF TypeOK, CallEnqueue, Goto, Threads
  <2>6. QED
    BY <1>2, <2>1, <2>2, <2>3, <2>4, <2>5 DEF TypeOK, PcOK, CallEnqueue
<1>3. ASSUME NEW p \in Producers, pc[p] # "idle", PushBack(p), Goto(p, "notify_push"),
             UNCHANGED <<discard_counter, item, calls, taken, dropped, cleared>>
      PROVE  TypeOK'
  <2>1. PcOK'
    BY <1>3, GotoType DEF Threads, ProducerPcs
  <2>2. \A r \in Producers : pc'[r] # "idle" => item'[r] # 0
    BY <1>3 DEF TypeOK, Goto, Threads
  <2>3. QED
    BY <1>3, <2>1, <2>2, PushBackType DEF TypeOK, PcOK
<1>4. ASSUME NEW p \in Producers, enqueue(p) PROVE TypeOK'
  BY <1>3, <1>4 DEF enqueue
<1>5. ASSUME NEW p \in Producers, enqueue_wait(p) PROVE TypeOK'
  BY <1>1, <1>5, GotoType DEF enqueue_wait, Threads, ProducerPcs, Goto, TypeOK
<1>6. ASSUME NEW p \in Producers, enqueue_nowait(p) PROVE TypeOK'
  BY <1>3, <1>6 DEF enqueue_nowait
<1>7. ASSUME NEW p \in Producers, enqueue_if_have_room(p) PROVE TypeOK'
  <2>1. CASE HasRoom(q, Capacity)
    BY <1>3, <1>7, <2>1 DEF enqueue_if_have_room
  <2>2. CASE ~HasRoom(q, Capacity)
    <3>1. PcOK'
      BY <1>7, <2>2, GotoType DEF enqueue_if_have_room, Threads, ProducerPcs
    <3>2. item[p] \in 1 .. calls
      BY <1>7, SMT DEF TypeOK, enqueue_if_have_room
    <3>3. \A r \in Producers : pc'[r] # "idle" => item'[r] # 0
      BY <1>7, <2>2 DEF TypeOK, Goto, Threads, enqueue_if_have_room
    <3>4. QED
      BY <1>7, <2>2, <3>1, <3>2, <3>3 DEF TypeOK, PcOK, enqueue_if_have_room
  <2>3. QED
    BY <2>1, <2>2
<1>8. ASSUME NEW p \in Producers, count_discard(p) PROVE TypeOK'
  <2>1. PcOK'
    BY <1>8, GotoType DEF count_discard, Threads, ProducerPcs
  <2>2. discard_counter' \in Nat
    BY <1>8, SMT DEF TypeOK, count_discard
  <2>3. \A r \in Producers : pc'[r] # "idle" => item'[r] # 0
    BY <1>8 DEF TypeOK, Goto, Threads, count_discard
  <2>4. QED
    BY <1>8, <2>1, <2>2, <2>3 DEF TypeOK, PcOK, count_discard
<1>9. ASSUME NEW p \in Producers, notify_push(p) PROVE TypeOK'
  <2>1. PcOK'
    BY <1>9, NotifyType DEF notify_push, Threads
  <2>2. \A r \in Producers : pc'[r] # "idle" => pc[r] # "idle"
    <3>1. \A w \in PushCvWaiters : pc[w] # "idle"
      BY DEF PushCvWaiters, At
    <3>2. QED
      BY <1>9, <3>1 DEF notify_push, notify_one, Goto, TypeOK, Threads
  <2>3. QED
    BY <1>1, <1>9, <2>1, <2>2 DEF notify_push
<1>10. ASSUME NEW c \in Consumers, NEW op \in {"dequeue", "dequeue_for"}, CallDequeue(c, op)
       PROVE  TypeOK'
  <2>1. PcOK'
    BY <1>10, GotoType DEF CallDequeue, Threads, ConsumerPcs
  <2>2. \A r \in Producers : pc'[r] # "idle" => pc[r] # "idle"
    BY <1>10, ThreadsAssumption DEF CallDequeue, Goto, TypeOK, Threads
  <2>3. QED
    BY <1>1, <1>10, <2>1, <2>2 DEF CallDequeue
<1>11. ASSUME NEW c \in Consumers, dequeue(c) PROVE TypeOK'
  <2>1. PcOK'
    BY <1>11, GotoType DEF dequeue, PopFront, Threads, ConsumerPcs
  <2>2. \A r \in Producers : pc'[r] = pc[r]
    BY <1>11, ThreadsAssumption DEF dequeue, PopFront, Goto, TypeOK, Threads
  <2>3. /\ Head(q) \in 1 .. calls /\ Tail(q) \in Seq(1 .. calls)
        /\ Len(Tail(q)) = Len(q) - 1 /\ Len(q) \in Nat
    BY <1>11, HeadTailProperties, LenProperties DEF dequeue, PopFront, TypeOK
  <2>4. Len(Tail(q)) <= Capacity
    BY <2>3, CapacityAssumption, SMT DEF TypeOK
  <2>5. QED
    BY <1>11, <2>1, <2>2, <2>3, <2>4 DEF TypeOK, PcOK, dequeue, PopFront
<1>12. ASSUME NEW c \in Consumers, dequeue_empty(c) PROVE TypeOK'
  <2>1. PcOK'
    BY <1>12, GotoType DEF dequeue_empty, Threads, ConsumerPcs
  <2>2. \A r \in Producers : pc'[r] = pc[r]
    BY <1>12, ThreadsAssumption DEF dequeue_empty, Goto, TypeOK, Threads
  <2>3. QED
    BY <1>1, <1>12, <2>1, <2>2 DEF dequeue_empty
<1>13. ASSUME NEW c \in Consumers, timeout(c) PROVE TypeOK'
  <2>1. PcOK'
    BY <1>13, GotoType DEF timeout, Threads, ConsumerPcs
  <2>2. \A r \in Producers : pc'[r] = pc[r]
    BY <1>13, ThreadsAssumption DEF timeout, Goto, TypeOK, Threads
  <2>3. QED
    BY <1>1, <1>13, <2>1, <2>2 DEF timeout
<1>14. ASSUME NEW c \in Consumers, notify_pop(c) PROVE TypeOK'
  <2>1. PcOK'
    BY <1>14, NotifyType DEF notify_pop, Threads
  <2>2. \A r \in Producers : pc'[r] # "idle" => pc[r] # "idle"
    <3>1. \A w \in PopCvWaiters : pc[w] # "idle"
      BY DEF PopCvWaiters, At
    <3>2. QED
      BY <1>14, <3>1 DEF notify_pop, notify_one, Goto, TypeOK, Threads
  <2>3. QED
    BY <1>1, <1>14, <2>1, <2>2 DEF notify_pop
<1>15. ASSUME NEW t \in Threads, SpuriousWakeup(t) PROVE TypeOK'
  <2>1. \/ t \in Consumers /\ AfterWakeup(pc[t]) \in ConsumerPcs
        \/ t \in Producers /\ AfterWakeup(pc[t]) \in ProducerPcs
    BY <1>15, WakeupPlace DEF SpuriousWakeup, ProducerPcs, ConsumerPcs, EnqueueOps
  <2>2. PcOK'
    BY <1>15, <2>1, GotoType DEF SpuriousWakeup
  <2>3. \A r \in Producers : pc'[r] # "idle" => pc[r] # "idle"
    BY <1>15 DEF SpuriousWakeup, Goto, TypeOK, Threads, PushCvWaiters, PopCvWaiters, At
  <2>4. QED
    BY <1>1, <1>15, <2>2, <2>3 DEF SpuriousWakeup
<1>16. CASE reset_overrun_counter
  <2>1. cleared' \in [overrun : Nat, discard : Nat]
    BY <1>16, SMT DEF TypeOK, reset_overrun_counter
  <2>2. QED
    BY <1>16, <2>1 DEF TypeOK, reset_overrun_counter
<1>17. CASE reset_discard_counter
  <2>1. cleared' \in [overrun : Nat, discard : Nat]
    BY <1>17, SMT DEF TypeOK, reset_discard_counter
  <2>2. QED
    BY <1>17, <2>1 DEF TypeOK, reset_discard_counter
<1>18. CASE UNCHANGED vars
  BY <1>18 DEF TypeOK, vars
<1>19. QED
  BY <1>2, <1>4, <1>5, <1>6, <1>7, <1>8, <1>9, <1>10, <1>11, <1>12, <1>13, <1>14,
     <1>15, <1>16, <1>17, <1>18
     DEF Next, ProducerStep, ConsumerStep

(* Every variable keeps its type; the queue never outgrows its capacity.   *)
THEOREM TypeCorrect == Spec => []TypeOK
<1>1. Init => TypeOK
  <2>1. ASSUME Init PROVE TypeOK
    <3>1. q \in Seq(1 .. calls) /\ Len(q) <= Capacity
      BY <2>1, EmptySeq, CapacityAssumption, SMT DEF Init
    <3>2. QED
      BY <2>1, <3>1, SMT DEF Init, TypeOK, Threads, ProducerPcs, ConsumerPcs, EnqueueOps
  <2>2. QED
    BY <2>1
<1>2. QED
  BY <1>1, NextKeepsType, PTL DEF Spec

-----------------------------------------------------------------------------
LEMMA HeadedCounts ==
    /\ Cardinality(HeadedForItems) = Count(pc, ItemPlaces)
    /\ Cardinality(HeadedForItems') = Count(pc', ItemPlaces)
    /\ Cardinality(HeadedForRoom) = Count(pc, RoomPlaces)
    /\ Cardinality(HeadedForRoom') = Count(pc', RoomPlaces)
BY DEF HeadedForItems, HeadedForRoom, Count, ItemPlaces, RoomPlaces

(* How a move of one thread changes the threads headed for items and room. *)
LEMMA MoveCounts ==
    ASSUME TypeOK, NEW t \in Threads, NEW where, Goto(t, where)
    PROVE  /\ Cardinality(HeadedForItems) \in Nat
           /\ Cardinality(HeadedForRoom) \in Nat
           /\ Cardinality(HeadedForItems') = Cardinality(HeadedForItems)
                                             + (IF where \in ItemPlaces THEN 1 ELSE 0)
                                             - (IF pc[t] \in ItemPlaces THEN 1 ELSE 0)
           /\ Cardinality(HeadedForRoom') = Cardinality(HeadedForRoom)
                                            + (IF where \in RoomPlaces THEN 1 ELSE 0)
                                            - (IF pc[t] \in RoomPlaces THEN 1 ELSE 0)
<1>1. DOMAIN pc = Threads /\ pc' = [pc EXCEPT ![t] = where]
  BY DEF TypeOK, Goto
<1>2. /\ Cardinality(HeadedForItems) = Count(pc, ItemPlaces)
      /\ Cardinality(HeadedForItems') = Count(pc', ItemPlaces)
      /\ Cardinality(HeadedForRoom) = Count(pc, RoomPlaces)
      /\ Cardinality(HeadedForRoom') = Count(pc', RoomPlaces)
  BY HeadedCounts
<1>3. ASSUME NEW S
      PROVE  /\ Count(pc, S) \in Nat
             /\ Count(pc', S) = Count(pc, S) + (IF where \in S THEN 1 ELSE 0)
                                            - (IF pc[t] \in S THEN 1 ELSE 0)
  <2>1. pc'[t] = where /\ \A u \in Threads \ {t} : pc'[u] = pc[u]
    BY <1>1
  <2>2. QED
    BY <2>1, CountAfterGoto
<1>4. QED
  BY <1>2, <1>3

(* Nobody joins a wait set but by going to sleep.                          *)
LEMMA MoveWaiters ==
    ASSUME TypeOK, NEW t \in Threads, NEW where, Goto(t, where)
    PROVE  /\ where \notin {"wait_push_cv", "wait_push_cv_for"} =>
                  PushCvWaiters' \subseteq PushCvWaiters
           /\ where # "wait_pop_cv" => PopCvWaiters' \subseteq PopCvWaiters
BY DEF TypeOK, Goto, PushCvWaiters, PopCvWaiters, At, Threads

NoMissedWakeup == NoMissedPush /\ NoMissedPop

(* A move that neither touches the queue nor leaves an item or a free      *)
(* place without the thread that was headed for it.                        *)
LEMMA QuietMove ==
    ASSUME TypeOK, NoMissedWakeup, NEW t \in Threads, NEW where, Goto(t, where),
           q' = q,
           where \notin {"wait_push_cv", "wait_push_cv_for", "wait_pop_cv"},
           pc[t] \notin ItemPlaces \cup RoomPlaces
    PROVE  NoMissedWakeup'
<1>1. Cardinality(HeadedForItems') >= Cardinality(HeadedForItems)
      /\ Cardinality(HeadedForRoom') >= Cardinality(HeadedForRoom)
      /\ Cardinality(HeadedForItems') \in Nat /\ Cardinality(HeadedForItems) \in Nat
      /\ Cardinality(HeadedForRoom') \in Nat /\ Cardinality(HeadedForRoom) \in Nat
  BY MoveCounts, SMT
<1>2. PushCvWaiters' \subseteq PushCvWaiters /\ PopCvWaiters' \subseteq PopCvWaiters
  BY MoveWaiters
<1>3. Len(q) \in Nat /\ Len(q') = Len(q)
  BY LenProperties DEF TypeOK
<1>4. NoMissedPush'
  BY <1>1, <1>2, <1>3, SMT DEF NoMissedWakeup, NoMissedPush
<1>5. NoMissedPop'
  BY <1>1, <1>2, <1>3, CapacityAssumption, SMT DEF NoMissedWakeup, NoMissedPop
<1>6. QED
  BY <1>4, <1>5 DEF NoMissedWakeup

(* A push brings its notification along, and the free place it takes is    *)
(* the one its thread was headed for, or one that nobody had to wait for.  *)
LEMMA PushMove ==
    ASSUME TypeOK, NoMissedWakeup, NEW p \in Producers, PushBack(p),
           Goto(p, "notify_push"),
           pc[p] \in EnqueueOps,
           pc[p] = "enqueue" => HasRoom(q, Capacity)
    PROVE  NoMissedWakeup'
<1>1. /\ Cardinality(HeadedForItems') = Cardinality(HeadedForItems) + 1
      /\ Cardinality(HeadedForRoom') >= Cardinality(HeadedForRoom) - 1
      /\ Cardinality(HeadedForItems) \in Nat
      /\ Cardinality(HeadedForRoom) \in Nat /\ Cardinality(HeadedForRoom') \in Nat
  <2>1. /\ pc[p] \notin ItemPlaces
        /\ "notify_push" \in ItemPlaces /\ "notify_push" \notin RoomPlaces
    BY DEF EnqueueOps, ItemPlaces, RoomPlaces
  <2>2. Cardinality(HeadedForRoom') \in Nat
    <3>1. IsFiniteSet(HeadedForRoom')
      BY ThreadsFinite, FS_Subset DEF HeadedForRoom
    <3>2. QED
      BY <3>1, FS_CardinalityType
  <2>3. p \in Threads
    BY DEF Threads
  <2>4. QED
    BY <2>1, <2>2, <2>3, MoveCounts, SMT
<1>2. PushCvWaiters' \subseteq PushCvWaiters /\ PopCvWaiters' \subseteq PopCvWaiters
  BY MoveWaiters DEF Threads
<1>3. /\ Len(q) \in Nat /\ Len(q') \in Nat
      /\ \/ Len(q') = Len(q) + 1
         \/ Len(q') = Len(q) /\ Len(q) = Capacity
  <2>1. item[p] \in 1 .. calls
    BY SMT DEF TypeOK, EnqueueOps
  <2>2. QED
    BY <2>1, PushItemsType, LenProperties DEF TypeOK, PushBack
<1>4. NoMissedPush'
  BY <1>1, <1>2, <1>3, SMT DEF NoMissedWakeup, NoMissedPush
<1>5. NoMissedPop'
  BY <1>1, <1>2, <1>3, CapacityAssumption, SMT DEF NoMissedWakeup, NoMissedPop
<1>6. QED
  BY <1>4, <1>5 DEF NoMissedWakeup

(* A pop takes the item its thread was headed for and heads for the free   *)
(* place it left.                                                          *)
LEMMA PopMove ==
    ASSUME TypeOK, NoMissedWakeup, NEW c \in Consumers, dequeue(c)
    PROVE  NoMissedWakeup'
<1>1. /\ Goto(c, "notify_pop") /\ c \in Threads
      /\ pc[c] \in ItemPlaces /\ pc[c] \notin RoomPlaces
      /\ "notify_pop" \in RoomPlaces /\ "notify_pop" \notin ItemPlaces
  BY DEF dequeue, PopFront, Threads, ItemPlaces, RoomPlaces
<1>2. /\ Cardinality(HeadedForItems) \in Nat /\ Cardinality(HeadedForRoom) \in Nat
      /\ Cardinality(HeadedForItems') = Cardinality(HeadedForItems) - 1
      /\ Cardinality(HeadedForRoom') = Cardinality(HeadedForRoom) + 1
  BY <1>1, MoveCounts, SMT
<1>3. PushCvWaiters' \subseteq PushCvWaiters /\ PopCvWaiters' \subseteq PopCvWaiters
  BY <1>1, MoveWaiters
<1>4. Len(q) \in Nat /\ Len(q') = Len(q) - 1
  BY HeadTailProperties, LenProperties DEF TypeOK, dequeue, PopFront
<1>5. NoMissedPush'
  BY <1>2, <1>3, <1>4, SMT DEF NoMissedWakeup, NoMissedPush
<1>6. NoMissedPop'
  BY <1>2, <1>3, <1>4, CapacityAssumption, SMT DEF NoMissedWakeup, NoMissedPop
<1>7. QED
  BY <1>5, <1>6 DEF NoMissedWakeup

(* A thread only goes to sleep when there is nothing to head for.          *)
LEMMA SleepMove ==
    ASSUME TypeOK, NoMissedWakeup, NEW t \in Threads, q' = q,
           \/ t \in Producers /\ enqueue_wait(t)
           \/ t \in Consumers /\ dequeue_empty(t)
    PROVE  NoMissedWakeup'
<1>1. Len(q) \in Nat /\ Len(q') = Len(q) /\ Len(q) <= Capacity
  BY LenProperties DEF TypeOK
<1>2. CASE t \in Producers /\ enqueue_wait(t)
  <2>1. /\ Goto(t, "wait_pop_cv") /\ pc[t] \notin ItemPlaces
        /\ "wait_pop_cv" \notin ItemPlaces
    BY <1>2 DEF enqueue_wait, ItemPlaces
  <2>2. /\ Cardinality(HeadedForItems') = Cardinality(HeadedForItems)
        /\ PushCvWaiters' \subseteq PushCvWaiters
    BY <2>1, MoveCounts, MoveWaiters, SMT
  <2>3. NoMissedPush'
    BY <1>1, <2>2 DEF NoMissedWakeup, NoMissedPush
  <2>4. Capacity - Len(q) = 0
    BY <1>1, <1>2, CapacityAssumption, SMT DEF enqueue_wait, HasRoom
  <2>5. Cardinality(HeadedForRoom') \in Nat
    BY ThreadsFinite, FS_Subset, FS_CardinalityType DEF HeadedForRoom
  <2>6. NoMissedPop'
    BY <1>1, <2>4, <2>5, SMT DEF NoMissedPop
  <2>7. QED
    BY <2>3, <2>6 DEF NoMissedWakeup
<1>3. CASE t \in Consumers /\ dequeue_empty(t)
  <2>1. PICK where \in {"wait_push_cv", "wait_push_cv_for", "idle"} : Goto(t, where)
    BY <1>3 DEF dequeue_empty
  <2>2. where \notin RoomPlaces /\ pc[t] \notin RoomPlaces
    BY <1>3, <2>1 DEF dequeue_empty, RoomPlaces
  <2>3. /\ Cardinality(HeadedForRoom') = Cardinality(HeadedForRoom)
        /\ PopCvWaiters' \subseteq PopCvWaiters
    BY <2>1, <2>2, MoveCounts, MoveWaiters, SMT
  <2>4. NoMissedPop'
    BY <1>1, <2>3 DEF NoMissedWakeup, NoMissedPop
  <2>5. Len(q) = 0
    BY <1>3, EmptySeq DEF dequeue_empty
  <2>6. Cardinality(HeadedForItems') \in Nat
    BY ThreadsFinite, FS_Subset, FS_CardinalityType DEF HeadedForItems
  <2>7. NoMissedPush'
    BY <1>1, <2>5, <2>6, SMT DEF NoMissedPush
  <2>8. QED
    BY <2>4, <2>7 DEF NoMissedWakeup
<1>4. QED
  BY <1>2, <1>3

(* notify_one hands its place in the count over to the thread it wakes, or *)
(* finds no sleeper that would need it.                                    *)
LEMMA NotifyMove ==
    ASSUME TypeOK, NoMissedWakeup, NEW t \in Threads, q' = q,
           \/ t \in Producers /\ notify_one(t, "notify_push", PushCvWaiters)
           \/ t \in Consumers /\ notify_one(t, "notify_pop", PopCvWaiters)
    PROVE  NoMissedWakeup'
<1>1. Len(q) \in Nat /\ Len(q') = Len(q) /\ Len(q) <= Capacity
  BY LenProperties DEF TypeOK
<1>2. /\ "idle" \notin ItemPlaces \cup RoomPlaces
      /\ "notify_push" \in ItemPlaces \ RoomPlaces /\ "notify_pop" \in RoomPlaces \ ItemPlaces
      /\ "dequeue" \in ItemPlaces \ RoomPlaces /\ "dequeue_for" \in ItemPlaces \ RoomPlaces
      /\ "enqueue" \in RoomPlaces \ ItemPlaces
      /\ {"wait_push_cv", "wait_push_cv_for", "wait_pop_cv"}
            \cap (ItemPlaces \cup RoomPlaces) = {}
  BY DEF ItemPlaces, RoomPlaces
<1>3. CASE Goto(t, "idle") /\ t \in Producers /\ pc[t] = "notify_push" /\ PushCvWaiters = {}
  <2>1. /\ PushCvWaiters' = {}
        /\ PopCvWaiters' \subseteq PopCvWaiters
        /\ Cardinality(HeadedForRoom') = Cardinality(HeadedForRoom)
    BY <1>2, <1>3, MoveWaiters, MoveCounts, SMT
  <2>2. QED
    BY <1>1, <2>1 DEF NoMissedWakeup, NoMissedPush, NoMissedPop
<1>4. CASE Goto(t, "idle") /\ t \in Consumers /\ pc[t] = "notify_pop" /\ PopCvWaiters = {}
  <2>1. /\ PopCvWaiters' = {}
        /\ PushCvWaiters' \subseteq PushCvWaiters
        /\ Cardinality(HeadedForItems') = Cardinality(HeadedForItems)
    BY <1>2, <1>4, MoveWaiters, MoveCounts, SMT
  <2>2. QED
    BY <1>1, <2>1 DEF NoMissedWakeup, NoMissedPush, NoMissedPop
<1>5. ASSUME NEW w \in PushCvWaiters \cup PopCvWaiters,
             pc' = [pc EXCEPT ![t] = "idle", ![w] = AfterWakeup(pc[w])],
             \/ t \in Producers /\ pc[t] = "notify_push" /\ w \in PushCvWaiters
             \/ t \in Consumers /\ pc[t] = "notify_pop" /\ w \in PopCvWaiters
      PROVE  NoMissedWakeup'
  <2>1. /\ w \in Threads /\ w # t
        /\ pc'[t] = "idle" /\ pc'[w] = AfterWakeup(pc[w])
        /\ \A u \in Threads \ {t, w} : pc'[u] = pc[u]
    BY <1>5, WakeupPlace DEF TypeOK
  <2>2. PICK f, h : f = pc /\ h = pc'
    OBVIOUS
  <2>3. w \in Threads /\ t # w /\ \A u \in Threads \ {t, w} : h[u] = f[u]
    BY <2>1, <2>2
  <2>4. /\ h[t] \notin ItemPlaces /\ h[t] \notin RoomPlaces
        /\ f[w] \notin ItemPlaces /\ f[w] \notin RoomPlaces
        /\ f[t] \in ItemPlaces <=> h[w] \in ItemPlaces
        /\ f[t] \in RoomPlaces <=> h[w] \in RoomPlaces
    BY <1>2, <1>5, <2>1, <2>2, WakeupPlace
  <2>5. Count(pc', ItemPlaces) = Count(pc, ItemPlaces)
        /\ Count(pc', RoomPlaces) = Count(pc, RoomPlaces)
    <3>1. Count(h, ItemPlaces) = Count(f, ItemPlaces)
      BY <2>3, <2>4, CountAfterHandover
    <3>2. Count(h, RoomPlaces) = Count(f, RoomPlaces)
      BY <2>3, <2>4, CountAfterHandover
    <3>3. QED
      BY <2>2, <3>1, <3>2
  <2>6. /\ Cardinality(HeadedForItems') = Cardinality(HeadedForItems)
        /\ Cardinality(HeadedForRoom') = Cardinality(HeadedForRoom)
    BY <2>5, HeadedCounts
  <2>7. PushCvWaiters' \subseteq PushCvWaiters /\ PopCvWaiters' \subseteq PopCvWaiters
    <3>1. AfterWakeup(pc[w]) \in {"dequeue", "dequeue_for", "enqueue"}
      BY <1>5, WakeupPlace
    <3>2. QED
      BY <1>5, <2>1, <3>1 DEF PushCvWaiters, PopCvWaiters, At, Threads
  <2>8. QED
    BY <1>1, <2>6, <2>7 DEF NoMissedWakeup, NoMissedPush, NoMissedPop
<1>6. QED
  BY <1>3, <1>4, <1>5 DEF notify_one

LEMMA NextKeepsWakeups == TypeOK /\ NoMissedWakeup /\ [Next]_vars => NoMissedWakeup'
<1> SUFFICES ASSUME TypeOK, NoMissedWakeup, [Next]_vars PROVE NoMissedWakeup'
  OBVIOUS
<1>1. Producers \subseteq Threads /\ Consumers \subseteq Threads
  BY DEF Threads
<1>2. ASSUME NEW p \in Producers, NEW op \in EnqueueOps, CallEnqueue(p, op)
      PROVE  NoMissedWakeup'
  <2>1. Goto(p, op) /\ q' = q /\ pc[p] \notin ItemPlaces \cup RoomPlaces
    BY <1>2 DEF CallEnqueue, ItemPlaces, RoomPlaces
  <2>2. op \notin {"wait_push_cv", "wait_push_cv_for", "wait_pop_cv"}
    BY DEF EnqueueOps
  <2>3. QED
    BY <1>1, <2>1, <2>2, QuietMove
<1>3. ASSUME NEW p \in Producers, enqueue(p) PROVE NoMissedWakeup'
  BY <1>3, PushMove DEF enqueue, EnqueueOps
<1>4. ASSUME NEW p \in Producers, enqueue_wait(p) PROVE NoMissedWakeup'
  BY <1>1, <1>4, SleepMove DEF enqueue_wait
<1>5. ASSUME NEW p \in Producers, enqueue_nowait(p) PROVE NoMissedWakeup'
  BY <1>5, PushMove DEF enqueue_nowait, EnqueueOps
<1>6. ASSUME NEW p \in Producers, enqueue_if_have_room(p) PROVE NoMissedWakeup'
  <2>1. CASE HasRoom(q, Capacity)
    BY <1>6, <2>1, PushMove DEF enqueue_if_have_room, EnqueueOps
  <2>2. CASE ~HasRoom(q, Capacity)
    <3>1. Goto(p, "discard") /\ q' = q /\ pc[p] \notin ItemPlaces \cup RoomPlaces
      BY <1>6, <2>2 DEF enqueue_if_have_room, ItemPlaces, RoomPlaces
    <3>2. QED
      BY <1>1, <3>1, QuietMove
  <2>3. QED
    BY <2>1, <2>2
<1>7. ASSUME NEW p \in Producers, count_discard(p) PROVE NoMissedWakeup'
  <2>1. Goto(p, "idle") /\ q' = q /\ pc[p] \notin ItemPlaces \cup RoomPlaces
    BY <1>7 DEF count_discard, ItemPlaces, RoomPlaces
  <2>2. QED
    BY <1>1, <2>1, QuietMove
<1>8. ASSUME NEW p \in Producers, notify_push(p) PROVE NoMissedWakeup'
  BY <1>1, <1>8, NotifyMove DEF notify_push
<1>9. ASSUME NEW c \in Consumers, NEW op \in {"dequeue", "dequeue_for"}, CallDequeue(c, op)
      PROVE  NoMissedWakeup'
  <2>1. Goto(c, op) /\ q' = q /\ pc[c] \notin ItemPlaces \cup RoomPlaces
    BY <1>9 DEF CallDequeue, ItemPlaces, RoomPlaces
  <2>2. op \notin {"wait_push_cv", "wait_push_cv_for", "wait_pop_cv"}
    OBVIOUS
  <2>3. QED
    BY <1>1, <2>1, <2>2, QuietMove
<1>10. ASSUME NEW c \in Consumers, dequeue(c) PROVE NoMissedWakeup'
  BY <1>10, PopMove
<1>11. ASSUME NEW c \in Consumers, dequeue_empty(c) PROVE NoMissedWakeup'
  BY <1>1, <1>11, SleepMove DEF dequeue_empty
<1>12. ASSUME NEW c \in Consumers, timeout(c) PROVE NoMissedWakeup'
  <2>1. Goto(c, "timed_out") /\ q' = q /\ pc[c] \notin ItemPlaces \cup RoomPlaces
    BY <1>12 DEF timeout, ItemPlaces, RoomPlaces
  <2>2. QED
    BY <1>1, <2>1, QuietMove
<1>13. ASSUME NEW c \in Consumers, notify_pop(c) PROVE NoMissedWakeup'
  BY <1>1, <1>13, NotifyMove DEF notify_pop
<1>14. ASSUME NEW t \in Threads, SpuriousWakeup(t) PROVE NoMissedWakeup'
  <2>1. PICK where \in {"dequeue", "dequeue_for", "enqueue"} : Goto(t, where)
    BY <1>14, WakeupPlace DEF SpuriousWakeup
  <2>2. q' = q /\ pc[t] \notin ItemPlaces \cup RoomPlaces
    BY <1>14, WakeupPlace DEF SpuriousWakeup, ItemPlaces, RoomPlaces
  <2>3. where \notin {"wait_push_cv", "wait_push_cv_for", "wait_pop_cv"}
    OBVIOUS
  <2>4. QED
    BY <2>1, <2>2, <2>3, QuietMove
<1>15. CASE UNCHANGED <<q, pc>>
  BY <1>15 DEF NoMissedWakeup, NoMissedPush, NoMissedPop, PushCvWaiters, PopCvWaiters, At,
               HeadedForItems, HeadedForRoom
<1>16. QED
  BY <1>2, <1>3, <1>4, <1>5, <1>6, <1>7, <1>8, <1>9, <1>10, <1>11, <1>12, <1>13,
     <1>14, <1>15
     DEF Next, ProducerStep, ConsumerStep, vars, reset_overrun_counter, reset_discard_counter

LEMMA NoMissedWakeupInvariant == Spec => []NoMissedWakeup
<1>1. Init => NoMissedWakeup
  BY DEF Init, NoMissedWakeup, NoMissedPush, NoMissedPop, PushCvWaiters, PopCvWaiters,
         At, Threads
<1>2. QED
  BY <1>1, NextKeepsWakeups, TypeCorrect, PTL DEF Spec

(* No consumer sleeps on while there is a message that nobody is headed    *)
(* for: no notification of push_cv_ is lost.                               *)
THEOREM PushNeverMissed == Spec => []NoMissedPush
BY NoMissedWakeupInvariant, PTL DEF NoMissedWakeup

(* No producer sleeps on while there is room that nobody is headed for: no *)
(* notification of pop_cv_ is lost.                                        *)
THEOREM PopNeverMissed == Spec => []NoMissedPop
BY NoMissedWakeupInvariant, PTL DEF NoMissedWakeup

-----------------------------------------------------------------------------
PendingPcs == EnqueueOps \cup {"wait_pop_cv"}

(* Fates: the places a message can be in hold different messages, and every       *)
(* message is in one of them.                                              *)
PendingApart ==
    \A p \in Producers : pc[p] \in PendingPcs =>
        /\ \A r \in Producers : pc[r] \in PendingPcs /\ item[r] = item[p] => r = p
        /\ \A i \in 1 .. Len(q) : q[i] # item[p]
        /\ item[p] \notin taken \cup lost \cup dropped
QueuedApart ==
    \A i \in 1 .. Len(q) :
        /\ \A j \in 1 .. Len(q) : q[i] = q[j] => i = j
        /\ q[i] \notin taken \cup lost \cup dropped
SettledApart ==
    /\ taken \cap lost = {}
    /\ taken \cap dropped = {}
    /\ lost \cap dropped = {}
Accounted ==
    \A m \in 1 .. calls :
        \/ \E p \in Producers : pc[p] \in PendingPcs /\ item[p] = m
        \/ \E i \in 1 .. Len(q) : q[i] = m
        \/ m \in taken \cup lost \cup dropped

Fates == PendingApart /\ QueuedApart /\ SettledApart /\ Accounted

(* What a push does to the messages of the queue, place by place.          *)
LEMMA PushPlaces ==
    ASSUME TypeOK, NEW p \in Producers, item[p] \in 1 .. calls, PushBack(p)
    PROVE  /\ HasRoom(q, Capacity) =>
                 /\ Len(q') = Len(q) + 1 /\ q'[Len(q) + 1] = item[p]
                 /\ \A i \in 1 .. Len(q) : q'[i] = q[i]
                 /\ lost' = lost
           /\ ~HasRoom(q, Capacity) /\ Len(q) = 0 =>
                 Len(q') = 0 /\ lost' = lost \cup {item[p]}
           /\ ~HasRoom(q, Capacity) /\ Len(q) > 0 =>
                 /\ Len(q') = Len(q) /\ q'[Len(q)] = item[p]
                 /\ \A i \in 1 .. Len(q) - 1 : q'[i] = q[i + 1]
                 /\ lost' = lost \cup {q[1]}
<1>1. PICK a : a = Append(q, item[p])
  OBVIOUS
<1>2. a \in Seq(1 .. calls) /\ a # <<>> /\ Len(a) = Len(q) + 1 /\ Len(q) \in Nat
      /\ (\A i \in 1 .. Len(q) : a[i] = q[i]) /\ a[Len(q) + 1] = item[p]
  BY <1>1, AppendProperties, LenProperties DEF TypeOK
<1>3. Len(Tail(a)) = Len(q) /\ Head(a) = a[1]
      /\ \A i \in 1 .. Len(q) : Tail(a)[i] = a[i + 1]
  BY <1>2, HeadTailProperties, SMT
<1>4. /\ HasRoom(q, Capacity) => q' = a /\ lost' = lost
      /\ ~HasRoom(q, Capacity) => q' = Tail(a) /\ lost' = lost \cup {Head(a)}
  BY <1>1 DEF PushBack, PushItems
<1>5. CASE HasRoom(q, Capacity)
  BY <1>2, <1>4, <1>5
<1>6. CASE ~HasRoom(q, Capacity) /\ Len(q) > 0
  <2>1. /\ 1 \in 1 .. Len(q) /\ Len(q) \in 1 .. Len(q)
        /\ \A i \in 1 .. Len(q) - 1 : i \in 1 .. Len(q) /\ i + 1 \in 1 .. Len(q)
    BY <1>2, <1>6, SMT
  <2>2. q' = Tail(a) /\ lost' = lost \cup {a[1]}
    BY <1>3, <1>4, <1>6
  <2>3. QED
    BY <1>2, <1>3, <1>6, <2>1, <2>2
<1>7. CASE ~HasRoom(q, Capacity) /\ Len(q) = 0
  <2>1. Len(q) + 1 = 1 /\ ~(Len(q) > 0)
    BY <1>7, SMT
  <2>2. q' = Tail(a) /\ lost' = lost \cup {a[1]}
    BY <1>3, <1>4, <1>7
  <2>3. QED
    BY <1>2, <1>3, <1>7, <2>1, <2>2
<1>8. Len(q) > 0 \/ Len(q) = 0
  BY <1>2, SMT
<1>9. QED
  BY <1>5, <1>6, <1>7, <1>8

(* Steps that move no message.                                             *)
LEMMA FatesQuiet ==
    ASSUME Fates, UNCHANGED <<q, item, calls, taken, lost, dropped>>,
           \A p \in Producers : pc'[p] \in PendingPcs <=> pc[p] \in PendingPcs
    PROVE  Fates'
BY DEF Fates, PendingApart, QueuedApart, SettledApart, Accounted

(* A call brings a message that is nowhere else.                           *)
LEMMA FatesCall ==
    ASSUME TypeOK, Fates, NEW p \in Producers, NEW op \in EnqueueOps, CallEnqueue(p, op)
    PROVE  Fates'
<1>1. /\ pc[p] \notin PendingPcs /\ pc'[p] \in PendingPcs /\ item'[p] = calls + 1
      /\ \A r \in Producers \ {p} : pc'[r] = pc[r] /\ item'[r] = item[r]
      /\ UNCHANGED <<q, taken, lost, dropped>> /\ calls' = calls + 1
  BY DEF CallEnqueue, Goto, TypeOK, Threads, PendingPcs, EnqueueOps
<1>2. /\ \A r \in Producers : item[r] # calls + 1
      /\ \A i \in 1 .. Len(q) : q[i] # calls + 1
      /\ calls + 1 \notin taken \cup lost \cup dropped
  BY ElementOfSeq, SMT DEF TypeOK
<1>3. PendingApart'
  BY <1>1, <1>2 DEF Fates, PendingApart
<1>4. QueuedApart' /\ SettledApart'
  BY <1>1 DEF Fates, QueuedApart, SettledApart
<1>5. Accounted'
  <2>1. \A m \in 1 .. calls + 1 : m = calls + 1 \/ m \in 1 .. calls
    BY SMT DEF TypeOK
  <2>2. QED
    BY <1>1, <2>1 DEF Fates, Accounted
<1>6. QED
  BY <1>3, <1>4, <1>5 DEF Fates

(* A refused message leaves its producer for dropped.                      *)
LEMMA FatesRefuse ==
    ASSUME TypeOK, Fates, NEW p \in Producers, pc[p] \in PendingPcs,
           Goto(p, "discard"), dropped' = dropped \cup {item[p]},
           UNCHANGED <<q, item, calls, taken, lost>>
    PROVE  Fates'
<1>1. /\ pc'[p] \notin PendingPcs
      /\ \A r \in Producers \ {p} : pc'[r] = pc[r]
  BY DEF Goto, TypeOK, Threads, PendingPcs, EnqueueOps
<1>2. PendingApart'
  BY <1>1 DEF Fates, PendingApart
<1>3. QueuedApart' /\ SettledApart'
  BY <1>1 DEF Fates, PendingApart, QueuedApart, SettledApart
<1>4. Accounted'
  BY <1>1 DEF Fates, Accounted
<1>5. QED
  BY <1>2, <1>3, <1>4 DEF Fates

(* A push moves its producer's message into the queue and, without room,   *)
(* the oldest message out of it.                                           *)
LEMMA FatesPush ==
    ASSUME TypeOK, Fates, NEW p \in Producers, pc[p] \in PendingPcs, PushBack(p),
           Goto(p, "notify_push"), UNCHANGED <<item, calls, taken, dropped>>
    PROVE  Fates'
<1>1. /\ pc'[p] \notin PendingPcs
      /\ \A r \in Producers \ {p} : pc'[r] = pc[r]
  BY DEF Goto, TypeOK, Threads, PendingPcs, EnqueueOps
<1>2. item[p] \in 1 .. calls /\ Len(q) \in Nat
  BY LenProperties, SMT DEF TypeOK, PendingPcs, EnqueueOps
<1>3. CASE HasRoom(q, Capacity)
  <2>1. /\ Len(q') = Len(q) + 1 /\ q'[Len(q) + 1] = item[p]
        /\ \A i \in 1 .. Len(q) : q'[i] = q[i]
        /\ lost' = lost
    BY <1>2, <1>3, PushPlaces
  <2>2. \A i \in 1 .. Len(q') : i = Len(q) + 1 \/ i \in 1 .. Len(q)
    BY <1>2, <2>1, SMT
  <2>3. PendingApart'
    BY <1>1, <2>1, <2>2 DEF Fates, PendingApart
  <2>4. QueuedApart' /\ SettledApart'
    BY <1>1, <2>1, <2>2 DEF Fates, PendingApart, QueuedApart, SettledApart
  <2>5. Accounted'
    BY <1>1, <1>2, <2>1, SMT DEF Fates, Accounted
  <2>6. QED
    BY <2>3, <2>4, <2>5 DEF Fates
<1>4. CASE ~HasRoom(q, Capacity) /\ Len(q) = 0
  <2>1. Len(q') = 0 /\ lost' = lost \cup {item[p]}
    BY <1>2, <1>4, PushPlaces
  <2>2. PendingApart' /\ QueuedApart'
    BY <1>1, <2>1, SMT DEF Fates, PendingApart, QueuedApart
  <2>3. SettledApart'
    BY <2>1 DEF Fates, PendingApart, SettledApart
  <2>4. Accounted'
    BY <1>1, <1>4, <2>1, SMT DEF Fates, Accounted
  <2>5. QED
    BY <2>2, <2>3, <2>4 DEF Fates
<1>5. CASE ~HasRoom(q, Capacity) /\ Len(q) > 0
  <2>1. /\ Len(q') = Len(q) /\ q'[Len(q)] = item[p] /\ lost' = lost \cup {q[1]}
        /\ \A i \in 1 .. Len(q) - 1 : q'[i] = q[i + 1]
    BY <1>2, <1>5, PushPlaces
  <2>2. /\ \A i \in 1 .. Len(q') : i = Len(q) \/ i \in 1 .. Len(q) - 1
        /\ \A i \in 1 .. Len(q) : i = 1 \/ i - 1 \in 1 .. Len(q) - 1
        /\ \A i \in 1 .. Len(q) - 1 : i + 1 \in 1 .. Len(q) /\ i + 1 # 1
        /\ 1 \in 1 .. Len(q)
    BY <1>2, <1>5, <2>1, SMT
  <2>3. PendingApart'
    <3>1. \A i \in 1 .. Len(q') : q'[i] = item[p] \/ \E j \in 1 .. Len(q) : q'[i] = q[j]
      BY <2>1, <2>2
    <3>2. ASSUME NEW r \in Producers, r # p, pc[r] \in PendingPcs
          PROVE  /\ item[r] # item[p] /\ \A i \in 1 .. Len(q) : q[i] # item[r]
                 /\ item[r] \notin taken \cup lost \cup dropped
      BY <3>2 DEF Fates, PendingApart
    <3>3. ASSUME NEW r \in Producers, r # p, pc[r] \in PendingPcs
          PROVE  /\ \A i \in 1 .. Len(q') : q'[i] # item[r]
                 /\ item[r] \notin taken \cup lost' \cup dropped
      BY <2>1, <2>2, <3>1, <3>2, <3>3
    <3>4. QED
      BY <1>1, <3>3 DEF Fates, PendingApart
  <2>4. QueuedApart'
    BY <1>1, <1>2, <2>1, <2>2, SMT DEF Fates, PendingApart, QueuedApart
  <2>5. SettledApart'
    BY <2>1, <2>2 DEF Fates, QueuedApart, SettledApart
  <2>6. Accounted'
    <3>1. ASSUME NEW i \in 1 .. Len(q)
          PROVE  q[i] \in lost' \/ \E j \in 1 .. Len(q') : q'[j] = q[i]
      <4>1. CASE i = 1
        BY <2>1, <4>1
      <4>2. CASE i # 1
        <5>1. i - 1 \in 1 .. Len(q) - 1 /\ i - 1 \in 1 .. Len(q') /\ (i - 1) + 1 = i
          BY <1>2, <2>1, <4>2, SMT
        <5>2. q'[i - 1] = q[i]
          BY <2>1, <5>1
        <5>3. QED
          BY <5>1, <5>2
      <4>3. QED
        BY <4>1, <4>2
    <3>2. \E j \in 1 .. Len(q') : q'[j] = item[p]
      BY <1>2, <1>5, <2>1, SMT
    <3>3. SUFFICES ASSUME NEW m \in 1 .. calls
                   PROVE  \/ \E r \in Producers : pc'[r] \in PendingPcs /\ item[r] = m
                          \/ \E i \in 1 .. Len(q') : q'[i] = m
                          \/ m \in taken \cup lost' \cup dropped
      BY DEF Accounted
    <3>4. CASE \E r \in Producers : pc[r] \in PendingPcs /\ item[r] = m
      BY <1>1, <3>2, <3>4
    <3>5. CASE \E i \in 1 .. Len(q) : q[i] = m
      BY <3>1, <3>5
    <3>6. CASE m \in taken \cup lost \cup dropped
      BY <2>1, <3>6
    <3>7. QED
      BY <3>4, <3>5, <3>6 DEF Fates, Accounted
  <2>7. QED
    BY <2>3, <2>4, <2>5, <2>6 DEF Fates
<1>6. QED
  BY <1>2, <1>3, <1>4, <1>5, SMT

(* A pop moves the oldest message to taken.                                *)
LEMMA FatesPop ==
    ASSUME TypeOK, Fates, NEW c \in Consumers, dequeue(c)
    PROVE  Fates'
<1>1. /\ \A r \in Producers : pc'[r] = pc[r]
      /\ UNCHANGED <<item, calls, lost, dropped>>
  BY ThreadsAssumption DEF dequeue, PopFront, Goto, TypeOK, Threads
<1>2. /\ Len(q) \in Nat /\ Len(q) > 0 /\ Len(q') = Len(q) - 1
      /\ taken' = taken \cup {q[1]}
      /\ \A i \in 1 .. Len(q) - 1 : q'[i] = q[i + 1]
  BY HeadTailProperties, LenProperties, EmptySeq, SMT DEF dequeue, PopFront, TypeOK
<1>3. /\ \A i \in 1 .. Len(q') : i + 1 \in 1 .. Len(q) /\ i + 1 # 1 /\ q'[i] = q[i + 1]
      /\ 1 \in 1 .. Len(q)
  BY <1>2, SMT
<1>4. PendingApart'
  <2>1. ASSUME NEW p \in Producers, pc[p] \in PendingPcs
        PROVE  /\ \A i \in 1 .. Len(q') : q'[i] # item[p]
               /\ item[p] \notin taken' \cup lost \cup dropped
    <3>1. (\A i \in 1 .. Len(q) : q[i] # item[p]) /\ item[p] \notin taken \cup lost \cup dropped
      BY <2>1 DEF Fates, PendingApart
    <3>2. QED
      BY <1>2, <1>3, <3>1
  <2>2. QED
    BY <1>1, <2>1 DEF Fates, PendingApart
<1>5. QueuedApart'
  BY <1>1, <1>2, <1>3, SMT DEF Fates, QueuedApart
<1>6. SettledApart'
  BY <1>1, <1>2, <1>3 DEF Fates, QueuedApart, SettledApart
<1>7. Accounted'
  <2>1. ASSUME NEW i \in 1 .. Len(q)
        PROVE  q[i] \in taken' \/ \E j \in 1 .. Len(q') : q'[j] = q[i]
    <3>1. CASE i = 1
      BY <1>2, <3>1
    <3>2. CASE i # 1
      <4>1. i - 1 \in 1 .. Len(q') /\ (i - 1) + 1 = i
        BY <1>2, <3>2, SMT
      <4>2. q'[i - 1] = q[i]
        BY <1>3, <4>1
      <4>3. QED
        BY <4>1, <4>2
    <3>3. QED
      BY <3>1, <3>2
  <2>2. QED
    BY <1>1, <1>2, <2>1 DEF Fates, Accounted
<1>8. QED
  BY <1>4, <1>5, <1>6, <1>7 DEF Fates

LEMMA NextKeepsFates == TypeOK /\ Fates /\ [Next]_vars => Fates'
<1> SUFFICES ASSUME TypeOK, Fates, [Next]_vars PROVE Fates'
  OBVIOUS
<1>1. ASSUME NEW p \in Producers, NEW op \in EnqueueOps, CallEnqueue(p, op) PROVE Fates'
  BY <1>1, FatesCall
<1>2. ASSUME NEW p \in Producers, enqueue(p) PROVE Fates'
  BY <1>2, FatesPush DEF enqueue, PendingPcs, EnqueueOps
<1>3. ASSUME NEW p \in Producers, enqueue_nowait(p) PROVE Fates'
  BY <1>3, FatesPush DEF enqueue_nowait, PendingPcs, EnqueueOps
<1>4. ASSUME NEW p \in Producers, enqueue_if_have_room(p) PROVE Fates'
  <2>1. pc[p] \in PendingPcs
    BY <1>4 DEF enqueue_if_have_room, PendingPcs, EnqueueOps
  <2>2. CASE HasRoom(q, Capacity)
    BY <1>4, <2>1, <2>2, FatesPush DEF enqueue_if_have_room
  <2>3. CASE ~HasRoom(q, Capacity)
    BY <1>4, <2>1, <2>3, FatesRefuse DEF enqueue_if_have_room
  <2>4. QED
    BY <2>2, <2>3
<1>5. ASSUME NEW p \in Producers, enqueue_wait(p) \/ count_discard(p) PROVE Fates'
  BY <1>5, FatesQuiet DEF enqueue_wait, count_discard, Goto, TypeOK, Threads, PendingPcs,
                          EnqueueOps
<1>6. ASSUME NEW t \in Threads, notify_push(t) \/ notify_pop(t) \/ SpuriousWakeup(t)
      PROVE  Fates'
  <2>1. /\ \A w \in PushCvWaiters : w \in Consumers
        /\ \A w \in PopCvWaiters : /\ pc[w] = "wait_pop_cv"
                                   /\ AfterWakeup(pc[w]) = "enqueue"
    BY WakeupPlace
  <2>2. \A p \in Producers : pc'[p] \in PendingPcs <=> pc[p] \in PendingPcs
    BY <1>6, <2>1, ThreadsAssumption
       DEF notify_push, notify_pop, SpuriousWakeup, notify_one, Goto, TypeOK, Threads,
           PendingPcs, EnqueueOps
  <2>3. QED
    BY <1>6, <2>2, FatesQuiet DEF notify_push, notify_pop, SpuriousWakeup
<1>7. ASSUME NEW c \in Consumers, dequeue(c) PROVE Fates'
  BY <1>7, FatesPop
<1>8. ASSUME NEW c \in Consumers, dequeue_empty(c) \/ timeout(c)
                                  \/ \E op \in {"dequeue", "dequeue_for"} : CallDequeue(c, op)
      PROVE  Fates'
  <2>1. \A p \in Producers : pc'[p] = pc[p]
    BY <1>8, ThreadsAssumption DEF dequeue_empty, timeout, CallDequeue, Goto, TypeOK, Threads
  <2>2. QED
    BY <1>8, <2>1, FatesQuiet DEF dequeue_empty, timeout, CallDequeue
<1>9. CASE UNCHANGED <<q, pc, item, calls, taken, lost, dropped>>
  BY <1>9, FatesQuiet
<1>10. QED
  BY <1>1, <1>2, <1>3, <1>4, <1>5, <1>6, <1>7, <1>8, <1>9
     DEF Next, ProducerStep, ConsumerStep, Threads, vars,
         reset_overrun_counter, reset_discard_counter

LEMMA FatesInvariant == Spec => []Fates
<1>1. Init => Fates
  BY EmptySeq, SMT DEF Init, Fates, PendingApart, QueuedApart, SettledApart, Accounted, Threads,
                PendingPcs, EnqueueOps
<1>2. QED
  BY <1>1, NextKeepsFates, TypeCorrect, PTL DEF Spec

(* What Fates says, counted.                                               *)
LEMMA FatesCounted == TypeOK /\ Fates => OneFatePerMessage
<1> SUFFICES ASSUME TypeOK, Fates, NEW m \in 1 .. calls
             PROVE  Cardinality({p \in Pending : item[p] = m})
                    + Cardinality({i \in DOMAIN q : q[i] = m})
                    + Cardinality({fate \in {<<"taken", taken>>, <<"lost", lost>>,
                                             <<"dropped", dropped>>} : m \in fate[2]}) = 1
  BY DEF OneFatePerMessage
<1> DEFINE with    == {p \in Pending : item[p] = m}
           queued  == {i \in DOMAIN q : q[i] = m}
           settled == {fate \in {<<"taken", taken>>, <<"lost", lost>>,
                                 <<"dropped", dropped>>} : m \in fate[2]}
<1>1. DOMAIN q = 1 .. Len(q) /\ Pending = {p \in Producers : pc[p] \in PendingPcs}
  BY LenProperties DEF TypeOK, Pending, PendingPcs
<1>2. /\ settled = {} <=> m \notin taken \cup lost \cup dropped
      /\ m \in taken \cup lost \cup dropped => \E fate : settled = {fate}
  <2>1. \A fate : fate \in settled <=> \/ fate = <<"taken", taken>> /\ m \in taken
                                       \/ fate = <<"lost", lost>> /\ m \in lost
                                       \/ fate = <<"dropped", dropped>> /\ m \in dropped
    OBVIOUS
  <2>2. CASE m \in taken
    <3>1. settled = {<<"taken", taken>>}
      BY <2>1, <2>2 DEF Fates, SettledApart
    <3>2. QED
      BY <2>2, <3>1
  <2>3. CASE m \in lost
    <3>1. settled = {<<"lost", lost>>}
      BY <2>1, <2>3 DEF Fates, SettledApart
    <3>2. QED
      BY <2>3, <3>1
  <2>4. CASE m \in dropped
    <3>1. settled = {<<"dropped", dropped>>}
      BY <2>1, <2>4 DEF Fates, SettledApart
    <3>2. QED
      BY <2>4, <3>1
  <2>5. CASE m \notin taken \cup lost \cup dropped
    BY <2>1, <2>5
  <2>6. QED
    BY <2>2, <2>3, <2>4, <2>5
<1>3. CASE \E p \in Producers : pc[p] \in PendingPcs /\ item[p] = m
  <2>1. (\E p : with = {p}) /\ queued = {} /\ settled = {}
    BY <1>1, <1>2, <1>3 DEF Fates, PendingApart
  <2>2. Cardinality(with) = 1 /\ Cardinality(queued) = 0 /\ Cardinality(settled) = 0
    BY <2>1, FS_Singleton, FS_EmptySet
  <2>3. QED
    BY <2>2, SMT
<1>4. CASE \E i \in 1 .. Len(q) : q[i] = m
  <2>1. PICK i \in 1 .. Len(q) : q[i] = m
    BY <1>4
  <2>2. with = {} /\ queued = {i} /\ settled = {}
    <3>1. m \notin taken \cup lost \cup dropped
      BY <2>1 DEF Fates, QueuedApart
    <3>2. \A j \in 1 .. Len(q) : q[j] = m => j = i
      BY <2>1 DEF Fates, QueuedApart
    <3>3. with = {}
      BY <1>1, <2>1 DEF Fates, PendingApart
    <3>4. QED
      BY <1>1, <1>2, <2>1, <3>1, <3>2, <3>3
  <2>3. Cardinality(with) = 0 /\ Cardinality(queued) = 1 /\ Cardinality(settled) = 0
    BY <2>2, FS_Singleton, FS_EmptySet
  <2>4. QED
    BY <2>3, SMT
<1>5. CASE m \in taken \cup lost \cup dropped
  <2>1. with = {} /\ queued = {} /\ (\E fate : settled = {fate})
    <3>1. \A p \in Producers : pc[p] \in PendingPcs => item[p] # m
      BY <1>5 DEF Fates, PendingApart
    <3>2. \A i \in 1 .. Len(q) : q[i] # m
      BY <1>5 DEF Fates, QueuedApart
    <3>3. QED
      BY <1>1, <1>2, <1>5, <3>1, <3>2
  <2>2. Cardinality(with) = 0 /\ Cardinality(queued) = 0 /\ Cardinality(settled) = 1
    BY <2>1, FS_Singleton, FS_EmptySet
  <2>3. QED
    BY <2>2, SMT
<1>6. QED
  BY <1>3, <1>4, <1>5 DEF Fates, Accounted

(* No message is duplicated and none disappears: whatever the threads do,  *)
(* it is with its producer, in the queue once, with one consumer, overrun  *)
(* or refused.                                                             *)
THEOREM OneFate == Spec => []OneFatePerMessage
BY FatesInvariant, TypeCorrect, FatesCounted, PTL

-----------------------------------------------------------------------------
(* Producers on their way to ++discard_counter_, as a count of threads.    *)
LEMMA DiscardingFinite ==
    /\ IsFiniteSet(At(Producers, "discard"))
    /\ Cardinality(At(Producers, "discard")) \in Nat
<1>1. IsFiniteSet(At(Producers, "discard"))
  BY ThreadsAssumption, FS_Subset DEF At
<1>2. QED
  BY <1>1, FS_CardinalityType

LEMMA SettledFinite ==
    ASSUME TypeOK
    PROVE  /\ IsFiniteSet(lost) /\ IsFiniteSet(dropped)
           /\ Cardinality(lost) \in Nat /\ Cardinality(dropped) \in Nat
<1>1. IsFiniteSet(1 .. calls)
  BY FS_Interval, SMT DEF TypeOK
<1>2. IsFiniteSet(lost) /\ IsFiniteSet(dropped)
  BY <1>1, FS_Subset DEF TypeOK
<1>3. QED
  BY <1>2, FS_CardinalityType

LEMMA CountersQuiet ==
    ASSUME CountersExact,
           UNCHANGED <<overrun_counter, discard_counter, lost, dropped, cleared>>,
           \A p \in Producers : pc'[p] = "discard" <=> pc[p] = "discard"
    PROVE  CountersExact'
<1>1. At(Producers, "discard")' = At(Producers, "discard")
  BY DEF At
<1>2. QED
  BY <1>1 DEF CountersExact

(* A push counts exactly the message it throws out of the queue.           *)
LEMMA CountersPush ==
    ASSUME TypeOK, Fates, CountersExact, NEW p \in Producers, pc[p] \in PendingPcs,
           PushBack(p), Goto(p, "notify_push"), UNCHANGED <<discard_counter, dropped, cleared>>
    PROVE  CountersExact'
<1>1. At(Producers, "discard")' = At(Producers, "discard")
  BY DEF At, Goto, TypeOK, Threads, PendingPcs, EnqueueOps
<1>2. item[p] \in 1 .. calls /\ Len(q) \in Nat
  BY LenProperties, SMT DEF TypeOK, PendingPcs, EnqueueOps
<1>3. CASE HasRoom(q, Capacity)
  <2>1. lost' = lost /\ overrun_counter' = overrun_counter
    BY <1>3, SMT DEF PushBack, PushLoses, TypeOK
  <2>2. QED
    BY <1>1, <2>1 DEF CountersExact
<1>4. CASE ~HasRoom(q, Capacity)
  <2>1. PICK m : m \notin lost /\ lost' = lost \cup {m}
    <3>1. CASE Len(q) = 0
      BY <1>2, <1>4, <3>1, PushPlaces DEF Fates, PendingApart
    <3>2. CASE Len(q) > 0
      <4>1. lost' = lost \cup {q[1]}
        BY <1>2, <1>4, <3>2, PushPlaces
      <4>2. 1 \in 1 .. Len(q)
        BY <1>2, <3>2, SMT
      <4>3. QED
        BY <4>1, <4>2 DEF Fates, QueuedApart
    <3>3. QED
      BY <1>2, <3>1, <3>2, SMT
  <2>2. Cardinality(lost') = Cardinality(lost) + 1
    BY <2>1, SettledFinite, FS_AddElement
  <2>3. overrun_counter' = overrun_counter + 1
    BY <1>4 DEF PushBack, PushLoses
  <2>4. overrun_counter' + cleared'.overrun = Cardinality(lost')
    BY <2>2, <2>3, SettledFinite, SMT DEF CountersExact, TypeOK
  <2>5. QED
    BY <1>1, <2>4 DEF CountersExact
<1>5. QED
  BY <1>3, <1>4

LEMMA CountersRefuse ==
    ASSUME TypeOK, Fates, CountersExact, NEW p \in Producers, pc[p] \in PendingPcs,
           Goto(p, "discard"), dropped' = dropped \cup {item[p]},
           UNCHANGED <<overrun_counter, discard_counter, lost, cleared>>
    PROVE  CountersExact'
<1>1. /\ p \notin At(Producers, "discard")
      /\ At(Producers, "discard")' = At(Producers, "discard") \cup {p}
  BY DEF At, Goto, TypeOK, Threads, PendingPcs, EnqueueOps
<1>2. Cardinality(At(Producers, "discard")') = Cardinality(At(Producers, "discard")) + 1
  BY <1>1, DiscardingFinite, FS_AddElement
<1>3. item[p] \notin dropped
  BY DEF Fates, PendingApart
<1>4. Cardinality(dropped') = Cardinality(dropped) + 1
  BY <1>3, SettledFinite, FS_AddElement
<1>5. discard_counter' + cleared'.discard + Cardinality(At(Producers, "discard")')
          = Cardinality(dropped')
  BY <1>2, <1>4, DiscardingFinite, SettledFinite, SMT DEF CountersExact, TypeOK
<1>6. QED
  BY <1>5 DEF CountersExact

LEMMA CountersCounted ==
    ASSUME TypeOK, CountersExact, NEW p \in Producers, count_discard(p)
    PROVE  CountersExact'
<1>1. /\ p \in At(Producers, "discard")
      /\ At(Producers, "discard")' = At(Producers, "discard") \ {p}
  BY DEF At, count_discard, Goto, TypeOK, Threads
<1>2. Cardinality(At(Producers, "discard")') = Cardinality(At(Producers, "discard")) - 1
  BY <1>1, DiscardingFinite, FS_RemoveElement
<1>3. discard_counter' + cleared'.discard + Cardinality(At(Producers, "discard")')
          = Cardinality(dropped')
  BY <1>2, DiscardingFinite, SettledFinite, SMT DEF CountersExact, TypeOK, count_discard
<1>4. QED
  BY <1>3 DEF CountersExact, count_discard

LEMMA NextKeepsCounters == TypeOK /\ Fates /\ CountersExact /\ [Next]_vars => CountersExact'
<1> SUFFICES ASSUME TypeOK, Fates, CountersExact, [Next]_vars PROVE CountersExact'
  OBVIOUS
<1>1. ASSUME NEW p \in Producers, NEW op \in EnqueueOps, CallEnqueue(p, op)
      PROVE  CountersExact'
  BY <1>1, CountersQuiet DEF CallEnqueue, Goto, TypeOK, Threads, EnqueueOps
<1>2. ASSUME NEW p \in Producers, enqueue(p) PROVE CountersExact'
  BY <1>2, CountersPush DEF enqueue, PendingPcs, EnqueueOps
<1>3. ASSUME NEW p \in Producers, enqueue_nowait(p) PROVE CountersExact'
  BY <1>3, CountersPush DEF enqueue_nowait, PendingPcs, EnqueueOps
<1>4. ASSUME NEW p \in Producers, enqueue_if_have_room(p) PROVE CountersExact'
  <2>1. pc[p] \in PendingPcs
    BY <1>4 DEF enqueue_if_have_room, PendingPcs, EnqueueOps
  <2>2. CASE HasRoom(q, Capacity)
    BY <1>4, <2>1, <2>2, CountersPush DEF enqueue_if_have_room
  <2>3. CASE ~HasRoom(q, Capacity)
    BY <1>4, <2>1, <2>3, CountersRefuse DEF enqueue_if_have_room
  <2>4. QED
    BY <2>2, <2>3
<1>5. ASSUME NEW p \in Producers, enqueue_wait(p) PROVE CountersExact'
  BY <1>5, CountersQuiet DEF enqueue_wait, Goto, TypeOK, Threads
<1>6. ASSUME NEW p \in Producers, count_discard(p) PROVE CountersExact'
  BY <1>6, CountersCounted
<1>7. ASSUME NEW t \in Threads, notify_push(t) \/ notify_pop(t) \/ SpuriousWakeup(t)
      PROVE  CountersExact'
  <2>1. /\ \A w \in PushCvWaiters : w \in Consumers
        /\ \A w \in PopCvWaiters : /\ pc[w] = "wait_pop_cv"
                                   /\ AfterWakeup(pc[w]) = "enqueue"
    BY WakeupPlace
  <2>2. \A p \in Producers : pc'[p] = "discard" <=> pc[p] = "discard"
    BY <1>7, <2>1, ThreadsAssumption
       DEF notify_push, notify_pop, SpuriousWakeup, notify_one, Goto, TypeOK, Threads
  <2>3. QED
    BY <1>7, <2>2, CountersQuiet DEF notify_push, notify_pop, SpuriousWakeup
<1>8. ASSUME NEW c \in Consumers, ConsumerStep(c) \/ \E op \in {"dequeue", "dequeue_for"} :
                                                          CallDequeue(c, op),
             ~notify_pop(c)
      PROVE  CountersExact'
  <2>1. \A p \in Producers : pc'[p] = pc[p]
    BY <1>8, ThreadsAssumption
       DEF ConsumerStep, dequeue, PopFront, dequeue_empty, timeout, CallDequeue, Goto, TypeOK,
           Threads
  <2>2. QED
    BY <1>8, <2>1, CountersQuiet
       DEF ConsumerStep, dequeue, PopFront, dequeue_empty, timeout, CallDequeue
<1>9. CASE reset_overrun_counter
  <2>1. overrun_counter' + cleared'.overrun = Cardinality(lost')
    BY <1>9, SettledFinite, SMT DEF reset_overrun_counter, CountersExact, TypeOK
  <2>2. /\ cleared'.discard = cleared.discard
        /\ At(Producers, "discard")' = At(Producers, "discard")
    BY <1>9 DEF reset_overrun_counter, At
  <2>3. QED
    BY <1>9, <2>1, <2>2 DEF reset_overrun_counter, CountersExact
<1>10. CASE reset_discard_counter
  <2>1. At(Producers, "discard")' = At(Producers, "discard")
    BY <1>10 DEF reset_discard_counter, At
  <2>2. discard_counter' + cleared'.discard + Cardinality(At(Producers, "discard"))
           = Cardinality(dropped')
    BY <1>10, SettledFinite, DiscardingFinite, SMT
       DEF reset_discard_counter, CountersExact, TypeOK
  <2>3. cleared'.overrun = cleared.overrun
    BY <1>10 DEF reset_discard_counter
  <2>4. QED
    BY <1>10, <2>1, <2>2, <2>3 DEF reset_discard_counter, CountersExact
<1>11. CASE UNCHANGED vars
  BY <1>11, CountersQuiet DEF vars
<1>12. QED
  BY <1>1, <1>2, <1>3, <1>4, <1>5, <1>6, <1>7, <1>8, <1>9, <1>10, <1>11
     DEF Next, ProducerStep, ConsumerStep, Threads

(* overrun_counter() and discard_counter() account for every lost message, *)
(* across any resets.                                                      *)
THEOREM CountersAreExact == Spec => []CountersExact
<1>1. Init => CountersExact
  <2> SUFFICES ASSUME Init PROVE CountersExact
    OBVIOUS
  <2>1. At(Producers, "discard") = {} /\ lost = {} /\ dropped = {}
    BY DEF Init, At, Threads
  <2>2. /\ Cardinality(At(Producers, "discard")) = 0
        /\ Cardinality(lost) = 0 /\ Cardinality(dropped) = 0
    BY <2>1, FS_EmptySet
  <2>3. QED
    BY <2>2, SMT DEF Init, CountersExact
<1>2. QED
  BY <1>1, NextKeepsCounters, TypeCorrect, FatesInvariant, PTL DEF Spec
=============================================================================
