-------------------------- MODULE Sequential_proofs --------------------------
(***************************************************************************)
(* The two components that are one thread's at a time.  The ring buffer    *)
(* implements the bounded FIFO with overrun, for every number of objects,  *)
(* every capacity and every set of items.  The caches of a pattern         *)
(* formatter cannot be seen in what it writes, its fields have the widths  *)
(* that were asked for, and its formatters are what the grammar of         *)
(* patterns makes of the pattern, for every pattern, sequence of messages  *)
(* and calendar.                                                           *)
(***************************************************************************)
EXTENDS CircularQ, PatternFormatter, SequenceTheorems, WellFoundedInduction, TLAPS

(* An index moved forward by at most one turn of the ring wraps once.      *)
LEMMA ModWrap ==
    ASSUME NEW m \in Nat \ {0}, NEW h \in 0 .. m - 1, NEW i \in 0 .. m
    PROVE  (h + i) % m = IF h + i < m THEN h + i ELSE h + i - m
BY SMT

LEMMA RingIndices ==
    ASSUME NEW c, Ring(c), c.max_items > 0
    PROVE  /\ c.max_items \in Nat \ {0}
           /\ c.head \in 0 .. c.max_items - 1
           /\ c.tail \in 0 .. c.max_items - 1
           /\ c.v \in [0 .. c.max_items - 1 -> Slot]
BY SMT DEF Ring

(* next_index stays inside the vector.                                     *)
LEMMA NextIndexWraps ==
    ASSUME NEW c, Ring(c), c.max_items > 0, NEW i \in 0 .. c.max_items - 1
    PROVE  /\ next_index(c, i) = IF i + 1 = c.max_items THEN 0 ELSE i + 1
           /\ next_index(c, i) \in 0 .. c.max_items - 1
<1>1. c.max_items \in Nat \ {0}
  BY SMT DEF Ring
<1>2. (i + 1) % c.max_items = IF i + 1 < c.max_items THEN i + 1 ELSE i + 1 - c.max_items
  <2>1. 1 \in 0 .. c.max_items
    BY <1>1, SMT
  <2>2. QED
    BY <1>1, <2>1, ModWrap
<1>3. QED
  BY <1>1, <1>2, SMT DEF next_index

(* size() is the distance from head to tail along the ring.                *)
LEMMA SizeBounds ==
    ASSUME NEW c, Ring(c)
    PROVE  /\ size(c) \in Nat
           /\ c.max_items = 0 => size(c) = 0
           /\ c.max_items > 0 => size(c) <= c.max_items - 1
           /\ empty(c) <=> size(c) = 0
BY SMT DEF Ring, size, empty

LEMMA FullIsNoRoom ==
    ASSUME NEW c, Ring(c), c.max_items > 0
    PROVE  full(c) <=> size(c) = c.max_items - 1
<1>1. next_index(c, c.tail) = IF c.tail + 1 = c.max_items THEN 0 ELSE c.tail + 1
  BY NextIndexWraps, RingIndices
<1>2. QED
  BY <1>1, SMT DEF full, Ring, size

(* The slot that at(i) reaches.                                            *)
LEMMA ContentsAreSlots ==
    ASSUME NEW c, Ring(c)
    PROVE  /\ contents(c) \in [1 .. size(c) -> Slot]
           /\ \A i \in 1 .. size(c) :
                 contents(c)[i] = c.v[IF c.head + i - 1 < c.max_items
                                      THEN c.head + i - 1
                                      ELSE c.head + i - 1 - c.max_items]
<1>1. ASSUME NEW i \in 1 .. size(c)
      PROVE  /\ contents(c)[i] = c.v[IF c.head + i - 1 < c.max_items
                                     THEN c.head + i - 1
                                     ELSE c.head + i - 1 - c.max_items]
             /\ contents(c)[i] \in Slot
  <2>1. c.max_items > 0 /\ i - 1 \in 0 .. c.max_items
    BY <1>1, SizeBounds, SMT DEF Ring
  <2>2. (c.head + (i - 1)) % c.max_items = IF c.head + (i - 1) < c.max_items
                                           THEN c.head + (i - 1)
                                           ELSE c.head + (i - 1) - c.max_items
    BY <2>1, RingIndices, ModWrap
  <2>3. contents(c)[i] = c.v[(c.head + (i - 1)) % c.max_items]
    BY <1>1, SMT DEF contents, at
  <2>4. (c.head + (i - 1)) % c.max_items \in 0 .. c.max_items - 1
    <3>1. c.max_items \in Nat /\ c.head \in 0 .. c.max_items - 1
      BY <2>1 DEF Ring
    <3>2. QED
      BY <2>1, <2>2, <3>1, SMT
  <2>5. QED
    BY <2>1, <2>2, <2>3, <2>4, SizeBounds, SMT DEF Ring
<1>2. contents(c) = [i \in 1 .. size(c) |-> contents(c)[i]]
  BY DEF contents
<1>3. QED
  BY <1>1, <1>2

-----------------------------------------------------------------------------
LEMMA DisabledIsRing == Ring(Disabled)
BY SMT DEF Ring, Disabled, Slot

LEMMA ConstructIsRing ==
    ASSUME NEW max_items \in Nat
    PROVE  Ring(construct(max_items))
BY SMT DEF Ring, construct, Slot

LEMMA PushKeepsRing ==
    ASSUME NEW c, Ring(c), NEW item \in Items
    PROVE  Ring(push_back(c, item))
<1>1. CASE c.max_items = 0
  BY <1>1 DEF push_back
<1>2. CASE c.max_items > 0
  <2>1. /\ next_index(c, c.tail) \in 0 .. c.max_items - 1
        /\ next_index(c, c.head) \in 0 .. c.max_items - 1
    BY <1>2, NextIndexWraps, RingIndices
  <2>2. [c.v EXCEPT ![c.tail] = item] \in [0 .. c.max_items - 1 -> Slot]
    BY <1>2 DEF Ring, Slot
  <2>3. QED
    BY <1>2, <2>1, <2>2, SMT DEF Ring, push_back
<1>3. QED
  BY <1>1, <1>2, SMT DEF Ring

LEMMA PopKeepsRing ==
    ASSUME NEW c, Ring(c), ~empty(c)
    PROVE  Ring(pop_front(c)) /\ c.max_items > 0
<1>1. c.max_items > 0
  BY SMT DEF Ring, empty
<1>2. next_index(c, c.head) \in 0 .. c.max_items - 1
  BY <1>1, NextIndexWraps, RingIndices
<1>3. QED
  BY <1>1, <1>2, SMT DEF Ring, pop_front

LEMMA ResetKeepsRing ==
    ASSUME NEW c, Ring(c)
    PROVE  Ring(reset_overrun_counter(c))
BY SMT DEF Ring, reset_overrun_counter

(* Every step leaves every object a ring.                                  *)
LEMMA NextKeepsType == TypeOK /\ [RingNext]_obj => TypeOK'
<1> SUFFICES ASSUME TypeOK, [RingNext]_obj PROVE TypeOK'
  OBVIOUS
<1>1. ASSUME NEW o \in Objects, NEW item \in Items, PushBack(o, item) PROVE TypeOK'
  BY <1>1, PushKeepsRing DEF TypeOK, PushBack
<1>2. ASSUME NEW o \in Objects, PopFront(o) PROVE TypeOK'
  BY <1>2, PopKeepsRing DEF TypeOK, PopFront
<1>3. ASSUME NEW o \in Objects, ResetOverrunCounter(o) PROVE TypeOK'
  BY <1>3, ResetKeepsRing DEF TypeOK, ResetOverrunCounter
<1>4. ASSUME NEW o \in Objects, NEW max_items \in Capacities, Assign(o, max_items)
      PROVE TypeOK'
  BY <1>4, ConstructIsRing, CapacitiesAssumption DEF TypeOK, Assign
<1>5. ASSUME NEW o \in Objects, NEW p \in Objects, CopyAssign(o, p) PROVE TypeOK'
  BY <1>5 DEF TypeOK, CopyAssign
<1>6. ASSUME NEW o \in Objects, NEW p \in Objects, copy_moveable(o, p) PROVE TypeOK'
  BY <1>6, DisabledIsRing DEF TypeOK, copy_moveable
<1>7. CASE UNCHANGED obj
  BY <1>7 DEF TypeOK
<1>8. QED
  BY <1>1, <1>2, <1>3, <1>4, <1>5, <1>6, <1>7 DEF RingNext

(* The indices of every queue stay inside its vector.                      *)
THEOREM RingTypeCorrect == RingSpec => []TypeOK
<1>1. RingInit => TypeOK
  BY DisabledIsRing DEF RingInit, TypeOK
<1>2. QED
  BY <1>1, NextKeepsType, PTL DEF RingSpec

-----------------------------------------------------------------------------
LEMMA ContentsIsSeq ==
    ASSUME NEW c, Ring(c)
    PROVE  contents(c) \in Seq(Slot) /\ Len(contents(c)) = size(c)
<1>1. size(c) \in Nat /\ contents(c) \in [1 .. size(c) -> Slot]
  BY SizeBounds, ContentsAreSlots
<1>2. contents(c) \in Seq(Slot)
  BY <1>1, SeqDef
<1>3. QED
  BY <1>1, <1>2, LenProperties, SMT

(* A push with room puts the item at the back.                             *)
LEMMA PushWithRoom ==
    ASSUME NEW c, Ring(c), c.max_items > 0, NEW item \in Items, ~full(c)
    PROVE  /\ contents(push_back(c, item)) = Append(contents(c), item)
           /\ push_back(c, item).overrun_counter = c.overrun_counter
<1> DEFINE d == push_back(c, item)
<1>1. /\ d.max_items = c.max_items
      /\ d.head = c.head
      /\ d.tail = IF c.tail + 1 = c.max_items THEN 0 ELSE c.tail + 1
      /\ d.overrun_counter = c.overrun_counter
      /\ d.v = [c.v EXCEPT ![c.tail] = item]
  <2>1. next_index(c, c.tail) = IF c.tail + 1 = c.max_items THEN 0 ELSE c.tail + 1
    BY NextIndexWraps, RingIndices
  <2>2. next_index(c, c.tail) # c.head
    BY DEF full
  <2>3. QED
    BY <2>1, <2>2, SMT DEF push_back, Ring
<1>2. Ring(d)
  BY PushKeepsRing
<1> HIDE DEF d
<1>3. size(d) = size(c) + 1
  <2>1. size(c) # c.max_items - 1
    BY FullIsNoRoom
  <2>2. QED
    BY <1>1, <2>1, RingIndices, SMT DEF size
<1>4. ASSUME NEW i \in 1 .. size(c) + 1
      PROVE  contents(d)[i] = IF i <= size(c) THEN contents(c)[i] ELSE item
  <2> DEFINE k == IF c.head + i - 1 < c.max_items THEN c.head + i - 1
                  ELSE c.head + i - 1 - c.max_items
  <2>1. contents(d)[i] = d.v[k]
    <3>1. i \in 1 .. size(d)
      BY <1>3, <1>4
    <3>2. contents(d)[i] = d.v[IF d.head + i - 1 < d.max_items THEN d.head + i - 1
                               ELSE d.head + i - 1 - d.max_items]
      BY <1>2, <3>1, ContentsAreSlots
    <3>3. QED
      BY <3>2, <1>1
  <2>2. i <= size(c) => contents(c)[i] = c.v[k]
    BY <1>4, ContentsAreSlots, SizeBounds, SMT
  <2>3. k \in 0 .. c.max_items - 1 /\ (k = c.tail <=> i = size(c) + 1)
    <3>1. /\ size(c) = IF c.tail >= c.head THEN c.tail - c.head
                       ELSE c.max_items - (c.head - c.tail)
          /\ size(c) \in Nat /\ size(c) <= c.max_items - 1
      BY SizeBounds DEF size
    <3>2. /\ c.max_items \in Nat
          /\ c.head \in 0 .. c.max_items - 1
          /\ c.tail \in 0 .. c.max_items - 1
      BY RingIndices
    <3>3. QED
      BY <3>1, <3>2, <1>4, SMT
  <2>4. d.v[k] = IF k = c.tail THEN item ELSE c.v[k]
    BY <1>1, <2>3, RingIndices, SMT
  <2>5. QED
    BY <2>1, <2>2, <2>3, <2>4, <1>4, SizeBounds, SMT
<1>5. /\ contents(d) \in Seq(Slot) /\ Len(contents(d)) = size(c) + 1
      /\ contents(c) \in Seq(Slot) /\ Len(contents(c)) = size(c)
  BY <1>2, <1>3, ContentsIsSeq
<1>6. contents(d) = Append(contents(c), item)
  <2>1. /\ Append(contents(c), item) \in Seq(Slot)
        /\ Len(Append(contents(c), item)) = size(c) + 1
        /\ \A i \in 1 .. size(c) + 1 :
              Append(contents(c), item)[i] = IF i <= size(c) THEN contents(c)[i] ELSE item
    BY <1>5, SizeBounds, AppendProperties, SMT DEF Slot
  <2>2. QED
    BY <1>4, <1>5, <2>1, SeqEqual
<1>7. QED
  BY <1>1, <1>6 DEF d

(* A push into a full queue drops the oldest item and counts it.           *)
LEMMA PushWithoutRoom ==
    ASSUME NEW c, Ring(c), c.max_items > 0, NEW item \in Items, full(c)
    PROVE  /\ contents(push_back(c, item)) = Tail(Append(contents(c), item))
           /\ push_back(c, item).overrun_counter = c.overrun_counter + 1
<1> DEFINE d == push_back(c, item)
           s == Append(contents(c), item)
<1>1. /\ d.max_items = c.max_items
      /\ d.head = IF c.head + 1 = c.max_items THEN 0 ELSE c.head + 1
      /\ d.tail = c.head
      /\ c.head = IF c.tail + 1 = c.max_items THEN 0 ELSE c.tail + 1
      /\ d.overrun_counter = c.overrun_counter + 1
      /\ d.v = [c.v EXCEPT ![c.tail] = item]
  <2>1. /\ next_index(c, c.tail) = IF c.tail + 1 = c.max_items THEN 0 ELSE c.tail + 1
        /\ next_index(c, c.head) = IF c.head + 1 = c.max_items THEN 0 ELSE c.head + 1
    BY NextIndexWraps, RingIndices
  <2>2. next_index(c, c.tail) = c.head
    BY DEF full
  <2>3. QED
    BY <2>1, <2>2, SMT DEF push_back, Ring
<1>2. Ring(d)
  BY PushKeepsRing
<1> HIDE DEF d
<1>3. size(c) = c.max_items - 1 /\ size(d) = size(c)
  <2>1. size(c) = c.max_items - 1
    BY FullIsNoRoom
  <2>2. QED
    BY <1>1, <2>1, RingIndices, SMT DEF size
<1>4. ASSUME NEW i \in 1 .. size(c)
      PROVE  contents(d)[i] = IF i + 1 <= size(c) THEN contents(c)[i + 1] ELSE item
  <2> DEFINE k == IF d.head + i - 1 < c.max_items THEN d.head + i - 1
                  ELSE d.head + i - 1 - c.max_items
             j == IF c.head + (i + 1) - 1 < c.max_items THEN c.head + (i + 1) - 1
                  ELSE c.head + (i + 1) - 1 - c.max_items
  <2>1. contents(d)[i] = d.v[k]
    <3>1. i \in 1 .. size(d)
      BY <1>3, <1>4
    <3>2. contents(d)[i] = d.v[IF d.head + i - 1 < d.max_items THEN d.head + i - 1
                               ELSE d.head + i - 1 - d.max_items]
      BY <1>2, <3>1, ContentsAreSlots
    <3>3. QED
      BY <3>2, <1>1
  <2>2. i + 1 <= size(c) => contents(c)[i + 1] = c.v[j]
    BY <1>4, ContentsAreSlots, SizeBounds, SMT
  <2>3. k = j /\ k \in 0 .. c.max_items - 1 /\ (k = c.tail <=> i = size(c))
    <3>1. /\ c.max_items \in Nat
          /\ c.head \in 0 .. c.max_items - 1
          /\ c.tail \in 0 .. c.max_items - 1
      BY RingIndices
    <3>2. d.head \in 0 .. c.max_items - 1
      BY <1>1, <3>1, SMT
    <3>3. k = j
      BY <1>1, <1>3, <1>4, <3>1, <3>2, SMT
    <3>4. j \in 0 .. c.max_items - 1 /\ (j = c.tail <=> i = size(c))
      BY <1>1, <1>3, <1>4, <3>1, SMT
    <3>5. QED
      BY <3>3, <3>4
  <2>4. d.v[k] = IF k = c.tail THEN item ELSE c.v[k]
    BY <1>1, <2>3, RingIndices, SMT
  <2>5. QED
    BY <2>1, <2>2, <2>3, <2>4, <1>4, SizeBounds, SMT
<1>5. /\ contents(d) \in Seq(Slot) /\ Len(contents(d)) = size(c)
      /\ contents(c) \in Seq(Slot) /\ Len(contents(c)) = size(c)
  BY <1>2, <1>3, ContentsIsSeq
<1>6. /\ s \in Seq(Slot) /\ Len(s) = size(c) + 1 /\ s # <<>>
      /\ \A i \in 1 .. size(c) + 1 :
            s[i] = IF i <= size(c) THEN contents(c)[i] ELSE item
  BY <1>5, SizeBounds, AppendProperties, SMT DEF Slot
<1>7. /\ Tail(s) \in Seq(Slot) /\ Len(Tail(s)) = size(c)
      /\ \A i \in 1 .. size(c) : Tail(s)[i] = s[i + 1]
  BY <1>6, SizeBounds, HeadTailProperties, SMT
<1>8. \A i \in 1 .. size(c) : contents(d)[i] = Tail(s)[i]
  BY <1>4, <1>6, <1>7, SizeBounds, SMT
<1>9. contents(d) = Tail(s)
  BY <1>5, <1>7, <1>8, SeqEqual
<1>10. QED
  BY <1>1, <1>9 DEF d

(* Popping a queue that is not empty takes the oldest item away.           *)
LEMMA PopTakesOldest ==
    ASSUME NEW c, Ring(c), ~empty(c)
    PROVE  /\ contents(c) # <<>>
           /\ contents(pop_front(c)) = Tail(contents(c))
<1> DEFINE d == pop_front(c)
<1>1. Ring(d) /\ c.max_items > 0
  BY PopKeepsRing
<1>2. /\ d.max_items = c.max_items
      /\ d.head = IF c.head + 1 = c.max_items THEN 0 ELSE c.head + 1
      /\ d.tail = c.tail
      /\ d.v = c.v
  <2>1. next_index(c, c.head) = IF c.head + 1 = c.max_items THEN 0 ELSE c.head + 1
    BY <1>1, NextIndexWraps, RingIndices
  <2>2. QED
    BY <2>1 DEF pop_front
<1> HIDE DEF d
<1>3. size(d) = size(c) - 1
  <2>1. /\ c.max_items \in Nat \ {0}
        /\ c.head \in 0 .. c.max_items - 1
        /\ c.tail \in 0 .. c.max_items - 1
        /\ c.tail # c.head
    BY <1>1, RingIndices DEF empty
  <2>2. QED
    BY <1>2, <2>1, SMT DEF size
<1>4. /\ contents(d) \in Seq(Slot) /\ Len(contents(d)) = size(c) - 1
      /\ contents(c) \in Seq(Slot) /\ Len(contents(c)) = size(c)
      /\ size(c) \in Nat \ {0}
  BY <1>1, <1>3, ContentsIsSeq, SizeBounds, SMT
<1>5. contents(c) # <<>>
  BY <1>4, EmptySeq, SMT
<1>6. /\ Tail(contents(c)) \in Seq(Slot) /\ Len(Tail(contents(c))) = size(c) - 1
      /\ \A i \in 1 .. size(c) - 1 : Tail(contents(c))[i] = contents(c)[i + 1]
  BY <1>4, <1>5, HeadTailProperties, SMT
<1>7. ASSUME NEW i \in 1 .. size(c) - 1
      PROVE  contents(d)[i] = contents(c)[i + 1]
  <2> DEFINE k == IF d.head + i - 1 < c.max_items THEN d.head + i - 1
                  ELSE d.head + i - 1 - c.max_items
             j == IF c.head + (i + 1) - 1 < c.max_items THEN c.head + (i + 1) - 1
                  ELSE c.head + (i + 1) - 1 - c.max_items
  <2>1. contents(d)[i] = d.v[k]
    <3>1. i \in 1 .. size(d)
      BY <1>3, <1>7
    <3>2. contents(d)[i] = d.v[IF d.head + i - 1 < d.max_items THEN d.head + i - 1
                               ELSE d.head + i - 1 - d.max_items]
      BY <1>1, <3>1, ContentsAreSlots
    <3>3. QED
      BY <3>2, <1>2
  <2>2. contents(c)[i + 1] = c.v[j]
    <3>1. i + 1 \in 1 .. size(c)
      BY <1>4, <1>7, SMT
    <3>2. QED
      BY <3>1, ContentsAreSlots
  <2>3. k = j
    <3>1. /\ c.max_items \in Nat
          /\ c.head \in 0 .. c.max_items - 1
          /\ size(c) \in Nat /\ size(c) <= c.max_items - 1
      BY <1>1, SizeBounds, RingIndices
    <3>2. QED
      BY <1>2, <1>7, <3>1, SMT
  <2>4. QED
    BY <1>2, <2>1, <2>2, <2>3
<1>8. contents(d) = Tail(contents(c))
  BY <1>4, <1>6, <1>7, SeqEqual
<1>9. QED
  BY <1>5, <1>8 DEF d

-----------------------------------------------------------------------------
(* What each operation does to the FIFO a ring stands for.                 *)
LEMMA AbstractDisabled == Abstract(Disabled) = Fifo!DisabledFifo
<1>1. size(Disabled) = 0
  BY SMT DEF size, Disabled
<1>2. contents(Disabled) = <<>>
  <2>1. contents(Disabled) \in Seq(Slot) /\ Len(contents(Disabled)) = 0
    BY <1>1, DisabledIsRing, ContentsIsSeq
  <2>2. QED
    BY <2>1, EmptySeq
<1>3. QED
  BY <1>2 DEF Abstract, Disabled, Fifo!DisabledFifo, Fifo!DisabledCap

LEMMA AbstractConstruct ==
    ASSUME NEW max_items \in Nat
    PROVE  Abstract(construct(max_items)) = Fifo!NewFifo(max_items)
<1> DEFINE d == construct(max_items)
<1>1. Ring(d) /\ size(d) = 0 /\ d.max_items - 1 = max_items /\ d.overrun_counter = 0
  BY ConstructIsRing, SMT DEF size, construct
<1>2. contents(d) = <<>>
  <2>1. contents(d) \in Seq(Slot) /\ Len(contents(d)) = 0
    BY <1>1, ContentsIsSeq
  <2>2. QED
    BY <2>1, EmptySeq
<1>3. QED
  BY <1>1, <1>2 DEF Abstract, Fifo!NewFifo

LEMMA AbstractPush ==
    ASSUME NEW c, Ring(c), NEW item \in Items
    PROVE  Abstract(push_back(c, item)) = Fifo!Pushed(Abstract(c), item)
<1>1. CASE c.max_items = 0
  BY <1>1 DEF push_back, Abstract, Fifo!Pushed, Fifo!DisabledCap
<1>2. CASE c.max_items > 0
  <2> DEFINE d == push_back(c, item)
  <2>1. /\ Abstract(c).cap = c.max_items - 1
        /\ Abstract(c).items = contents(c)
        /\ Abstract(c).overruns = c.overrun_counter
        /\ Abstract(c).cap # Fifo!DisabledCap
    BY <1>2, RingIndices, SMT DEF Abstract, Fifo!DisabledCap
  <2>2. d.max_items = c.max_items
    BY <1>2, RingIndices, SMT DEF push_back
  <2>3. full(c) <=> ~Fifo!HasRoom(contents(c), c.max_items - 1)
    BY <1>2, FullIsNoRoom, ContentsIsSeq, SizeBounds, RingIndices, SMT DEF Fifo!HasRoom
  <2>4. CASE full(c)
    BY <1>2, <2>1, <2>2, <2>3, <2>4, PushWithoutRoom
       DEF Abstract, Fifo!Pushed, Fifo!PushItems, Fifo!PushLoses
  <2>5. CASE ~full(c)
    <3>1. c.overrun_counter + 0 = c.overrun_counter
      BY SMT DEF Ring
    <3>2. QED
      BY <1>2, <2>1, <2>2, <2>3, <2>5, <3>1, PushWithRoom
         DEF Abstract, Fifo!Pushed, Fifo!PushItems, Fifo!PushLoses
  <2>6. QED
    BY <2>4, <2>5
<1>3. QED
  BY <1>1, <1>2, SMT DEF Ring

(* The ring implements the bounded FIFO with overrun: initial states map   *)
(* to initial states and every operation to the operation of its name.     *)
THEOREM RingImplementsFifo == RingSpec => ImplementsFifo
<1> DEFINE abs == [o \in Objects |-> Abstract(obj[o])]
<1>1. RingInit => Fifo!FifoInit
  BY AbstractDisabled DEF RingInit, Fifo!FifoInit
<1>2. TypeOK /\ [RingNext]_obj => [Fifo!FifoNext]_abs
  <2> SUFFICES ASSUME TypeOK, [RingNext]_obj PROVE [Fifo!FifoNext]_abs
    OBVIOUS
  <2>1. ASSUME NEW o \in Objects, NEW item \in Items, PushBack(o, item)
        PROVE  Fifo!FifoNext
    <3>1. abs' = [abs EXCEPT ![o] = Fifo!Pushed(abs[o], item)]
      BY <2>1, AbstractPush DEF PushBack, TypeOK
    <3>2. QED
      BY <3>1 DEF Fifo!FifoNext, Fifo!Push
  <2>2. ASSUME NEW o \in Objects, PopFront(o)
        PROVE  Fifo!FifoNext
    <3>1. /\ abs[o].items # <<>>
          /\ abs' = [abs EXCEPT ![o] = [cap      |-> abs[o].cap,
                                        items    |-> Tail(abs[o].items),
                                        overruns |-> abs[o].overruns]]
      BY <2>2, PopTakesOldest DEF PopFront, TypeOK, Abstract, pop_front
    <3>2. QED
      BY <3>1 DEF Fifo!FifoNext, Fifo!Pop
  <2>3. ASSUME NEW o \in Objects, ResetOverrunCounter(o)
        PROVE  Fifo!FifoNext
    <3>1. contents(reset_overrun_counter(obj[o])) = contents(obj[o])
      BY DEF contents, size, at, reset_overrun_counter
    <3>2. abs' = [abs EXCEPT ![o] = [cap      |-> abs[o].cap,
                                     items    |-> abs[o].items,
                                     overruns |-> 0]]
      BY <2>3, <3>1 DEF ResetOverrunCounter, TypeOK, Abstract, reset_overrun_counter
    <3>3. QED
      BY <3>2 DEF Fifo!FifoNext, Fifo!ResetOverruns
  <2>4. ASSUME NEW o \in Objects, NEW max_items \in Capacities, Assign(o, max_items)
        PROVE  Fifo!FifoNext
    <3>1. abs' = [abs EXCEPT ![o] = Fifo!NewFifo(max_items)]
      BY <2>4, AbstractConstruct, CapacitiesAssumption DEF Assign, TypeOK
    <3>2. QED
      BY <3>1 DEF Fifo!FifoNext, Fifo!Renew
  <2>5. ASSUME NEW o \in Objects, NEW p \in Objects, CopyAssign(o, p)
        PROVE  Fifo!FifoNext
    <3>1. abs' = [abs EXCEPT ![o] = abs[p]]
      BY <2>5 DEF CopyAssign, TypeOK
    <3>2. QED
      BY <3>1 DEF Fifo!FifoNext, Fifo!Copy
  <2>6. ASSUME NEW o \in Objects, NEW p \in Objects, copy_moveable(o, p)
        PROVE  Fifo!FifoNext
    <3>1. o # p /\ abs' = [abs EXCEPT ![o] = abs[p], ![p] = Fifo!DisabledFifo]
      BY <2>6, AbstractDisabled DEF copy_moveable, TypeOK
    <3>2. QED
      BY <3>1 DEF Fifo!FifoNext, Fifo!Move
  <2>7. CASE UNCHANGED obj
    BY <2>7
  <2>8. QED
    BY <2>1, <2>2, <2>3, <2>4, <2>5, <2>6, <2>7 DEF RingNext
<1>3. QED
  BY <1>1, <1>2, RingTypeCorrect, PTL DEF RingSpec, ImplementsFifo, Fifo!FifoSpec

-----------------------------------------------------------------------------
(* empty(), full() and size() agree in every reachable state.              *)
THEOREM AccessorsAgree == RingSpec => []SizeEmptyFullAgree
<1>1. TypeOK => SizeEmptyFullAgree
  <2> SUFFICES ASSUME TypeOK, NEW o \in Objects
               PROVE  LET c == obj[o]
                      IN  /\ size(c) >= 0
                          /\ empty(c) <=> size(c) = 0
                          /\ c.max_items > 0 => /\ size(c) <= c.max_items - 1
                                                /\ full(c) <=> size(c) = c.max_items - 1
                          /\ c.max_items = 0 => ~full(c)
    BY DEF SizeEmptyFullAgree
  <2>1. Ring(obj[o])
    BY DEF TypeOK
  <2>2. size(obj[o]) \in Nat
    BY <2>1, SizeBounds
  <2>3. obj[o].max_items = 0 => ~full(obj[o])
    BY SMT DEF full
  <2>4. size(obj[o]) >= 0
    BY <2>2, SMT
  <2>5. QED
    BY <2>1, <2>3, <2>4, SizeBounds, FullIsNoRoom
<1>2. QED
  BY <1>1, RingTypeCorrect, PTL

Written(c) == \A i \in 1 .. size(c) : contents(c)[i] \in Items

LEMMA EmptyIsWritten ==
    /\ Written(Disabled)
    /\ \A max_items \in Nat : Written(construct(max_items))
BY SMT DEF Written, size, Disabled, construct

LEMMA PushKeepsWritten ==
    ASSUME NEW c, Ring(c), Written(c), NEW item \in Items
    PROVE  Written(push_back(c, item))
<1> DEFINE d == push_back(c, item)
           s == Append(contents(c), item)
<1>1. CASE c.max_items = 0
  BY <1>1 DEF push_back
<1>2. CASE c.max_items > 0
  <2>1. /\ contents(c) \in Seq(Slot) /\ Len(contents(c)) = size(c) /\ size(c) \in Nat
        /\ Ring(d) /\ Len(contents(d)) = size(d) /\ size(d) \in Nat
    BY ContentsIsSeq, PushKeepsRing, SizeBounds
  <2>2. contents(c) \in [1 .. size(c) -> Items]
    BY <2>1, LenProperties DEF Written
  <2>3. s \in Seq(Items) /\ s # <<>>
    BY <2>1, <2>2, SeqDef, AppendProperties
  <2>4. contents(d) = s \/ contents(d) = Tail(s)
    BY <1>2, PushWithRoom, PushWithoutRoom
  <2>5. contents(d) \in Seq(Items)
    BY <2>3, <2>4, HeadTailProperties
  <2> HIDE DEF d
  <2>6. QED
    BY <2>1, <2>5, ElementOfSeq DEF Written, d
<1>3. QED
  BY <1>1, <1>2, SMT DEF Ring

LEMMA PopKeepsWritten ==
    ASSUME NEW c, Ring(c), Written(c), ~empty(c)
    PROVE  Written(pop_front(c))
<1> DEFINE d == pop_front(c)
<1>1. /\ contents(c) \in Seq(Slot) /\ Len(contents(c)) = size(c) /\ size(c) \in Nat
      /\ Ring(d) /\ Len(contents(d)) = size(d) /\ size(d) \in Nat
  BY ContentsIsSeq, PopKeepsRing, SizeBounds
<1>2. contents(c) \in [1 .. size(c) -> Items]
  BY <1>1, LenProperties DEF Written
<1>3. contents(c) \in Seq(Items)
  BY <1>1, <1>2, SeqDef
<1>4. contents(d) \in Seq(Items)
  BY <1>3, PopTakesOldest, HeadTailProperties
<1> HIDE DEF d
<1>5. QED
  BY <1>1, <1>4, ElementOfSeq DEF Written, d

(* No accessor ever shows a slot that no push has written.                 *)
THEOREM OnlyPushedItemsVisible == RingSpec => []NoUnwrittenSlotVisible
<1> DEFINE AllWritten == \A o \in Objects : Written(obj[o])
<1>1. RingInit => AllWritten
  BY EmptyIsWritten DEF RingInit
<1>2. TypeOK /\ AllWritten /\ [RingNext]_obj => AllWritten'
  <2> SUFFICES ASSUME TypeOK, AllWritten, [RingNext]_obj PROVE AllWritten'
    OBVIOUS
  <2>1. ASSUME NEW o \in Objects, NEW item \in Items, PushBack(o, item) PROVE AllWritten'
    BY <2>1, PushKeepsWritten DEF TypeOK, PushBack
  <2>2. ASSUME NEW o \in Objects, PopFront(o) PROVE AllWritten'
    BY <2>2, PopKeepsWritten DEF TypeOK, PopFront
  <2>3. ASSUME NEW o \in Objects, ResetOverrunCounter(o) PROVE AllWritten'
    <3>1. Written(reset_overrun_counter(obj[o]))
      BY DEF Written, contents, size, at, reset_overrun_counter
    <3>2. QED
      BY <2>3, <3>1 DEF TypeOK, ResetOverrunCounter
  <2>4. ASSUME NEW o \in Objects, NEW max_items \in Capacities, Assign(o, max_items)
        PROVE AllWritten'
    BY <2>4, EmptyIsWritten, CapacitiesAssumption DEF TypeOK, Assign
  <2>5. ASSUME NEW o \in Objects, NEW p \in Objects, CopyAssign(o, p) PROVE AllWritten'
    BY <2>5 DEF TypeOK, CopyAssign
  <2>6. ASSUME NEW o \in Objects, NEW p \in Objects, copy_moveable(o, p) PROVE AllWritten'
    BY <2>6, EmptyIsWritten DEF TypeOK, copy_moveable
  <2>7. CASE UNCHANGED obj
    BY <2>7
  <2>8. QED
    BY <2>1, <2>2, <2>3, <2>4, <2>5, <2>6, <2>7 DEF RingNext
<1>3. AllWritten => NoUnwrittenSlotVisible
  BY DEF Written, NoUnwrittenSlotVisible
<1>4. QED
  BY <1>1, <1>2, <1>3, RingTypeCorrect, PTL DEF RingSpec

-----------------------------------------------------------------------------
(* pattern_formatter.  What its functions compute is shown by induction: a *)
(* non-empty set of naturals has a least element.                          *)
LEMMA LeastElement ==
    ASSUME NEW S, S \subseteq Nat, S # {}
    PROVE  \E n \in S : \A m \in S : ~(m < n)
<1>1. PICK R : R = {ss \in Nat \X Nat : ss[1] < ss[2]}
  OBVIOUS
<1>2. IsWellFoundedOn({ss \in Nat \X Nat : ss[1] < ss[2]}, Nat)
  BY NatLessThanWellFounded DEF OpToRel
<1>3. IsWellFoundedOn(R, Nat)
  BY <1>1, <1>2
<1>4. PICK n \in S : \A m \in S : <<m, n>> \notin R
  BY <1>3, WFMin
<1>5. \A m \in S : m < n => <<m, n>> \in R
  BY <1>1
<1>6. QED
  BY <1>4, <1>5

(* The first position that stops a scan.                                   *)
LEMMA SkipWhileIs ==
    ASSUME NEW p \in Seq(Characters), NEW i \in 1 .. Len(p) + 1, NEW S, NEW j \in i .. Len(p) + 1,
           j = Len(p) + 1 \/ p[j] \notin S, \A k \in i .. j - 1 : p[k] \in S
    PROVE  SkipWhile(p, i, S) = j
<1> DEFINE Stops(l) == /\ l = Len(p) + 1 \/ p[l] \notin S
                       /\ \A k \in i .. l - 1 : p[k] \in S
<1>1. Len(p) \in Nat
  OBVIOUS
<1>2. Stops(j)
  OBVIOUS
<1>3. \A l \in i .. Len(p) + 1 : Stops(l) => l = j
  <2> SUFFICES ASSUME NEW l \in i .. Len(p) + 1, Stops(l) PROVE l = j
    OBVIOUS
  <2>1. /\ l < j => l # Len(p) + 1 /\ l \in i .. j - 1
        /\ j < l => j # Len(p) + 1 /\ j \in i .. l - 1
        /\ l = j \/ l < j \/ j < l
    BY <1>1, SMT
  <2>2. ~(l < j)
    BY <2>1
  <2>3. ~(j < l)
    BY <2>1
  <2>4. QED
    BY <2>1, <2>2, <2>3
<1>4. SkipWhile(p, i, S) = CHOOSE l \in i .. Len(p) + 1 : Stops(l)
  BY DEF SkipWhile
<1> HIDE DEF Stops
<1>5. QED
  BY <1>2, <1>3, <1>4

LEMMA SkipWhileStops ==
    ASSUME NEW p \in Seq(Characters), NEW i \in 1 .. Len(p) + 1, NEW S
    PROVE  LET j == SkipWhile(p, i, S)
           IN  /\ j \in i .. Len(p) + 1
               /\ j = Len(p) + 1 \/ p[j] \notin S
               /\ \A k \in i .. j - 1 : p[k] \in S
<1> DEFINE J == {j \in i .. Len(p) + 1 : j = Len(p) + 1 \/ p[j] \notin S}
<1>1. Len(p) \in Nat
  OBVIOUS
<1>2. PICK j \in J : \A k \in J : ~(k < j)
  <2>1. Len(p) + 1 \in J /\ J \subseteq Nat
    BY <1>1, SMT
  <2>2. QED
    BY <2>1, LeastElement
<1>3. \A k \in i .. j - 1 : k \in i .. Len(p) + 1 /\ k < j /\ k # Len(p) + 1
  BY <1>1, <1>2, SMT
<1>4. \A k \in i .. j - 1 : p[k] \in S
  BY <1>2, <1>3
<1>5. SkipWhile(p, i, S) = j
  BY <1>2, <1>4, SkipWhileIs
<1>6. QED
  BY <1>2, <1>4, <1>5

-----------------------------------------------------------------------------
(* The width of a padded field.                                            *)
LEMMA DigitsHaveValues ==
    ASSUME NEW c \in Range(DigitChars)
    PROVE  DigitValue(c) \in 0 .. 9
<1>1. DOMAIN DigitChars = 1 .. 10
  BY DEF DigitChars
<1>2. PICK k \in 1 .. 10 : c = DigitChars[k]
  BY <1>1 DEF Range
<1>3. PICK v : v = k - 1
  OBVIOUS
<1>4. v \in 0 .. 9 /\ v + 1 = k
  BY <1>3, SMT
<1>5. \E w \in 0 .. 9 : DigitChars[w + 1] = c
  BY <1>2, <1>4
<1>6. QED
  BY <1>5 DEF DigitValue

Values(g, p, i, j) ==
    /\ g \in [i .. j -> Nat]
    /\ \A k \in i .. j : g[k] = IF k = i THEN 0 ELSE 10 * g[k - 1] + DigitValue(p[k - 1])

LEMMA ValuesExist ==
    ASSUME NEW p, NEW i \in Nat, NEW j \in Nat, i <= j,
           \A k \in i .. j - 1 : p[k] \in Range(DigitChars)
    PROVE  \E g : Values(g, p, i, j)
<1> DEFINE S == {d \in 0 .. j - i : ~\E g : Values(g, p, i, i + d)}
<1> SUFFICES ASSUME ~\E g : Values(g, p, i, j) PROVE FALSE
  OBVIOUS
<1>1. PICK d \in S : \A c \in S : ~(c < d)
  <2>1. j - i \in 0 .. j - i /\ i + (j - i) = j /\ S \subseteq Nat
    BY SMT
  <2>2. j - i \in S
    BY <2>1
  <2>3. QED
    BY <2>1, <2>2, LeastElement
<1>2. d \in 0 .. j - i /\ d \in Nat /\ ~\E g : Values(g, p, i, i + d)
  BY <1>1, SMT
<1>3. CASE d = 0
  <2>1. PICK g : g = [k \in i .. i + 0 |-> 0]
    OBVIOUS
  <2>2. \A k \in i .. i + 0 : k = i
    BY SMT
  <2>3. Values(g, p, i, i + 0)
    BY <2>1, <2>2 DEF Values
  <2>4. QED
    BY <1>2, <1>3, <2>3
<1>4. CASE d > 0
  <2>1. PICK m, e : m = i + d - 1 /\ e = i + d
    OBVIOUS
  <2>2. /\ d - 1 \in 0 .. j - i /\ d - 1 < d /\ i + (d - 1) = m
        /\ m \in i .. j - 1 /\ m \in i .. m /\ e - 1 = m /\ e # i /\ e \in Nat
        /\ \A k \in i .. e : k = e \/ k \in i .. m
        /\ \A k \in i .. e : k # e /\ k # i => k - 1 \in i .. m
        /\ \A k \in i .. m : k \in i .. e /\ k # e
    BY <1>2, <1>4, <2>1, SMT
  <2>3. PICK g : Values(g, p, i, m)
    BY <1>1, <2>2
  <2>4. PICK x \in Nat : x = 10 * g[m] + DigitValue(p[m])
    <3>1. g[m] \in Nat /\ DigitValue(p[m]) \in 0 .. 9
      BY <2>2, <2>3, DigitsHaveValues DEF Values
    <3>2. 10 * g[m] + DigitValue(p[m]) \in Nat
      BY <3>1, SMT
    <3>3. QED
      BY <3>2
  <2>5. PICK f : f = [k \in i .. e |-> IF k = e THEN x ELSE g[k]]
    OBVIOUS
  <2>6. f \in [i .. e -> Nat]
    BY <2>2, <2>3, <2>5 DEF Values
  <2>7. ASSUME NEW k \in i .. e
        PROVE  f[k] = IF k = i THEN 0 ELSE 10 * f[k - 1] + DigitValue(p[k - 1])
    <3>1. CASE k = e
      <4>1. f[m] = g[m] /\ f[e] = x
        BY <2>2, <2>5
      <4>2. QED
        BY <2>2, <2>4, <3>1, <4>1
    <3>2. CASE k # e
      <4>1. k \in i .. m /\ f[k] = g[k]
        BY <2>2, <2>5, <3>2
      <4>2. k # i => f[k - 1] = g[k - 1]
        BY <2>2, <2>5, <3>2
      <4>3. QED
        BY <2>3, <4>1, <4>2 DEF Values
    <3>3. QED
      BY <3>1, <3>2
  <2>8. Values(f, p, i, i + d)
    BY <2>1, <2>6, <2>7 DEF Values
  <2>9. QED
    BY <1>2, <2>8
<1>5. QED
  BY <1>2, <1>3, <1>4, SMT

LEMMA WidthBounded ==
    ASSUME NEW p, NEW i \in Nat, NEW j \in Nat, i <= j,
           \A k \in i .. j - 1 : p[k] \in Range(DigitChars)
    PROVE  Width(p, i, j) \in 0 .. MaxWidth
<1> DEFINE Unfolded(f) == [k \in i .. j |-> IF k = i THEN 0 ELSE 10 * f[k - 1] + DigitValue(p[k - 1])]
           value == CHOOSE f : f = Unfolded(f)
<1>1. PICK g : Values(g, p, i, j)
  BY ValuesExist
<1>2. g = Unfolded(g)
  BY <1>1 DEF Values
<1>3. value = Unfolded(value)
  BY <1>2
<1>4. Width(p, i, j) = IF value[j] < MaxWidth THEN value[j] ELSE MaxWidth
  BY DEF Width
<1>5. PICK f : f = value
  OBVIOUS
<1>6. /\ DOMAIN f = i .. j
      /\ \A k \in i .. j : f[k] = IF k = i THEN 0 ELSE 10 * f[k - 1] + DigitValue(p[k - 1])
  BY <1>3, <1>5
<1>7. f[j] \in Nat
  <2> DEFINE S == {k \in i .. j : f[k] \notin Nat}
  <2> SUFFICES ASSUME f[j] \notin Nat PROVE FALSE
    OBVIOUS
  <2>1. PICK k \in S : \A c \in S : ~(c < k)
    <3>1. j \in i .. j /\ S \subseteq Nat
      BY SMT
    <3>2. QED
      BY <3>1, LeastElement
  <2>2. k # i
    BY <1>6, <2>1
  <2>3. k - 1 \in i .. j - 1 /\ k - 1 \in i .. j /\ k - 1 < k
    BY <2>1, <2>2, SMT
  <2>4. f[k - 1] \in Nat /\ DigitValue(p[k - 1]) \in 0 .. 9
    BY <2>1, <2>3, DigitsHaveValues
  <2>5. 10 * f[k - 1] + DigitValue(p[k - 1]) \in Nat
    BY <2>4, SMT
  <2>6. QED
    BY <1>6, <2>1, <2>2, <2>5
<1>8. PICK w \in Nat : w = f[j]
  BY <1>7
<1>9. Width(p, i, j) = IF w < 64 THEN w ELSE 64
  BY <1>4, <1>5, <1>8 DEF MaxWidth
<1>10. (IF w < 64 THEN w ELSE 64) \in 0 .. 64
  BY <1>8, SMT
<1>11. QED
  BY <1>9, <1>10 DEF MaxWidth

-----------------------------------------------------------------------------
(* A pattern compiles to a sequence of formatters that have not run yet.   *)
Kinds == TimeFlags \cup OtherFlags \cup {"chars", "custom"}
Pads == [enabled : BOOLEAN, width : 0 .. MaxWidth, side : {"left", "center", "right"}, truncate : BOOLEAN]
States == {Fresh, [Fresh EXCEPT !.secs = Now]}
Unused == {f \in [flag : Kinds, pad : Pads, chars : Seq(Characters), st : States] :
              /\ f.st = IF f.flag \in ElapsedFlags THEN [Fresh EXCEPT !.secs = Now] ELSE Fresh
              /\ f.flag = "chars" => ~f.pad.enabled}

LEMMA PadSpecRead ==
    ASSUME NEW p \in Seq(Characters), NEW i \in 1 .. Len(p) + 1
    PROVE  /\ handle_padspec_(p, i).it \in i .. Len(p) + 1
           /\ handle_padspec_(p, i).pad \in Pads
<1> DEFINE side   == IF i <= Len(p) /\ p[i] \in {"-", "="} THEN p[i] ELSE ""
           first  == IF side = "" THEN i ELSE i + 1
           after  == SkipWhile(p, first, Range(DigitChars))
           digits == first <= Len(p) /\ after > first
           bang   == digits /\ after <= Len(p) /\ p[after] = "!"
<1>1. Len(p) \in Nat /\ i \in Nat
  BY SMT
<1>2. first \in i .. Len(p) + 1 /\ first \in 1 .. Len(p) + 1
  <2>1. side # "" => i <= Len(p)
    OBVIOUS
  <2>2. CASE side = ""
    <3>1. first = i
      BY <2>2
    <3> HIDE DEF first
    <3>2. QED
      BY <1>1, <3>1, SMT
  <2>3. CASE side # ""
    <3>1. first = i + 1 /\ i <= Len(p)
      BY <2>1, <2>3
    <3> HIDE DEF first
    <3>2. QED
      BY <1>1, <3>1, SMT
  <2>4. QED
    BY <2>2, <2>3
<1> HIDE DEF first
<1>3. /\ after \in first .. Len(p) + 1
      /\ \A k \in first .. after - 1 : p[k] \in Range(DigitChars)
  BY <1>2, SkipWhileStops
<1> HIDE DEF after
<1>4. first \in Nat /\ after \in Nat /\ first <= after
  BY <1>1, <1>2, <1>3, SMT
<1>5. Width(p, first, after) \in 0 .. MaxWidth
  BY <1>3, <1>4, WidthBounded
<1>6. bang => after <= Len(p)
  OBVIOUS
<1>7. bang \in BOOLEAN
  OBVIOUS
<1> DEFINE where == CASE side = "-" -> "right" [] side = "=" -> "center" [] OTHER -> "left"
<1>8. where \in {"left", "center", "right"}
  OBVIOUS
<1>9. handle_padspec_(p, i) =
         [it  |-> IF bang THEN after + 1 ELSE after,
          pad |-> IF digits THEN padding_info(Width(p, first, after), where, bang) ELSE NoPad]
  BY DEF handle_padspec_, first, after
<1> HIDE DEF bang, where, digits, side
<1>10. (IF bang THEN after + 1 ELSE after) \in i .. Len(p) + 1
  BY <1>1, <1>2, <1>3, <1>6, SMT
<1>11. padding_info(Width(p, first, after), where, bang) \in Pads
  BY <1>5, <1>7, <1>8 DEF padding_info, Pads
<1>12. NoPad \in Pads
  BY SMT DEF NoPad, Pads, MaxWidth
<1>13. QED
  BY <1>9, <1>10, <1>11, <1>12

LEMMA TwoMakeASeq ==
    ASSUME NEW S, NEW a \in S, NEW b \in S
    PROVE  <<>> \in Seq(S) /\ <<a>> \in Seq(S) /\ <<b>> \in Seq(S) /\ <<a, b>> \in Seq(S)
<1>1. <<>> \in Seq(S) /\ <<a>> \in Seq(S) /\ <<b>> \in Seq(S)
  OBVIOUS
<1>2. <<a, b>> = Append(<<a>>, b)
  OBVIOUS
<1>3. QED
  BY <1>1, <1>2, AppendProperties

LEMMA FormatterIsUnused ==
    ASSUME NEW flag \in Kinds, NEW pad \in Pads, NEW chars \in Seq(Characters),
           flag = "chars" => ~pad.enabled
    PROVE  [Formatter(flag, pad) EXCEPT !.chars = chars] \in Unused
BY DEF Formatter, Unused, States

LEMMA HandledFlagIsUnused ==
    ASSUME NEW flag \in Characters, NEW pad \in Pads
    PROVE  handle_flag_(flag, pad) \in Seq(Unused)
<1>1. /\ <<>> \in Seq(Characters) /\ <<flag>> \in Seq(Characters) /\ <<"%">> \in Seq(Characters)
      /\ <<"%", flag>> \in Seq(Characters)
  <2>1. "%" \in Characters
    BY PatternsAssumption
  <2>2. QED
    BY <2>1, TwoMakeASeq
<1>2. NoPad \in Pads /\ ~NoPad.enabled
  BY SMT DEF NoPad, Pads, MaxWidth
<1>3. [pad EXCEPT !.truncate = FALSE] \in Pads
  BY DEF Pads
<1>4. Custom(flag, pad) \in Unused
  BY <1>1, FormatterIsUnused DEF Custom, Kinds
<1>5. \A chars \in Seq(Characters) : Literal(chars) \in Unused
  BY <1>2, FormatterIsUnused DEF Literal, Kinds
<1>6. \A q \in Pads : \A k \in Kinds \ {"chars"} : Formatter(k, q) \in Unused
  BY <1>1 DEF Formatter, Unused, States
<1>7. "!" \in Kinds \ {"chars"}
  BY DEF Kinds, OtherFlags
<1>8. \A a \in Unused : <<a>> \in Seq(Unused) /\ \A b \in Unused : <<a, b>> \in Seq(Unused)
  BY TwoMakeASeq
<1>9. CASE flag \in CustomFlags
  BY <1>4, <1>8, <1>9 DEF handle_flag_
<1>10. CASE flag \notin CustomFlags /\ Alias(flag) \in TimeFlags \cup OtherFlags
  <2>1. Formatter(Alias(flag), pad) \in Unused
    <3>1. "chars" \notin TimeFlags \cup OtherFlags
      BY DEF TimeFlags, OtherFlags, ElapsedFlags
    <3>2. QED
      BY <1>6, <1>10, <3>1 DEF Kinds
  <2>2. flag = "%" => Alias(flag) \notin TimeFlags \cup OtherFlags
    BY DEF Alias, TimeFlags, OtherFlags, ElapsedFlags
  <2>3. handle_flag_(flag, pad) = <<Formatter(Alias(flag), pad)>>
    BY <1>10, <2>2 DEF handle_flag_
  <2>4. QED
    BY <1>8, <2>1, <2>3
<1>11. CASE flag \notin CustomFlags /\ Alias(flag) \notin TimeFlags \cup OtherFlags
  <2>1. CASE flag = "%"
    <3>1. handle_flag_(flag, pad) = <<Literal(<<"%">>)>>
      BY <1>11, <2>1 DEF handle_flag_
    <3>2. QED
      BY <1>1, <1>5, <1>8, <3>1
  <2>2. CASE flag # "%"
    <3>1. handle_flag_(flag, pad) =
             IF pad.truncate THEN <<Formatter("!", [pad EXCEPT !.truncate = FALSE]), Literal(<<flag>>)>>
                             ELSE <<Literal(<<"%", flag>>)>>
      BY <1>11, <2>2 DEF handle_flag_
    <3>2. QED
      BY <1>1, <1>3, <1>5, <1>6, <1>7, <1>8, <3>1
  <2>3. QED
    BY <2>1, <2>2
<1>12. QED
  BY <1>9, <1>10, <1>11

(* What compile_pattern_ makes of the pattern from position i on, when g   *)
(* is what it makes of the rest.                                           *)
LiteralEnd(p, i) == CHOOSE k \in i + 1 .. Len(p) + 1 :
                       (k = Len(p) + 1 \/ p[k] = "%") /\ \A n \in i .. k - 1 : p[n] # "%"
From(p, g, i) ==
    IF i > Len(p) THEN <<>>
    ELSE IF p[i] # "%"
    THEN LET j == LiteralEnd(p, i) IN <<Literal(SubSeq(p, i, j - 1))>> \o g[j]
    ELSE LET spec == handle_padspec_(p, i + 1)
         IN  IF spec.it > Len(p) THEN <<>>
             ELSE handle_flag_(p[spec.it], spec.pad) \o g[spec.it + 1]
Parses(g, p, i) == /\ g \in [i .. Len(p) + 1 -> Seq(Unused)]
                   /\ \A k \in i .. Len(p) + 1 : g[k] = From(p, g, k)

LEMMA LiteralEnds ==
    ASSUME NEW p \in Seq(Characters), NEW i \in 1 .. Len(p), p[i] # "%"
    PROVE  LET j == LiteralEnd(p, i)
           IN  /\ j \in i + 1 .. Len(p) + 1
               /\ j = Len(p) + 1 \/ p[j] = "%"
               /\ \A n \in i .. j - 1 : p[n] # "%"
<1> DEFINE J == {k \in i + 1 .. Len(p) + 1 : k = Len(p) + 1 \/ p[k] = "%"}
<1>1. Len(p) \in Nat
  OBVIOUS
<1>2. PICK k \in J : \A n \in J : ~(n < k)
  <2>1. Len(p) + 1 \in J /\ J \subseteq Nat
    BY <1>1, SMT
  <2>2. QED
    BY <2>1, LeastElement
<1>3. \A n \in i .. k - 1 : n = i \/ (n \in i + 1 .. Len(p) + 1 /\ n < k)
  BY <1>1, <1>2, SMT
<1>4. \A n \in i .. k - 1 : p[n] # "%"
  BY <1>2, <1>3
<1>5. QED
  BY <1>2, <1>4 DEF LiteralEnd

(* It is some formatters and what g makes of a later position, or nothing. *)
LEMMA FromMovesOn ==
    ASSUME NEW p \in Seq(Characters), NEW i \in 1 .. Len(p) + 1
    PROVE  \/ \A g : From(p, g, i) = <<>>
           \/ \E j \in i + 1 .. Len(p) + 1, s \in Seq(Unused) : \A g : From(p, g, i) = s \o g[j]
<1>1. Len(p) \in Nat /\ i \in Nat
  BY SMT
<1>2. CASE i > Len(p)
  BY <1>2 DEF From
<1>3. CASE ~(i > Len(p)) /\ p[i] # "%"
  <2>1. i \in 1 .. Len(p)
    BY <1>1, <1>3, SMT
  <2>2. PICK j \in i + 1 .. Len(p) + 1 : j = LiteralEnd(p, i)
    BY <1>3, <2>1, LiteralEnds
  <2>3. SubSeq(p, i, j - 1) \in Seq(Characters)
    <3>1. i \in Int /\ j - 1 \in Int /\ \A n \in i .. j - 1 : n \in 1 .. Len(p)
      BY <1>1, <2>1, <2>2, SMT
    <3>2. \A n \in i .. j - 1 : p[n] \in Characters
      BY <3>1, ElementOfSeq
    <3>3. QED
      BY <3>1, <3>2, SubSeqProperties
  <2>4. Literal(SubSeq(p, i, j - 1)) \in Unused
    <3>1. NoPad \in Pads /\ ~NoPad.enabled /\ "chars" \in Kinds
      BY SMT DEF NoPad, Pads, MaxWidth, Kinds
    <3>2. QED
      BY <2>3, <3>1, FormatterIsUnused DEF Literal
  <2>5. PICK s \in Seq(Unused) : s = <<Literal(SubSeq(p, i, j - 1))>>
    BY <2>4, TwoMakeASeq
  <2>6. \A g : From(p, g, i) = s \o g[j]
    BY <1>3, <2>2, <2>5 DEF From
  <2>7. QED
    BY <2>6
<1>4. CASE ~(i > Len(p)) /\ ~(p[i] # "%")
  <2>1. i + 1 \in 1 .. Len(p) + 1
    BY <1>1, <1>4, SMT
  <2>2. PICK spec : spec = handle_padspec_(p, i + 1)
    OBVIOUS
  <2>3. spec.it \in i + 1 .. Len(p) + 1 /\ spec.pad \in Pads
    BY <2>1, <2>2, PadSpecRead
  <2>4. CASE spec.it > Len(p)
    BY <1>4, <2>2, <2>4 DEF From
  <2>5. CASE ~(spec.it > Len(p))
    <3>1. PICK k : k = spec.it
      OBVIOUS
    <3>2. k \in 1 .. Len(p) /\ k + 1 \in i + 1 .. Len(p) + 1
      BY <1>1, <2>3, <2>5, <3>1, SMT
    <3>3. p[k] \in Characters
      BY <3>2, ElementOfSeq
    <3>4. PICK s \in Seq(Unused) : s = handle_flag_(p[k], spec.pad)
      BY <2>3, <3>3, HandledFlagIsUnused
    <3>5. \A g : From(p, g, i) = s \o g[k + 1]
      BY <1>4, <2>2, <2>5, <3>1, <3>4 DEF From
    <3>6. QED
      BY <3>2, <3>5
  <2>6. QED
    BY <2>4, <2>5
<1>5. QED
  BY <1>2, <1>3, <1>4

LEMMA ParsesExist ==
    ASSUME NEW p \in Seq(Characters)
    PROVE  \E g : Parses(g, p, 1)
<1>1. PICK n \in Nat : n = Len(p) + 1
  <2>1. Len(p) + 1 \in Nat /\ Len(p) \in Nat
    BY SMT
  <2>2. QED
    BY <2>1
<1>2. n >= 1 /\ n - 1 \in Nat /\ n - (n - 1) = 1 /\ n - 1 \in 0 .. n - 1
  <2>1. Len(p) \in Nat
    OBVIOUS
  <2>2. QED
    BY <1>1, <2>1, SMT
<1> DEFINE S == {d \in 0 .. n - 1 : ~\E g : Parses(g, p, n - d)}
<1> SUFFICES ASSUME ~\E g : Parses(g, p, 1) PROVE FALSE
  OBVIOUS
<1>3. PICK d \in S : \A c \in S : ~(c < d)
  <2>1. n - 1 \in S
    BY <1>2
  <2>2. S \subseteq Nat
    BY SMT
  <2>3. QED
    BY <2>1, <2>2, LeastElement
<1>4. d \in 0 .. n - 1 /\ d \in Nat /\ ~\E g : Parses(g, p, n - d)
  BY <1>3, SMT
<1>5. CASE d = 0
  <2>1. PICK g : g = [k \in n .. n |-> <<>>]
    OBVIOUS
  <2>2. /\ \A k \in n .. n : k = n /\ k > Len(p) /\ n \in n .. n
        /\ n - 0 = n
    <3>1. Len(p) \in Nat
      OBVIOUS
    <3>2. QED
      BY <1>1, <3>1, SMT
  <2>3. \A k \in n .. n : g[k] = From(p, g, k)
    BY <2>1, <2>2 DEF From
  <2>4. g \in [n .. n -> Seq(Unused)]
    BY <2>1
  <2>5. Parses(g, p, n - d)
    BY <1>1, <1>5, <2>2, <2>3, <2>4 DEF Parses
  <2>6. QED
    BY <1>4, <2>5
<1>6. CASE d > 0
  <2>1. PICK i, a : i = n - d /\ a = n - (d - 1)
    OBVIOUS
  <2>2. /\ d - 1 \in 0 .. n - 1 /\ d - 1 < d /\ a = i + 1 /\ i \in 1 .. n
        /\ \A k \in i .. n : k # i => k \in a .. n
        /\ \A k \in a .. n : k \in i .. n /\ k # i
        /\ i \in i .. n
    BY <1>2, <1>4, <1>6, <2>1, SMT
  <2>3. PICK g : Parses(g, p, a)
    BY <1>3, <2>1, <2>2
  <2>4. From(p, g, i) \in Seq(Unused)
    <3>1. CASE \A h : From(p, h, i) = <<>>
      <4>1. From(p, g, i) = <<>>
        BY <3>1
      <4>2. QED
        BY <4>1
    <3>2. CASE \E j \in i + 1 .. n, s \in Seq(Unused) : \A h : From(p, h, i) = s \o h[j]
      <4>1. PICK j \in i + 1 .. n, s \in Seq(Unused) : \A h : From(p, h, i) = s \o h[j]
        BY <3>2
      <4>2. g[j] \in Seq(Unused)
        BY <1>1, <2>2, <2>3, <4>1 DEF Parses
      <4>3. From(p, g, i) = s \o g[j]
        BY <4>1
      <4>4. QED
        BY <4>2, <4>3, ConcatProperties
    <3>3. i \in 1 .. Len(p) + 1
      BY <1>1, <2>2
    <3>4. \/ \A h : From(p, h, i) = <<>>
          \/ \E j \in i + 1 .. Len(p) + 1, s \in Seq(Unused) : \A h : From(p, h, i) = s \o h[j]
      BY <3>3, FromMovesOn
    <3>5. QED
      BY <1>1, <3>1, <3>2, <3>4
  <2>5. PICK f : f = [k \in i .. n |-> IF k = i THEN From(p, g, i) ELSE g[k]]
    OBVIOUS
  <2>6. f \in [i .. n -> Seq(Unused)]
    BY <1>1, <2>2, <2>3, <2>4, <2>5 DEF Parses
  <2>7. ASSUME NEW k \in i .. n PROVE f[k] = From(p, f, k)
    <3>1. k \in 1 .. n /\ \A j \in k + 1 .. n : j \in a .. n
      BY <1>1, <2>2, SMT
    <3>2. From(p, f, k) = From(p, g, k)
      <4>1. CASE \A h : From(p, h, k) = <<>>
        BY <4>1
      <4>2. CASE \E j \in k + 1 .. n, s \in Seq(Unused) : \A h : From(p, h, k) = s \o h[j]
        <5>1. PICK j \in k + 1 .. n, s \in Seq(Unused) : \A h : From(p, h, k) = s \o h[j]
          BY <4>2
        <5>2. f[j] = g[j]
          BY <2>2, <2>5, <3>1, <5>1
        <5>3. From(p, f, k) = s \o f[j] /\ From(p, g, k) = s \o g[j]
          BY <5>1
        <5>4. QED
          BY <5>2, <5>3
      <4>3. QED
        BY <1>1, <3>1, <4>1, <4>2, FromMovesOn
    <3>3. f[k] = From(p, g, k)
      BY <1>1, <2>2, <2>3, <2>5 DEF Parses
    <3>4. QED
      BY <3>2, <3>3
  <2>8. Parses(f, p, n - d)
    BY <1>1, <2>1, <2>6, <2>7 DEF Parses
  <2>9. QED
    BY <1>4, <2>8
<1>7. QED
  BY <1>4, <1>5, <1>6, SMT

Compiles(f, p) == /\ f \in [1 .. Len(p) + 1 -> Seq(Unused)]
                  /\ \A i \in 1 .. Len(p) + 1 : f[i] = From(p, f, i)

LEMMA CompiledFrom ==
    ASSUME NEW p \in Seq(Characters)
    PROVE  \E f : Compiles(f, p) /\ compile_pattern_(p) = f[1]
<1> DEFINE Unfolded(g) ==
               [i \in 1 .. Len(p) + 1 |->
                   IF i > Len(p) THEN <<>>
                   ELSE IF p[i] # "%"
                   THEN LET j == CHOOSE k \in i + 1 .. Len(p) + 1 :
                                     (k = Len(p) + 1 \/ p[k] = "%") /\ \A n \in i .. k - 1 : p[n] # "%"
                        IN  <<Literal(SubSeq(p, i, j - 1))>> \o g[j]
                   ELSE LET spec == handle_padspec_(p, i + 1)
                        IN  IF spec.it > Len(p) THEN <<>>
                            ELSE handle_flag_(p[spec.it], spec.pad) \o g[spec.it + 1]]
           from == CHOOSE g : g = Unfolded(g)
<1>1. \A g : Unfolded(g) = [i \in 1 .. Len(p) + 1 |-> From(p, g, i)]
  BY DEF From, LiteralEnd
<1>2. PICK g : Parses(g, p, 1)
  BY ParsesExist
<1>3. g = [i \in 1 .. Len(p) + 1 |-> From(p, g, i)]
  BY <1>2 DEF Parses
<1>4. g = Unfolded(g)
  BY <1>1, <1>3
<1>5. from = Unfolded(from)
  BY <1>4
<1>6. compile_pattern_(p) = from[1]
  BY DEF compile_pattern_
<1>7. from = [i \in 1 .. Len(p) + 1 |-> From(p, from, i)]
  BY <1>1, <1>5
<1>8. PICK f : f = from
  OBVIOUS
<1> HIDE DEF from
<1>9. \A i \in 1 .. Len(p) + 1 : f[i] = From(p, f, i)
  BY <1>7, <1>8
<1>10. PICK n \in Nat : n = Len(p) + 1
  <2>1. Len(p) \in Nat
    OBVIOUS
  <2>2. Len(p) + 1 \in Nat
    BY <2>1, SMT
  <2>3. QED
    BY <2>2
<1>11. \A i \in 1 .. n : f[i] \in Seq(Unused)
  <2> DEFINE S == {d \in 0 .. n - 1 : f[n - d] \notin Seq(Unused)}
  <2> SUFFICES ASSUME \E i \in 1 .. n : f[i] \notin Seq(Unused) PROVE FALSE
    OBVIOUS
  <2>1. PICK d \in S : \A c \in S : ~(c < d)
    <3>1. PICK i \in 1 .. n : f[i] \notin Seq(Unused)
      OBVIOUS
    <3>2. n - i \in 0 .. n - 1 /\ n - (n - i) = i
      BY SMT
    <3>3. n - i \in S
      BY <3>1, <3>2
    <3>4. S \subseteq Nat
      BY SMT
    <3>5. QED
      BY <3>3, <3>4, LeastElement
  <2>2. PICK i : i = n - d
    OBVIOUS
  <2>3. i \in 1 .. n /\ f[i] \notin Seq(Unused)
    BY <2>1, <2>2, SMT
  <2>4. f[i] = From(p, f, i)
    BY <1>9, <1>10, <2>3
  <2>5. CASE \A h : From(p, h, i) = <<>>
    <3>1. f[i] = <<>>
      BY <2>4, <2>5
    <3>2. QED
      BY <2>3, <3>1
  <2>6. CASE \E j \in i + 1 .. n, s \in Seq(Unused) : \A h : From(p, h, i) = s \o h[j]
    <3>1. PICK j \in i + 1 .. n, s \in Seq(Unused) : \A h : From(p, h, i) = s \o h[j]
      BY <2>6
    <3>2. n - j \in 0 .. n - 1 /\ n - j < d /\ n - (n - j) = j
      BY <2>1, <2>2, <2>3, <3>1, SMT
    <3>3. f[j] \in Seq(Unused)
      BY <2>1, <3>2
    <3>4. From(p, f, i) = s \o f[j]
      BY <3>1
    <3>5. QED
      BY <2>3, <2>4, <3>3, <3>4, ConcatProperties
  <2>7. QED
    BY <1>10, <2>3, <2>5, <2>6, FromMovesOn
<1>12. f = [i \in 1 .. n |-> f[i]]
  BY <1>7, <1>8, <1>10
<1>13. f \in [1 .. n -> Seq(Unused)]
  BY <1>11, <1>12
<1>14. QED
  BY <1>6, <1>8, <1>9, <1>10, <1>13 DEF Compiles

LEMMA CompiledIsUnused ==
    ASSUME NEW p \in Seq(Characters)
    PROVE  compile_pattern_(p) \in Seq(Unused)
<1>1. PICK f : Compiles(f, p) /\ compile_pattern_(p) = f[1]
  BY CompiledFrom
<1>2. 1 \in 1 .. Len(p) + 1
  <2>1. Len(p) \in Nat
    OBVIOUS
  <2>2. QED
    BY <2>1, SMT
<1>3. QED
  BY <1>1, <1>2 DEF Compiles

-----------------------------------------------------------------------------
(* What the formatters do to the buffer, one after the other.              *)
Start == [dest |-> <<>>, range |-> <<0, 0>>, st |-> Fresh]
Accs(acc, fs, n, m, tm, ctx, z) ==
    /\ acc[0] = Start
    /\ \A i \in 1 .. n : acc[i] = FormatFlag(fs[i], m, tm, ctx, z, acc[i - 1])
AllAccs(acc, fs, n, m, tm, ctx, z) ==
    acc = [i \in 0 .. n |-> acc[i]] /\ Accs(acc, fs, n, m, tm, ctx, z)

LEMMA AccsExist ==
    ASSUME NEW n \in Nat, NEW fs, NEW m, NEW tm, NEW ctx, NEW z
    PROVE  \E acc : AllAccs(acc, fs, n, m, tm, ctx, z)
<1> DEFINE S == {j \in 0 .. n : ~\E acc : AllAccs(acc, fs, j, m, tm, ctx, z)}
<1> SUFFICES ASSUME ~\E acc : AllAccs(acc, fs, n, m, tm, ctx, z) PROVE FALSE
  OBVIOUS
<1>1. PICK j \in S : \A k \in S : ~(k < j)
  <2>1. n \in S /\ S \subseteq Nat
    BY SMT
  <2>2. QED
    BY <2>1, LeastElement
<1>2. j \in 0 .. n /\ j \in Nat /\ ~\E acc : AllAccs(acc, fs, j, m, tm, ctx, z)
  BY <1>1, SMT
<1>3. CASE j = 0
  <2>1. PICK g : g = [k \in 0 .. 0 |-> Start]
    OBVIOUS
  <2>2. 0 \in 0 .. 0 /\ \A k \in 0 .. 0 : g[k] = Start
    BY <2>1, SMT
  <2>3. \A k \in 1 .. 0 : FALSE
    BY SMT
  <2>4. g = [k \in 0 .. 0 |-> g[k]]
    BY <2>1
  <2>5. QED
    BY <1>2, <1>3, <2>2, <2>3, <2>4 DEF AllAccs, Accs
<1>4. CASE j > 0
  <2>1. PICK k : k = j - 1
    OBVIOUS
  <2>2. k \in 0 .. n /\ k < j /\ k \in 0 .. k /\ j \in 1 .. n
    BY <1>2, <1>4, <2>1, SMT
  <2>3. PICK g : AllAccs(g, fs, k, m, tm, ctx, z)
    BY <1>1, <2>2
  <2>4. PICK f : f = [i \in 0 .. j |-> IF i = j THEN FormatFlag(fs[j], m, tm, ctx, z, g[k]) ELSE g[i]]
    OBVIOUS
  <2>5. /\ \A i \in 1 .. j : i = j \/ (i \in 1 .. k /\ i # j /\ i - 1 # j)
        /\ \A i \in 1 .. j : i \in 0 .. j /\ i - 1 \in 0 .. j
        /\ j - 1 = k /\ k # j /\ 0 # j /\ 0 \in 0 .. j /\ j \in 0 .. j
    BY <1>2, <1>4, <2>1, <2>2, SMT
  <2>6. f = [i \in 0 .. j |-> f[i]] /\ f[0] = Start
    BY <2>3, <2>4, <2>5 DEF AllAccs, Accs
  <2>7. ASSUME NEW i \in 1 .. j PROVE f[i] = FormatFlag(fs[i], m, tm, ctx, z, f[i - 1])
    <3>1. CASE i = j
      <4>1. f[i - 1] = g[k]
        BY <2>4, <2>5, <3>1
      <4>2. f[j] = FormatFlag(fs[j], m, tm, ctx, z, g[k])
        BY <2>4, <2>5
      <4>3. QED
        BY <3>1, <4>1, <4>2
    <3>2. CASE i # j
      <4>1. f[i - 1] = g[i - 1] /\ f[i] = g[i] /\ i \in 1 .. k
        BY <2>4, <2>5, <3>2
      <4>2. g[i] = FormatFlag(fs[i], m, tm, ctx, z, g[i - 1])
        BY <2>3, <4>1 DEF AllAccs, Accs
      <4>3. QED
        BY <4>1, <4>2
    <3>3. QED
      BY <3>1, <3>2
  <2>8. AllAccs(f, fs, j, m, tm, ctx, z)
    BY <2>6, <2>7 DEF AllAccs, Accs
  <2>9. QED
    BY <1>2, <2>8
<1>5. QED
  BY <1>2, <1>3, <1>4, SMT

LEMMA RunIs ==
    ASSUME NEW fs, Len(fs) \in Nat, NEW m, NEW tm, NEW ctx, NEW z
    PROVE  Accs(Run(fs, m, tm, ctx, z), fs, Len(fs), m, tm, ctx, z)
<1> DEFINE Unfolded(g) == [i \in 0 .. Len(fs) |->
                              IF i = 0 THEN [dest |-> <<>>, range |-> <<0, 0>>, st |-> Fresh]
                                       ELSE FormatFlag(fs[i], m, tm, ctx, z, g[i - 1])]
           acc == CHOOSE g : g = Unfolded(g)
<1>1. \A i \in 0 .. Len(fs) : i = 0 <=> i \notin 1 .. Len(fs)
  BY SMT
<1>2. PICK g : AllAccs(g, fs, Len(fs), m, tm, ctx, z)
  BY AccsExist
<1>3. g = Unfolded(g)
  BY <1>1, <1>2 DEF AllAccs, Accs, Start
<1>4. acc = Unfolded(acc)
  BY <1>3
<1>5. Run(fs, m, tm, ctx, z) = acc
  BY DEF Run
<1>6. PICK f : f = acc
  OBVIOUS
<1>7. f = Unfolded(f) /\ Run(fs, m, tm, ctx, z) = f
  BY <1>4, <1>5, <1>6
<1>8. 0 \in 0 .. Len(fs) /\ \A i \in 1 .. Len(fs) : i \in 0 .. Len(fs) /\ i # 0
  BY SMT
<1>9. f[0] = Start
  BY <1>7, <1>8 DEF Start
<1>10. \A i \in 1 .. Len(fs) : f[i] = FormatFlag(fs[i], m, tm, ctx, z, f[i - 1])
  BY <1>7, <1>8
<1>11. QED
  BY <1>7, <1>9, <1>10 DEF Accs

(* The state a formatter is left in.                                       *)
NewState(f, m, tm, z) ==
    IF f.flag \in ElapsedFlags THEN [f.st EXCEPT !.secs = m.secs, !.nanos = m.nanos]
    ELSE IF f.flag = "z" /\ ~z THEN get_cached_offset(m, tm, f.st)
    ELSE IF f.flag = "+" THEN full_datetime(m, tm, f.st)
    ELSE f.st

LEMMA StateAfter ==
    ASSUME NEW f, NEW m, NEW tm, NEW ctx, NEW z \in BOOLEAN, NEW acc
    PROVE  FormatFlag(f, m, tm, ctx, z, acc).st = NewState(f, m, tm, z)
<1>1. CASE f.flag = "chars"
  BY <1>1 DEF FormatFlag, NewState, ElapsedFlags
<1>2. CASE f.flag \in ElapsedFlags
  BY <1>2 DEF FormatFlag, NewState, ElapsedFlags
<1>3. CASE f.flag = "z"
  BY <1>3 DEF FormatFlag, NewState, ElapsedFlags
<1>4. CASE f.flag = "&"
  BY <1>4 DEF FormatFlag, NewState, ElapsedFlags
<1>5. CASE f.flag \in {"^", "$"}
  BY <1>5 DEF FormatFlag, NewState, ElapsedFlags
<1>6. CASE f.flag = "+"
  BY <1>6 DEF FormatFlag, NewState, ElapsedFlags
<1>7. CASE f.flag \notin {"chars", "z", "&", "^", "$", "+"} \cup ElapsedFlags
  BY <1>7 DEF FormatFlag, NewState
<1>8. QED
  BY <1>1, <1>2, <1>3, <1>4, <1>5, <1>6, <1>7

(* The text of a flag without a state hangs on the calendar time only if   *)
(* the flag asks for it.                                                   *)
Plain == Kinds \ ({"chars", "z", "&", "^", "$", "+"} \cup ElapsedFlags)

LEMMA SameField ==
    ASSUME NEW f, NEW g, f.flag \in Plain, f.flag = g.flag, f.chars = g.chars, NEW m, NEW tm, NEW tn,
           f.flag \in TimeFlags => tm = tn
    PROVE  field_text(f, m, tm) = field_text(g, m, tn)
<1>1. CASE f.flag \in TimeFlags
  BY <1>1 DEF field_text
<1>2. CASE f.flag \notin TimeFlags
  <2>1. f.flag \in {"v", "custom", "n", "l", "L", "e", "f", "F", "E", "t", "P", "@", "s", "g", "#", "!"}
    BY <1>2 DEF Plain, Kinds, OtherFlags, ElapsedFlags
  <2>2. CASE f.flag = "v"
    BY <2>2 DEF field_text
  <2>3. CASE f.flag = "custom"
    BY <2>3 DEF field_text
  <2>4. CASE f.flag \in {"n", "l", "L"}
    BY <2>4 DEF field_text
  <2>5. CASE f.flag \in {"e", "f", "F", "E"}
    BY <2>5 DEF field_text
  <2>6. CASE f.flag \in {"t", "P"}
    BY <2>6 DEF field_text
  <2>7. CASE f.flag \in {"@", "s", "g", "#", "!"}
    BY <2>7 DEF field_text
  <2>8. QED
    BY <2>1, <2>2, <2>3, <2>4, <2>5, <2>6, <2>7
<1>3. QED
  BY <1>1, <1>2

LEMMA SameText ==
    ASSUME NEW f, NEW g, f.flag \in Kinds \ ({"z"} \cup ElapsedFlags),
           f.flag = g.flag, f.pad = g.pad, f.chars = g.chars,
           NEW m, NEW tm, NEW tn, f.flag \in TimeFlags => tm = tn,
           f.flag = "+" => full_datetime(m, tm, f.st).text = full_datetime(m, tn, g.st).text,
           NEW ctx, NEW z, NEW a, NEW b, a.dest = b.dest
    PROVE  FormatFlag(f, m, tm, ctx, z, a).dest = FormatFlag(g, m, tn, ctx, z, b).dest
<1>1. CASE f.flag = "chars"
  <2>1. literal_text(f) = literal_text(g)
    BY DEF literal_text
  <2>2. QED
    BY <1>1, <2>1 DEF FormatFlag, ElapsedFlags
<1>2. CASE f.flag = "&"
  BY <1>2 DEF FormatFlag, ElapsedFlags
<1>3. CASE f.flag \in {"^", "$"}
  BY <1>3 DEF FormatFlag, ElapsedFlags
<1>4. CASE f.flag = "+"
  <2>1. full_head(m, full_datetime(m, tm, f.st)) = full_head(m, full_datetime(m, tn, g.st))
    BY <1>4 DEF full_head
  <2>2. QED
    BY <1>4, <2>1 DEF FormatFlag, ElapsedFlags
<1>5. CASE f.flag \in Plain
  <2>1. field_text(f, m, tm) = field_text(g, m, tn)
    BY <1>5, SameField
  <2>2. f.flag \notin {"chars", "z", "&", "^", "$", "+"} \cup ElapsedFlags
    BY <1>5 DEF Plain
  <2>3. /\ FormatFlag(f, m, tm, ctx, z, a).dest = Padded(f.pad, a.dest, field_text(f, m, tm))
        /\ FormatFlag(g, m, tn, ctx, z, b).dest = Padded(g.pad, b.dest, field_text(g, m, tn))
    BY <2>2 DEF FormatFlag
  <2>4. QED
    BY <2>1, <2>3
<1>6. QED
  BY <1>1, <1>2, <1>3, <1>4, <1>5 DEF Plain

-----------------------------------------------------------------------------
(* The formatters are those the pattern compiles to, up to their states.   *)
Compiled(fs, p) ==
    fs = [i \in 1 .. Len(compile_pattern_(p)) |-> [compile_pattern_(p)[i] EXCEPT !.st = fs[i].st]]

LEMMA LengthOf ==
    ASSUME NEW n \in Nat, NEW f, f = [i \in 1 .. n |-> f[i]]
    PROVE  Len(f) = n /\ DOMAIN f = 1 .. n
<1>1. PICK S : S = {f[i] : i \in 1 .. n}
  OBVIOUS
<1>2. f \in [1 .. n -> S]
  BY <1>1
<1>3. f \in Seq(S)
  BY <1>2, SeqDef
<1>4. 1 .. Len(f) = 1 .. n /\ Len(f) \in Nat
  BY <1>2, <1>3, LenProperties
<1>5. QED
  BY <1>2, <1>4, SMT

LEMMA CompiledParts ==
    ASSUME NEW p \in Seq(Characters), NEW fs, Compiled(fs, p), NEW cs, cs = compile_pattern_(p)
    PROVE  /\ cs \in Seq(Unused)
           /\ Len(fs) \in Nat /\ Len(fs) = Len(cs) /\ DOMAIN fs = 1 .. Len(fs)
           /\ \A i \in 1 .. Len(fs) :
                 /\ cs[i] \in Unused /\ fs[i].flag \in Kinds /\ fs[i].pad \in Pads
                 /\ fs[i].chars \in Seq(Characters) /\ (fs[i].flag = "chars" => ~fs[i].pad.enabled)
                 /\ fs[i].flag = cs[i].flag /\ fs[i].pad = cs[i].pad /\ fs[i].chars = cs[i].chars
<1>1. cs \in Seq(Unused)
  BY CompiledIsUnused
<1>2. Len(cs) \in Nat /\ \A i \in 1 .. Len(cs) : cs[i] \in Unused
  BY <1>1, ElementOfSeq, LenProperties
<1>3. fs = [i \in 1 .. Len(cs) |-> [cs[i] EXCEPT !.st = fs[i].st]]
  BY Zenon DEF Compiled
<1>4. Len(fs) = Len(cs) /\ DOMAIN fs = 1 .. Len(cs)
  <2>1. fs = [i \in 1 .. Len(cs) |-> fs[i]]
    BY <1>3
  <2>2. QED
    BY <1>2, <2>1, LengthOf
<1>5. ASSUME NEW i \in 1 .. Len(cs)
      PROVE  /\ fs[i].flag \in Kinds /\ fs[i].pad \in Pads
             /\ fs[i].chars \in Seq(Characters) /\ (fs[i].flag = "chars" => ~fs[i].pad.enabled)
             /\ fs[i].flag = cs[i].flag /\ fs[i].pad = cs[i].pad /\ fs[i].chars = cs[i].chars
  <2>1. fs[i] = [cs[i] EXCEPT !.st = fs[i].st]
    BY <1>3
  <2>2. /\ cs[i].flag \in Kinds /\ cs[i].pad \in Pads
        /\ cs[i].chars \in Seq(Characters) /\ (cs[i].flag = "chars" => ~cs[i].pad.enabled)
        /\ cs[i] = [flag |-> cs[i].flag, pad |-> cs[i].pad, chars |-> cs[i].chars, st |-> cs[i].st]
    BY <1>2 DEF Unused
  <2>3. PICK st : st = fs[i].st
    OBVIOUS
  <2>4. fs[i] = [flag |-> cs[i].flag, pad |-> cs[i].pad, chars |-> cs[i].chars, st |-> st]
    BY <2>1, <2>2, <2>3
  <2>5. fs[i].flag = cs[i].flag /\ fs[i].pad = cs[i].pad /\ fs[i].chars = cs[i].chars
    BY <2>4
  <2>6. QED
    BY <2>2, <2>5
<1>6. QED
  BY <1>1, <1>2, <1>4, <1>5

LEMMA CompiledFresh ==
    ASSUME NEW p \in Seq(Characters)
    PROVE  /\ Compiled(compile_pattern_(p), p)
           /\ \A i \in 1 .. Len(compile_pattern_(p)) :
                 compile_pattern_(p)[i].st \in States
<1>1. PICK cs : cs = compile_pattern_(p)
  OBVIOUS
<1>2. cs \in Seq(Unused)
  BY <1>1, CompiledIsUnused
<1>3. cs \in [1 .. Len(cs) -> Unused]
  BY <1>2, LenProperties
<1>4. \A f \in Unused : f = [f EXCEPT !.st = f.st] /\ f.st \in States
  BY DEF Unused
<1>5. cs = [i \in 1 .. Len(cs) |-> [cs[i] EXCEPT !.st = cs[i].st]]
  BY <1>3, <1>4
<1>6. QED
  BY <1>1, <1>3, <1>4, <1>5 DEF Compiled

(* format moves the states on, and nothing else of the formatters.         *)
Moved(gs, fs, acc) == gs = [i \in DOMAIN fs |-> [fs[i] EXCEPT !.st = acc[i].st]]

LEMMA CompiledStep ==
    ASSUME NEW p \in Seq(Characters), NEW fs, Compiled(fs, p), NEW acc, NEW gs, Moved(gs, fs, acc)
    PROVE  /\ Compiled(gs, p) /\ Len(gs) = Len(fs) /\ DOMAIN gs = DOMAIN fs
           /\ \A i \in 1 .. Len(fs) :
                 gs[i].st = acc[i].st /\ gs[i].flag = fs[i].flag /\ gs[i].pad = fs[i].pad
<1>1. PICK cs : cs = compile_pattern_(p)
  OBVIOUS
<1>2. PICK n \in Nat : n = Len(fs)
  BY <1>1, CompiledParts
<1>3. /\ Len(cs) = n /\ DOMAIN fs = 1 .. n
      /\ \A i \in 1 .. n : cs[i] \in Unused /\ fs[i] = [cs[i] EXCEPT !.st = fs[i].st]
  <2>1. /\ Len(cs) = n /\ DOMAIN fs = 1 .. n
        /\ \A i \in 1 .. n : cs[i] \in Unused
    BY <1>1, <1>2, CompiledParts
  <2>2. fs = [i \in 1 .. n |-> [cs[i] EXCEPT !.st = fs[i].st]]
    BY <1>1, <2>1, Zenon DEF Compiled
  <2>3. QED
    BY <2>1, <2>2
<1>4. ASSUME NEW i \in 1 .. n
      PROVE  /\ gs[i] = [cs[i] EXCEPT !.st = gs[i].st]
             /\ gs[i].st = acc[i].st /\ gs[i].flag = fs[i].flag /\ gs[i].pad = fs[i].pad
  <2>1. PICK c, st, tt : c = cs[i] /\ st = fs[i].st /\ tt = acc[i].st
    OBVIOUS
  <2>2. c = [flag |-> c.flag, pad |-> c.pad, chars |-> c.chars, st |-> c.st]
    BY <1>3, <2>1 DEF Unused
  <2>3. fs[i] = [flag |-> c.flag, pad |-> c.pad, chars |-> c.chars, st |-> st]
    BY <1>3, <2>1, <2>2
  <2>4. gs[i] = [flag |-> c.flag, pad |-> c.pad, chars |-> c.chars, st |-> tt]
    BY <1>3, <2>1, <2>3 DEF Moved
  <2>5. [c EXCEPT !.st = tt] = [flag |-> c.flag, pad |-> c.pad, chars |-> c.chars, st |-> tt]
    BY <2>2
  <2>6. /\ gs[i].st = tt /\ gs[i].flag = c.flag /\ gs[i].pad = c.pad
        /\ fs[i].flag = c.flag /\ fs[i].pad = c.pad
    BY <2>3, <2>4
  <2>7. QED
    BY <2>1, <2>4, <2>5, <2>6
<1>5. gs = [i \in 1 .. n |-> gs[i]]
  BY <1>3 DEF Moved
<1>6. gs = [i \in 1 .. n |-> [cs[i] EXCEPT !.st = gs[i].st]]
  BY <1>4, <1>5
<1>7. Len(gs) = n /\ DOMAIN gs = 1 .. n
  BY <1>5, LengthOf
<1>8. QED
  BY <1>1, <1>2, <1>3, <1>4, <1>6, <1>7 DEF Compiled

-----------------------------------------------------------------------------
(* The caches are right: each holds what the second it is marked with      *)
(* gives, unless it is marked with second 0 and nothing else was ever seen.*)
TimeOf(secs, at_utc) == IF at_utc THEN gmtime[secs] ELSE localtime[secs]

LastOK(l) == l = [msg |-> l.msg, mdc |-> l.mdc, count |-> l.count] /\ l.count \in Nat
Typed == /\ utc \in BOOLEAN /\ need_localtime \in BOOLEAN
         /\ pattern \in Seq(Characters) /\ last_log_secs \in Nat
         /\ LastOK(last)
         /\ last.count = 0 => ~Formatted

StateOK(st) == st = [secs |-> st.secs, nanos |-> st.nanos, offset |-> st.offset, text |-> st.text]
               /\ st.secs \in Nat
StatesOK == \A i \in DOMAIN formatters : StateOK(formatters[i].st)

TimeKept == need_localtime \/ \A i \in DOMAIN formatters : formatters[i].flag \notin TimeFlags

CacheOK == cached_tm = TimeOf(last_log_secs, utc) \/ (last_log_secs = 0 /\ seen \subseteq {0})

FullOK == \A i \in DOMAIN formatters :
              formatters[i].flag = "+" =>
                  \/ formatters[i].st.text = <<>>
                  \/ formatters[i].st.text = datetime_text(TimeOf(formatters[i].st.secs, utc))
                  \/ formatters[i].st.secs = 0 /\ seen \subseteq {0}

ZoneOK == \A i \in DOMAIN formatters :
              formatters[i].flag = "z" /\ ~utc /\ formatters[i].st.secs # 0 =>
                  formatters[i].st.offset = localtime[formatters[i].st.secs].gmtoff \div 60

CacheInv == /\ Typed
            /\ Compiled(formatters, pattern)
            /\ StatesOK
            /\ TimeKept
            /\ CacheOK
            /\ FullOK
            /\ ZoneOK

LEMMA SecondsAreNat ==
    ASSUME NEW st, StateOK(st)
    PROVE  st.secs \in Nat
BY DEF StateOK

LEMMA TimedState ==
    ASSUME NEW st, StateOK(st), NEW s, NEW n
    PROVE  [st EXCEPT !.secs = s, !.nanos = n] =
               [secs |-> s, nanos |-> n, offset |-> st.offset, text |-> st.text]
<1>1. PICK a, b, c, d : a = st.secs /\ b = st.nanos /\ c = st.offset /\ d = st.text
  OBVIOUS
<1>2. st = [secs |-> a, nanos |-> b, offset |-> c, text |-> d]
  BY <1>1, Zenon DEF StateOK
<1>3. PICK q : q = [st EXCEPT !.secs = s]
  OBVIOUS
<1>4. q = [secs |-> s, nanos |-> b, offset |-> c, text |-> d]
  BY <1>2, <1>3, SMT
<1>5. PICK r : r = [q EXCEPT !.nanos = n]
  OBVIOUS
<1>6. r = [secs |-> s, nanos |-> n, offset |-> c, text |-> d]
  BY <1>4, <1>5, SMT
<1>7. [st EXCEPT !.secs = s, !.nanos = n] = r
  BY <1>3, <1>5, Zenon
<1>8. QED
  BY <1>1, <1>6, <1>7

LEMMA ZonedState ==
    ASSUME NEW st, StateOK(st), NEW s, NEW n, NEW o
    PROVE  [st EXCEPT !.secs = s, !.nanos = n, !.offset = o] =
               [secs |-> s, nanos |-> n, offset |-> o, text |-> st.text]
<1>1. PICK a, b, c, d : a = st.secs /\ b = st.nanos /\ c = st.offset /\ d = st.text
  OBVIOUS
<1>2. st = [secs |-> a, nanos |-> b, offset |-> c, text |-> d]
  BY <1>1, Zenon DEF StateOK
<1>3. PICK q : q = [st EXCEPT !.secs = s]
  OBVIOUS
<1>4. q = [secs |-> s, nanos |-> b, offset |-> c, text |-> d]
  BY <1>2, <1>3, SMT
<1>5. PICK r : r = [q EXCEPT !.nanos = n]
  OBVIOUS
<1>6. r = [secs |-> s, nanos |-> n, offset |-> c, text |-> d]
  BY <1>4, <1>5, SMT
<1>7. PICK p : p = [r EXCEPT !.offset = o]
  OBVIOUS
<1>8. p = [secs |-> s, nanos |-> n, offset |-> o, text |-> d]
  BY <1>6, <1>7, SMT
<1>9. [st EXCEPT !.secs = s, !.nanos = n, !.offset = o] = p
  BY <1>3, <1>5, <1>7, Zenon
<1>10. QED
  BY <1>1, <1>8, <1>9

LEMMA DatedState ==
    ASSUME NEW st, StateOK(st), NEW s, NEW t
    PROVE  [st EXCEPT !.secs = s, !.text = t] =
               [secs |-> s, nanos |-> st.nanos, offset |-> st.offset, text |-> t]
<1>1. PICK a, b, c, d : a = st.secs /\ b = st.nanos /\ c = st.offset /\ d = st.text
  OBVIOUS
<1>2. st = [secs |-> a, nanos |-> b, offset |-> c, text |-> d]
  BY <1>1, Zenon DEF StateOK
<1>3. PICK q : q = [st EXCEPT !.secs = s]
  OBVIOUS
<1>4. q = [secs |-> s, nanos |-> b, offset |-> c, text |-> d]
  BY <1>2, <1>3, SMT
<1>5. PICK r : r = [q EXCEPT !.text = t]
  OBVIOUS
<1>6. r = [secs |-> s, nanos |-> b, offset |-> c, text |-> t]
  BY <1>4, <1>5, SMT
<1>7. [st EXCEPT !.secs = s, !.text = t] = r
  BY <1>3, <1>5, Zenon
<1>8. QED
  BY <1>1, <1>6, <1>7

LEMMA CachedOffset ==
    ASSUME NEW st, StateOK(st), NEW m, NEW tm
    PROVE  \/ get_cached_offset(m, tm, st) = st
           \/ get_cached_offset(m, tm, st) =
                 [secs |-> m.secs, nanos |-> m.nanos, offset |-> tm.gmtoff \div 60, text |-> st.text]
<1>1. PICK r : r = [st EXCEPT !.secs = m.secs, !.nanos = m.nanos, !.offset = tm.gmtoff \div 60]
  OBVIOUS
<1>2. r = [secs |-> m.secs, nanos |-> m.nanos, offset |-> tm.gmtoff \div 60, text |-> st.text]
  BY <1>1, ZonedState
<1>3. get_cached_offset(m, tm, st) = st \/ get_cached_offset(m, tm, st) = r
  BY <1>1, Zenon DEF get_cached_offset
<1>4. QED
  BY <1>2, <1>3

LEMMA SecondsOf ==
    ASSUME NEW a \in Nat, NEW b, NEW c, NEW d
    PROVE  StateOK([secs |-> a, nanos |-> b, offset |-> c, text |-> d])
BY DEF StateOK

(* Freshly compiled formatters.                                            *)
LEMMA FreshStates ==
    ASSUME NEW p \in Seq(Characters), NEW i \in 1 .. Len(compile_pattern_(p))
    PROVE  LET f == compile_pattern_(p)[i]
           IN  /\ StateOK(f.st) /\ f.st.text = <<>>
               /\ f.flag = "z" => f.st.secs = 0
<1>1. PICK f : f = compile_pattern_(p)[i]
  OBVIOUS
<1>2. f \in Unused
  <2>1. compile_pattern_(p) \in Seq(Unused)
    BY CompiledIsUnused
  <2>2. QED
    BY <1>1, <2>1, ElementOfSeq
<1>3. f.st = IF f.flag \in ElapsedFlags THEN [Fresh EXCEPT !.secs = Now] ELSE Fresh
  BY <1>2 DEF Unused
<1>4. Now \in Nat
  BY EnvironmentAssumption
<1>5. StateOK(Fresh) /\ Fresh.text = <<>> /\ Fresh.secs = 0
  BY SMT DEF StateOK, Fresh
<1>6. [Fresh EXCEPT !.secs = Now] = [secs |-> Now, nanos |-> 0, offset |-> 0, text |-> <<>>]
  BY DEF Fresh
<1>7. StateOK([Fresh EXCEPT !.secs = Now]) /\ [Fresh EXCEPT !.secs = Now].text = <<>>
  BY <1>4, <1>6 DEF StateOK
<1>8. "z" \notin ElapsedFlags
  BY DEF ElapsedFlags
<1>9. QED
  BY <1>1, <1>3, <1>5, <1>7, <1>8

(* A formatter compiled anew, with the caches of a clock that is right.    *)
LEMMA CacheInvFresh ==
    ASSUME NEW p \in Seq(Characters), NEW fs, fs = compile_pattern_(p)
    PROVE  /\ Compiled(fs, p) /\ DOMAIN fs = 1 .. Len(fs)
           /\ \A i \in DOMAIN fs : StateOK(fs[i].st) /\ fs[i].st.text = <<>>
           /\ \A i \in DOMAIN fs : fs[i].flag = "z" => fs[i].st.secs = 0
<1>1. Compiled(fs, p)
  BY CompiledFresh
<1>2. DOMAIN fs = 1 .. Len(fs)
  BY <1>1, CompiledParts
<1>3. QED
  BY <1>1, <1>2, FreshStates

LEMMA CacheInvInit == Init => CacheInv
<1> SUFFICES ASSUME Init PROVE CacheInv
  OBVIOUS
<1>1. pattern \in Seq(Characters)
  BY PatternsAssumption DEF Init
<1>2. PICK fs : fs = formatters
  OBVIOUS
<1>3. fs = compile_pattern_(pattern)
  BY <1>2 DEF Init
<1>4. /\ Compiled(fs, pattern)
      /\ \A i \in DOMAIN fs : StateOK(fs[i].st) /\ fs[i].st.text = <<>>
      /\ \A i \in DOMAIN fs : fs[i].flag = "z" => fs[i].st.secs = 0
  BY <1>1, <1>3, CacheInvFresh
<1>5. Compiled(formatters, pattern) /\ StatesOK /\ FullOK /\ ZoneOK
  BY <1>2, <1>4 DEF StatesOK, FullOK, ZoneOK
<1>6. TimeKept
  BY DEF Init, NeedsTime, TimeKept
<1>7. CacheOK
  BY DEF Init, CacheOK
<1>8. Typed
  <2>1. PICK l : l = [msg |-> NoMsg, mdc |-> <<>>, count |-> 0]
    OBVIOUS
  <2>2. LastOK(l) /\ l.msg = NoMsg
    BY <2>1 DEF LastOK
  <2>3. last = l
    BY <2>1 DEF Init
  <2>4. QED
    BY <1>1, <2>2, <2>3 DEF Init, Typed, Formatted, NeedsTime
<1>9. QED
  BY <1>5, <1>6, <1>7, <1>8 DEF CacheInv

(* set_pattern and clone.                                                  *)
LEMMA CacheInvRecompiled ==
    ASSUME CacheInv, NEW p \in Seq(Characters), NEW need \in BOOLEAN, Recompiled(p, need),
           CacheOK', last_log_secs' \in Nat
    PROVE  CacheInv' /\ ~Formatted'
<1>1. PICK fs : fs = formatters'
  OBVIOUS
<1>2. fs = compile_pattern_(p) /\ pattern' = p
  BY <1>1 DEF Recompiled
<1>3. /\ Compiled(fs, p)
      /\ \A i \in DOMAIN fs : StateOK(fs[i].st) /\ fs[i].st.text = <<>>
      /\ \A i \in DOMAIN fs : fs[i].flag = "z" => fs[i].st.secs = 0
  BY <1>2, CacheInvFresh
<1>4. Compiled(formatters', pattern') /\ StatesOK' /\ FullOK' /\ ZoneOK'
  BY <1>1, <1>2, <1>3 DEF StatesOK, FullOK, ZoneOK
<1>5. TimeKept'
  BY DEF Recompiled, NeedsTime, TimeKept
<1>6. ~Formatted'
  BY DEF Recompiled, Formatted, CacheInv, Typed
<1>7. Typed'
  <2>1. PICK l : l = last
    OBVIOUS
  <2>2. LastOK(l)
    BY <2>1 DEF CacheInv, Typed
  <2>3. PICK r : r = [l EXCEPT !.msg = NoMsg]
    OBVIOUS
  <2>4. r = [msg |-> NoMsg, mdc |-> l.mdc, count |-> l.count]
    BY <2>2, <2>3 DEF LastOK
  <2>5. LastOK(r)
    BY <2>2, <2>4 DEF LastOK
  <2>6. LastOK(last')
    BY <2>1, <2>3, <2>5 DEF Recompiled
  <2>7. utc' \in BOOLEAN /\ need_localtime' \in BOOLEAN /\ pattern' \in Seq(Characters)
    BY <1>2 DEF Recompiled, CacheInv, Typed, NeedsTime
  <2>8. QED
    BY <1>6, <2>6, <2>7 DEF Typed
<1>8. QED
  BY <1>4, <1>5, <1>6, <1>7 DEF CacheInv

(* What a call of format does, with the calendar time it uses.             *)
Formats(m, tm, acc, u) ==
    /\ Accs(acc, formatters, Len(formatters), m, tm, mdc, u)
    /\ tm = IF need_localtime /\ m.secs # last_log_secs THEN TimeOf(m.secs, u) ELSE cached_tm
    /\ cached_tm' = tm
    /\ last_log_secs' = IF need_localtime /\ m.secs # last_log_secs THEN m.secs ELSE last_log_secs
    /\ Moved(formatters', formatters, acc)
    /\ dest' = acc[Len(formatters)].dest \o Nl
    /\ range' = acc[Len(formatters)].range
    /\ steps' = [i \in DOMAIN formatters |-> [before |-> acc[i - 1].dest, after |-> acc[i].dest]]
    /\ seen' = IF need_localtime THEN seen \cup {m.secs} ELSE seen
    /\ u = utc /\ utc' = u
    /\ last'.msg = m /\ last'.mdc = mdc
    /\ pattern' = pattern /\ need_localtime' = need_localtime

LEMMA FormatDoes ==
    ASSUME CacheInv, NEW m \in Messages, format(m)
    PROVE  \E tm, acc, u : Formats(m, tm, acc, u) /\ u \in BOOLEAN
<1>1. PICK u \in BOOLEAN : u = utc
  BY DEF CacheInv, Typed
<1>2. PICK tm : tm = IF need_localtime /\ m.secs # last_log_secs THEN get_time_(m) ELSE cached_tm
  OBVIOUS
<1>3. PICK acc : acc = Run(formatters, m, tm, mdc, u)
  OBVIOUS
<1>4. Len(formatters) \in Nat
  BY CompiledParts DEF CacheInv, Typed
<1>5. Accs(acc, formatters, Len(formatters), m, tm, mdc, u)
  BY <1>3, <1>4, RunIs
<1>6. tm = IF need_localtime /\ m.secs # last_log_secs THEN TimeOf(m.secs, u) ELSE cached_tm
  BY <1>1, <1>2 DEF TimeOf, get_time_
<1>7. /\ cached_tm' = tm
      /\ Moved(formatters', formatters, acc)
      /\ dest' = acc[Len(formatters)].dest \o Nl
      /\ range' = acc[Len(formatters)].range
      /\ steps' = [i \in DOMAIN formatters |-> [before |-> acc[i - 1].dest, after |-> acc[i].dest]]
  BY <1>1, <1>2, <1>3 DEF format, Moved
<1>8. QED
  BY <1>1, <1>5, <1>6, <1>7 DEF Formats, format

(* The time a flag is given is the message's, unless it is second 0 and no *)
(* other second has been seen.                                             *)
LEMMA TimeIsRight ==
    ASSUME CacheInv, NEW m \in Messages, NEW tm, NEW acc, NEW u, Formats(m, tm, acc, u), need_localtime
    PROVE  /\ tm = TimeOf(m.secs, u) \/ (m.secs = 0 /\ seen' \subseteq {0})
           /\ m.secs \in seen'
           /\ seen' \subseteq {0} => m.secs = 0 /\ seen \subseteq {0}
<1>1. seen' = seen \cup {m.secs}
  BY DEF Formats
<1>2. CASE m.secs # last_log_secs
  BY <1>1, <1>2 DEF Formats
<1>3. CASE m.secs = last_log_secs
  <2>1. tm = cached_tm
    BY <1>3 DEF Formats
  <2>2. cached_tm = TimeOf(last_log_secs, utc) \/ (last_log_secs = 0 /\ seen \subseteq {0})
    BY DEF CacheInv, CacheOK
  <2>3. QED
    BY <1>1, <1>3, <2>1, <2>2 DEF Formats
<1>4. QED
  BY <1>2, <1>3

(* The date and time that %+ shows.                                        *)
LEMMA DatetimeIsRight ==
    ASSUME CacheInv, NEW m \in Messages, NEW tm, NEW acc, NEW u, Formats(m, tm, acc, u),
           NEW i \in DOMAIN formatters, formatters[i].flag = "+"
    PROVE  LET st == full_datetime(m, tm, formatters[i].st)
           IN  /\ st.secs = m.secs
               /\ st.text = datetime_text(TimeOf(m.secs, u)) \/ (m.secs = 0 /\ seen' \subseteq {0})
<1>1. need_localtime
  BY DEF CacheInv, TimeKept, TimeFlags
<1>2. PICK st : st = formatters[i].st
  OBVIOUS
<1>3. StateOK(st)
  BY <1>2 DEF CacheInv, StatesOK
<1>4. /\ tm = TimeOf(m.secs, u) \/ (m.secs = 0 /\ seen' \subseteq {0})
      /\ seen' \subseteq {0} => m.secs = 0
      /\ m.secs = 0 /\ seen \subseteq {0} => seen' \subseteq {0}
  <2>1. tm = TimeOf(m.secs, u) \/ (m.secs = 0 /\ seen' \subseteq {0})
    BY <1>1, TimeIsRight
  <2>2. seen' = seen \cup {m.secs}
    BY <1>1 DEF Formats
  <2>3. QED
    BY <2>1, <2>2
<1>5. CASE st.secs # m.secs \/ st.text = <<>>
  <2>1. full_datetime(m, tm, st) = [secs |-> m.secs, nanos |-> st.nanos, offset |-> st.offset,
                                    text |-> datetime_text(tm)]
    BY <1>3, <1>5 DEF full_datetime, StateOK
  <2>2. QED
    BY <1>2, <1>4, <2>1
<1>6. CASE ~(st.secs # m.secs \/ st.text = <<>>)
  <2>1. full_datetime(m, tm, st) = st
    BY <1>6 DEF full_datetime
  <2>2. st.text = datetime_text(TimeOf(st.secs, utc)) \/ (st.secs = 0 /\ seen \subseteq {0})
    BY <1>2, <1>6 DEF CacheInv, FullOK
  <2>3. QED
    BY <1>2, <1>4, <1>6, <2>1, <2>2 DEF Formats
<1>7. QED
  BY <1>5, <1>6

LEMMA CacheInvFormat ==
    ASSUME CacheInv, NEW m \in Messages, format(m)
    PROVE  CacheInv'
<1>1. PICK tm, acc, u : Formats(m, tm, acc, u) /\ u \in BOOLEAN
  BY FormatDoes
<1>2. PICK fs, gs, p : fs = formatters /\ gs = formatters' /\ p = pattern
  OBVIOUS
<1>3. PICK n \in Nat : n = Len(fs)
  BY <1>2, CompiledParts DEF CacheInv, Typed
<1>4. /\ p \in Seq(Characters) /\ Compiled(fs, p)
      /\ Accs(acc, fs, n, m, tm, mdc, u)
      /\ Moved(gs, fs, acc)
  BY <1>1, <1>2, <1>3 DEF CacheInv, Typed, Formats
<1>16. pattern' = p /\ u = utc /\ utc' = u
  BY <1>1, <1>2 DEF Formats
<1>5. /\ Compiled(gs, p) /\ DOMAIN gs = 1 .. n /\ DOMAIN fs = 1 .. n
      /\ \A i \in 1 .. n : gs[i].st = acc[i].st /\ gs[i].flag = fs[i].flag
  <2>1. /\ Compiled(gs, p) /\ DOMAIN gs = DOMAIN fs
        /\ \A i \in 1 .. Len(fs) : gs[i].st = acc[i].st /\ gs[i].flag = fs[i].flag
    BY <1>4, CompiledStep
  <2>2. DOMAIN fs = 1 .. Len(fs)
    BY <1>4, CompiledParts
  <2>3. QED
    BY <1>3, <2>1, <2>2
<1>6. \A i \in 1 .. n : gs[i].st = NewState(fs[i], m, tm, u)
  <2> TAKE i \in 1 .. n
  <2>1. PICK a, b : a = acc[i - 1] /\ b = acc[i]
    OBVIOUS
  <2>2. b = FormatFlag(fs[i], m, tm, mdc, u, a)
    BY <1>4, <2>1, Zenon DEF Accs
  <2>3. b.st = NewState(fs[i], m, tm, u)
    BY <1>1, <2>2, StateAfter
  <2>4. QED
    BY <1>5, <2>1, <2>3
<1>7. m.secs \in Nat
  BY SecondsAssumption
<1>8. Compiled(formatters', pattern')
  BY <1>2, <1>16, <1>5
<1>9. Typed'
  <2>1. utc' \in BOOLEAN /\ need_localtime' \in BOOLEAN /\ pattern' \in Seq(Characters)
    BY <1>1, <1>4, <1>16 DEF CacheInv, Typed, Formats
  <2>2. last_log_secs' \in Nat
    BY <1>1, <1>7 DEF Formats, CacheInv, Typed
  <2>3. PICK k \in Nat : k = last.count
    BY DEF CacheInv, Typed, LastOK
  <2>4. PICK r : r = [msg |-> m, mdc |-> mdc, count |-> k + 1]
    OBVIOUS
  <2>5. k + 1 \in Nat /\ k + 1 # 0
    BY <2>3, SMT
  <2>6. LastOK(r) /\ r.count # 0
    BY <2>4, <2>5 DEF LastOK
  <2>7. last' = r
    BY <2>3, <2>4 DEF format
  <2>8. QED
    BY <2>1, <2>2, <2>6, <2>7 DEF Typed
<1>10. StatesOK'
  <2>1. ASSUME NEW i \in 1 .. n PROVE StateOK(gs[i].st)
    <3>1. PICK st : st = fs[i].st
      OBVIOUS
    <3>2. StateOK(st)
      BY <1>2, <1>5, <3>1 DEF CacheInv, StatesOK
    <3>3. StateOK([st EXCEPT !.secs = m.secs, !.nanos = m.nanos])
      <4>1. [st EXCEPT !.secs = m.secs, !.nanos = m.nanos] =
               [secs |-> m.secs, nanos |-> m.nanos, offset |-> st.offset, text |-> st.text]
        BY <3>2, TimedState
      <4>2. QED
        BY <1>7, <4>1, SecondsOf
    <3>4. StateOK(get_cached_offset(m, tm, st))
      <4>1. StateOK([secs |-> m.secs, nanos |-> m.nanos, offset |-> tm.gmtoff \div 60, text |-> st.text])
        BY <1>7, SecondsOf
      <4>2. QED
        BY <3>2, <4>1, CachedOffset
    <3>5. StateOK(full_datetime(m, tm, st))
      <4>1. [st EXCEPT !.secs = m.secs, !.text = datetime_text(tm)] =
               [secs |-> m.secs, nanos |-> st.nanos, offset |-> st.offset, text |-> datetime_text(tm)]
        BY <3>2, DatedState
      <4>2. StateOK([st EXCEPT !.secs = m.secs, !.text = datetime_text(tm)])
        BY <1>7, <4>1, SecondsOf
      <4>3. QED
        BY <3>2, <4>2 DEF full_datetime
    <3>6. QED
      BY <1>6, <3>1, <3>2, <3>3, <3>4, <3>5 DEF NewState
  <2>2. QED
    BY <1>2, <1>5, <2>1 DEF StatesOK
<1>11. TimeKept'
  <2>1. CASE need_localtime
    BY <1>1, <2>1 DEF Formats, TimeKept
  <2>2. CASE ~need_localtime
    BY <1>2, <1>5, <2>2 DEF CacheInv, TimeKept
  <2>3. QED
    BY <2>1, <2>2
<1>12. CacheOK'
  <2>1. CASE need_localtime /\ m.secs # last_log_secs
    BY <1>1, <2>1 DEF Formats, CacheOK
  <2>2. CASE ~(need_localtime /\ m.secs # last_log_secs)
    <3>1. cached_tm' = cached_tm /\ last_log_secs' = last_log_secs
      BY <1>1, <2>2 DEF Formats
    <3>2. last_log_secs = 0 /\ seen \subseteq {0} => seen' \subseteq {0}
      BY <1>1, <2>2 DEF Formats
    <3>3. QED
      BY <1>16, <3>1, <3>2 DEF CacheInv, CacheOK
  <2>3. QED
    BY <2>1, <2>2
<1>13. FullOK'
  <2>1. ASSUME NEW i \in 1 .. n, gs[i].flag = "+"
        PROVE  \/ gs[i].st.text = datetime_text(TimeOf(gs[i].st.secs, u))
               \/ gs[i].st.secs = 0 /\ seen' \subseteq {0}
    <3>1. i \in DOMAIN formatters /\ formatters[i].flag = "+"
      BY <1>2, <1>5, <2>1
    <3>2. gs[i].st = full_datetime(m, tm, formatters[i].st)
      BY <1>2, <1>5, <1>6, <2>1 DEF NewState, ElapsedFlags
    <3>3. PICK st : st = full_datetime(m, tm, formatters[i].st)
      OBVIOUS
    <3>4. /\ st.secs = m.secs
          /\ st.text = datetime_text(TimeOf(m.secs, u)) \/ (m.secs = 0 /\ seen' \subseteq {0})
      BY <1>1, <3>1, <3>3, DatetimeIsRight
    <3>5. QED
      BY <3>2, <3>3, <3>4
  <2>2. QED
    BY <1>2, <1>16, <1>5, <2>1 DEF FullOK
<1>14. ZoneOK'
  <2>1. ASSUME NEW i \in 1 .. n, gs[i].flag = "z", ~u, gs[i].st.secs # 0
        PROVE  gs[i].st.offset = localtime[gs[i].st.secs].gmtoff \div 60
    <3>1. PICK st, tt : st = fs[i].st /\ tt = gs[i].st
      OBVIOUS
    <3>2. need_localtime
      BY <1>2, <1>5, <2>1 DEF CacheInv, TimeKept, TimeFlags
    <3>3. StateOK(st) /\ (st.secs # 0 => st.offset = localtime[st.secs].gmtoff \div 60)
      BY <1>2, <1>16, <1>5, <2>1, <3>1 DEF CacheInv, StatesOK, ZoneOK
    <3>4. tt = get_cached_offset(m, tm, st)
      BY <1>5, <1>6, <2>1, <3>1 DEF NewState, ElapsedFlags
    <3>5. tt = st \/ tt = [secs |-> m.secs, nanos |-> m.nanos, offset |-> tm.gmtoff \div 60, text |-> st.text]
      BY <3>3, <3>4, CachedOffset
    <3>6. CASE tt = st
      BY <2>1, <3>1, <3>3, <3>6
    <3>7. CASE tt = [secs |-> m.secs, nanos |-> m.nanos, offset |-> tm.gmtoff \div 60, text |-> st.text]
      <4>1. tt.secs = m.secs /\ tt.offset = tm.gmtoff \div 60
        BY <3>7
      <4>2. tm = TimeOf(m.secs, u)
        BY <1>1, <2>1, <3>1, <3>2, <4>1, TimeIsRight
      <4>3. tm = localtime[m.secs]
        BY <2>1, <4>2 DEF TimeOf
      <4>4. QED
        BY <3>1, <4>1, <4>3
    <3>8. QED
      BY <3>5, <3>6, <3>7
  <2>2. QED
    BY <1>2, <1>16, <1>5, <2>1 DEF ZoneOK
<1>15. QED
  BY <1>8, <1>9, <1>10, <1>11, <1>12, <1>13, <1>14 DEF CacheInv

(* A message formatted now reads as in a formatter made for it alone.      *)
LEMMA ReadsAsFresh ==
    ASSUME CacheInv, NEW m \in Messages, NEW tm, NEW acc, NEW u \in BOOLEAN, Formats(m, tm, acc, u),
           Stateless, m.secs # 0 \/ seen' # {0}
    PROVE  LET fresh == compile_pattern_(pattern)
           IN  acc[Len(formatters)].dest = Run(fresh, m, TimeOf(m.secs, u), mdc, u)[Len(fresh)].dest
<1>1. PICK fs, cs, tn, racc : /\ fs = formatters /\ cs = compile_pattern_(pattern)
                             /\ tn = TimeOf(m.secs, u) /\ racc = Run(cs, m, tn, mdc, u)
  OBVIOUS
<1>2. PICK n \in Nat : n = Len(fs)
  BY <1>1, CompiledParts DEF CacheInv, Typed
<1>3. /\ cs \in Seq(Unused) /\ Len(cs) = n /\ DOMAIN fs = 1 .. n
      /\ \A i \in 1 .. n : /\ cs[i] \in Unused /\ fs[i].flag \in Kinds
                           /\ fs[i].flag = cs[i].flag /\ fs[i].pad = cs[i].pad /\ fs[i].chars = cs[i].chars
  <2>1. PICK p \in Seq(Characters) : p = pattern
    BY DEF CacheInv, Typed
  <2>2. Compiled(fs, p) /\ cs = compile_pattern_(p)
    BY <1>1, <2>1 DEF CacheInv
  <2>3. QED
    BY <1>2, <2>1, <2>2, CompiledParts
<1>4. Accs(acc, fs, n, m, tm, mdc, u) /\ Accs(racc, cs, n, m, tn, mdc, u)
  BY <1>1, <1>2, <1>3, RunIs DEF Formats
<1>5. need_localtime => tm = tn
  <2> SUFFICES ASSUME need_localtime, m.secs = 0, seen' \subseteq {0} PROVE FALSE
    BY <1>1, TimeIsRight
  <2>1. 0 \in seen'
    BY TimeIsRight
  <2>2. seen' = {0}
    BY <2>1
  <2>3. QED
    BY <2>2
<1>6. ASSUME NEW i \in 1 .. n, acc[i - 1].dest = racc[i - 1].dest
      PROVE  acc[i].dest = racc[i].dest
  <2>1. /\ acc[i] = FormatFlag(fs[i], m, tm, mdc, u, acc[i - 1])
        /\ racc[i] = FormatFlag(cs[i], m, tn, mdc, u, racc[i - 1])
    BY <1>4 DEF Accs
  <2>2. fs[i].flag \in Kinds \ ({"z"} \cup ElapsedFlags)
    BY <1>1, <1>3 DEF Stateless
  <2>3. fs[i].flag \in TimeFlags => tm = tn
    BY <1>1, <1>3, <1>5 DEF CacheInv, TimeKept
  <2>4. ASSUME fs[i].flag = "+"
        PROVE  full_datetime(m, tm, fs[i].st).text = full_datetime(m, tn, cs[i].st).text
    <3>1. full_datetime(m, tm, fs[i].st).text = datetime_text(tn)
      <4>1. \/ full_datetime(m, tm, fs[i].st).text = datetime_text(tn)
            \/ m.secs = 0 /\ seen' \subseteq {0}
        BY <1>1, <1>3, <2>4, DatetimeIsRight
      <4>2. ~(m.secs = 0 /\ seen' \subseteq {0})
        <5>1. need_localtime
          BY <1>1, <1>3, <2>4 DEF CacheInv, TimeKept, TimeFlags
        <5>2. m.secs \in seen'
          BY <5>1, TimeIsRight
        <5>3. QED
          BY <5>2
      <4>3. QED
        BY <4>1, <4>2
    <3>2. cs[i].st = Fresh
      BY <1>3, <2>4 DEF Unused, ElapsedFlags
    <3>3. full_datetime(m, tn, Fresh) = [secs |-> m.secs, nanos |-> 0, offset |-> 0, text |-> datetime_text(tn)]
      BY DEF full_datetime, Fresh
    <3>4. QED
      BY <3>1, <3>2, <3>3
  <2>5. PICK f, g, a, b : f = fs[i] /\ g = cs[i] /\ a = acc[i - 1] /\ b = racc[i - 1]
    OBVIOUS
  <2>6. f.flag = g.flag /\ f.pad = g.pad /\ f.chars = g.chars
    BY <1>3, <2>5
  <2>7. FormatFlag(f, m, tm, mdc, u, a).dest = FormatFlag(g, m, tn, mdc, u, b).dest
    BY <1>6, <2>2, <2>3, <2>4, <2>5, <2>6, SameText
  <2>8. QED
    BY <2>1, <2>5, <2>7
<1>7. acc[n].dest = racc[n].dest
  <2> DEFINE S == {i \in 0 .. n : acc[i].dest # racc[i].dest}
  <2> SUFFICES ASSUME acc[n].dest # racc[n].dest PROVE FALSE
    OBVIOUS
  <2>1. PICK i \in S : \A k \in S : ~(k < i)
    <3>1. n \in 0 .. n /\ S \subseteq Nat
      BY SMT
    <3>2. n \in S
      BY <3>1
    <3>3. QED
      BY <3>1, <3>2, LeastElement
  <2>2. i # 0
    BY <1>4, <2>1 DEF Accs
  <2>3. i \in 1 .. n /\ i - 1 \in 0 .. n /\ i - 1 < i
    BY <2>1, <2>2, SMT
  <2>4. acc[i - 1].dest = racc[i - 1].dest
    BY <2>1, <2>3
  <2>5. QED
    BY <1>6, <2>1, <2>3, <2>4
<1>8. QED
  BY <1>1, <1>2, <1>3, <1>7

(* %z shows an offset at most ten seconds old.                             *)
LEMMA OffsetIsRecent ==
    ASSUME CacheInv, NEW m \in Messages, NEW tm, NEW acc, NEW u \in BOOLEAN, Formats(m, tm, acc, u), ~u,
           NEW i \in DOMAIN formatters', formatters'[i].flag = "z"
    PROVE  m.secs - formatters'[i].st.secs <= 10
<1>1. PICK fs, gs : fs = formatters /\ gs = formatters'
  OBVIOUS
<1>2. PICK n \in Nat : n = Len(fs)
  BY <1>1, CompiledParts DEF CacheInv, Typed
<1>3. /\ DOMAIN fs = 1 .. n /\ DOMAIN gs = 1 .. n
      /\ \A k \in 1 .. n : gs[k].st = acc[k].st /\ gs[k].flag = fs[k].flag
      /\ Accs(acc, fs, n, m, tm, mdc, u)
  BY <1>1, <1>2, CompiledStep, CompiledParts DEF CacheInv, Typed, Formats
<1>4. i \in 1 .. n /\ fs[i].flag = "z"
  BY <1>1, <1>3
<1>5. PICK a, b, f : a = acc[i - 1] /\ b = acc[i] /\ f = fs[i] /\ b = FormatFlag(f, m, tm, mdc, u, a)
  BY <1>3, <1>4, Zenon DEF Accs
<1>6. PICK st, tt : st = f.st /\ tt = b.st /\ tt = gs[i].st
  BY <1>3, <1>4, <1>5
<1>7. tt = get_cached_offset(m, tm, st)
  <2>1. b.st = NewState(f, m, tm, u)
    BY <1>5, StateAfter
  <2>2. f.flag = "z" /\ "z" \notin ElapsedFlags
    BY <1>4, <1>5 DEF ElapsedFlags
  <2>3. QED
    BY <1>6, <2>1, <2>2 DEF NewState
<1>8. StateOK(st)
  BY <1>1, <1>3, <1>4, <1>5, <1>6 DEF CacheInv, StatesOK
<1>9. PICK now \in Nat, then \in Nat : now = m.secs /\ then = st.secs
  BY <1>8, SecondsAssumption, SecondsAreNat
<1>10. CASE now - then > 10
  <2>1. tt = [st EXCEPT !.secs = m.secs, !.nanos = m.nanos, !.offset = tm.gmtoff \div 60]
    BY <1>7, <1>9, <1>10 DEF get_cached_offset
  <2>2. tt.secs = now
    BY <1>8, <1>9, <2>1 DEF StateOK
  <2>3. now - now <= 10
    BY <1>9, SMT
  <2>4. QED
    BY <1>1, <1>6, <1>9, <2>2, <2>3
<1>11. CASE ~(now - then > 10)
  <2>1. tt = st \/ tt = [st EXCEPT !.secs = m.secs, !.nanos = m.nanos, !.offset = tm.gmtoff \div 60]
    BY <1>7 DEF get_cached_offset
  <2>2. tt.secs = then \/ tt.secs = now
    BY <1>8, <1>9, <2>1 DEF StateOK
  <2>3. now - now <= 10 /\ now - then <= 10
    BY <1>9, <1>11, SMT
  <2>4. QED
    BY <1>1, <1>6, <1>9, <2>2, <2>3
<1>12. QED
  BY <1>10, <1>11

LEMMA CacheInvStep == CacheInv /\ TimeCacheInvisible /\ [Next]_vars => CacheInv' /\ TimeCacheInvisible'
<1> SUFFICES ASSUME CacheInv, TimeCacheInvisible, [Next]_vars
             PROVE  CacheInv' /\ TimeCacheInvisible'
  OBVIOUS
<1>1. ASSUME NEW m \in Messages, format(m) PROVE CacheInv' /\ TimeCacheInvisible'
  <2>1. CacheInv'
    BY <1>1, CacheInvFormat
  <2>2. PICK tm, acc, u : Formats(m, tm, acc, u) /\ u \in BOOLEAN
    BY <1>1, FormatDoes
  <2>3. ASSUME Stateless', m.secs # 0 \/ seen' # {0}
        PROVE  LET fresh == compile_pattern_(pattern)
               IN  dest' = Run(fresh, m, TimeOf(m.secs, u), mdc, u)[Len(fresh)].dest \o Nl
    <3>1. Stateless
      <4>1. PICK fs, gs : fs = formatters /\ gs = formatters'
        OBVIOUS
      <4>2. /\ DOMAIN gs = DOMAIN fs /\ DOMAIN fs = 1 .. Len(fs)
            /\ \A i \in 1 .. Len(fs) : gs[i].flag = fs[i].flag
        BY <2>2, <4>1, CompiledStep, CompiledParts DEF CacheInv, Typed, Formats
      <4>3. QED
        BY <2>3, <4>1, <4>2 DEF Stateless
    <3>2. LET fresh == compile_pattern_(pattern)
          IN  acc[Len(formatters)].dest = Run(fresh, m, TimeOf(m.secs, u), mdc, u)[Len(fresh)].dest
      BY <2>2, <2>3, <3>1, ReadsAsFresh
    <3>3. dest' = acc[Len(formatters)].dest \o Nl
      BY <2>2 DEF Formats
    <3>4. QED
      BY <3>2, <3>3
  <2>4. ASSUME NEW i \in DOMAIN formatters', formatters'[i].flag = "z", ~u
        PROVE  /\ m.secs - formatters'[i].st.secs <= 10
               /\ formatters'[i].st.secs # 0 =>
                     formatters'[i].st.offset = localtime[formatters'[i].st.secs].gmtoff \div 60
    <3>1. ~utc'
      BY <2>2, <2>4 DEF Formats
    <3>2. QED
      BY <2>1, <2>2, <2>4, <3>1, OffsetIsRecent DEF CacheInv, ZoneOK
  <2>5. /\ last'.msg = m /\ last'.mdc = mdc /\ utc' = u /\ pattern' = pattern
        /\ get_time_(last.msg)' = TimeOf(m.secs, u)
    BY <2>2 DEF Formats, get_time_, TimeOf
  <2>6. TimeCacheInvisible'
    BY <2>3, <2>4, <2>5 DEF TimeCacheInvisible
  <2>7. QED
    BY <2>1, <2>6
<1>2. ASSUME NEW q \in Repatterns, set_pattern(q) PROVE CacheInv' /\ TimeCacheInvisible'
  <2>1. q \in Seq(Characters)
    BY PatternsAssumption
  <2>2. Recompiled(q, FALSE)
    BY <1>2 DEF set_pattern
  <2>3. CacheOK' /\ last_log_secs' \in Nat
    BY <1>2 DEF set_pattern, Recompiled, CacheInv, CacheOK, Typed
  <2>4. CacheInv' /\ ~Formatted'
    BY <2>1, <2>2, <2>3, CacheInvRecompiled
  <2>5. QED
    BY <2>4 DEF TimeCacheInvisible
<1>3. CASE clone
  <2>1. pattern \in Seq(Characters) /\ need_localtime \in BOOLEAN
    BY DEF CacheInv, Typed
  <2>2. Recompiled(pattern, need_localtime)
    BY <1>3 DEF clone
  <2>3. CacheOK' /\ last_log_secs' \in Nat
    BY <1>3 DEF clone, CacheOK
  <2>4. CacheInv' /\ ~Formatted'
    BY <2>1, <2>2, <2>3, CacheInvRecompiled
  <2>5. QED
    BY <2>4 DEF TimeCacheInvisible
<1>4. ASSUME NEW ctx \in Contexts, SetContext(ctx) PROVE CacheInv' /\ TimeCacheInvisible'
  <2>1. /\ UNCHANGED <<pattern, formatters, need_localtime, last_log_secs, cached_tm, utc, last, seen>>
        /\ last.count = 0
    BY <1>4 DEF SetContext
  <2>2. CacheInv'
    BY <2>1 DEF CacheInv, Typed, Formatted, StatesOK, TimeKept, CacheOK, FullOK, ZoneOK
  <2>3. ~Formatted'
    BY <2>1 DEF CacheInv, Typed, Formatted
  <2>4. QED
    BY <2>2, <2>3 DEF TimeCacheInvisible
<1>5. CASE UNCHANGED vars
  BY <1>5 DEF vars, CacheInv, Typed, Formatted, StatesOK, TimeKept, CacheOK, FullOK, ZoneOK,
              TimeCacheInvisible, Stateless, get_time_
<1>6. QED
  BY <1>1, <1>2, <1>3, <1>4, <1>5 DEF Next

(* The caches of the formatter cannot be seen in what it writes.           *)
THEOREM CachesInvisible == Spec => []TimeCacheInvisible
<1>1. Init => CacheInv /\ TimeCacheInvisible
  BY CacheInvInit DEF Init, Formatted, TimeCacheInvisible
<1>2. QED
  BY <1>1, CacheInvStep, PTL DEF Spec

-----------------------------------------------------------------------------
(* Texts: sequences of whatever cells.                                     *)
IsText(t) == \E S : t \in Seq(S)
Begins(s, t) == Len(s) <= Len(t) /\ \A i \in 1 .. Len(s) : s[i] = t[i]

LEMMA TextLength ==
    ASSUME NEW t, IsText(t)
    PROVE  Len(t) \in Nat /\ Begins(t, t)
<1>1. PICK S : t \in Seq(S)
  BY DEF IsText
<1>2. Len(t) \in Nat
  BY <1>1, LenProperties
<1>3. QED
  BY <1>2, SMT DEF Begins

LEMMA TextByPlace ==
    ASSUME NEW n \in Nat, NEW t, t = [i \in 1 .. n |-> t[i]]
    PROVE  IsText(t) /\ Len(t) = n
<1>1. PICK S : S = {t[i] : i \in 1 .. n}
  OBVIOUS
<1>2. t \in [1 .. n -> S]
  BY <1>1
<1>3. t \in Seq(S)
  BY <1>2, SeqDef
<1>4. QED
  BY <1>3, LengthOf DEF IsText

LEMMA TextConcat ==
    ASSUME NEW s, IsText(s), NEW t, IsText(t)
    PROVE  /\ IsText(s \o t) /\ Len(s \o t) = Len(s) + Len(t)
           /\ Len(s) \in Nat /\ Len(t) \in Nat
           /\ Begins(s, s \o t)
<1>1. PICK A, B : s \in Seq(A) /\ t \in Seq(B)
  BY DEF IsText
<1>2. PICK C : C = A \cup B
  OBVIOUS
<1>3. s \in Seq(C) /\ t \in Seq(C)
  BY <1>1, <1>2, SeqMonotonic
<1>4. Len(s) \in Nat /\ Len(t) \in Nat
  BY <1>3, LenProperties
<1>5. /\ s \o t \in Seq(C) /\ Len(s \o t) = Len(s) + Len(t)
      /\ \A i \in 1 .. Len(s) + Len(t) : (s \o t)[i] = IF i <= Len(s) THEN s[i] ELSE t[i - Len(s)]
  BY <1>3, ConcatProperties
<1>6. \A i \in 1 .. Len(s) : i \in 1 .. Len(s) + Len(t) /\ i <= Len(s)
  BY <1>4, SMT
<1>7. Len(s) <= Len(s) + Len(t)
  BY <1>4, SMT
<1>8. Begins(s, s \o t)
  BY <1>5, <1>6, <1>7 DEF Begins
<1>9. QED
  BY <1>4, <1>5, <1>8 DEF IsText

LEMMA TextCut ==
    ASSUME NEW t, IsText(t), NEW n \in 0 .. Len(t)
    PROVE  /\ IsText(SubSeq(t, 1, n)) /\ Len(SubSeq(t, 1, n)) = n
           /\ \A s : IsText(s) /\ Len(s) <= n /\ Begins(s, t) => Begins(s, SubSeq(t, 1, n))
<1>1. PICK S : t \in Seq(S)
  BY DEF IsText
<1>2. Len(t) \in Nat /\ n \in Nat /\ \A i \in 1 .. n : i \in 1 .. Len(t) /\ t[i] \in S
  <2>1. Len(t) \in Nat
    BY <1>1, LenProperties
  <2>2. n \in Nat /\ \A i \in 1 .. n : i \in 1 .. Len(t)
    BY <2>1, SMT
  <2>3. QED
    BY <1>1, <2>1, <2>2, ElementOfSeq
<1>3. PICK u : u = SubSeq(t, 1, n)
  OBVIOUS
<1>4. u \in Seq(S) /\ Len(u) = n /\ \A i \in 1 .. n : u[i] = t[i]
  <2>1. /\ u \in Seq(S) /\ Len(u) = IF 1 <= n THEN n - 1 + 1 ELSE 0
        /\ \A i \in 1 .. n - 1 + 1 : u[i] = t[1 + i - 1]
    BY <1>2, <1>3, SubSeqProperties, 1 \in Int, n \in Int
  <2>2. n - 1 + 1 = n /\ (~(1 <= n) => n = 0)
    BY <1>2, SMT
  <2>3. \A i \in 1 .. n : 1 + i - 1 = i
    BY SMT
  <2>4. QED
    BY <2>1, <2>2, <2>3
<1>5. ASSUME NEW s, IsText(s), Len(s) <= n, Begins(s, t)
      PROVE  Begins(s, u)
  <2>1. Len(s) \in Nat
    BY <1>5, TextLength
  <2>2. \A i \in 1 .. Len(s) : i \in 1 .. n
    BY <1>2, <1>5, <2>1, SMT
  <2>3. QED
    BY <1>4, <1>5, <2>2 DEF Begins
<1>6. QED
  BY <1>3, <1>4, <1>5 DEF IsText

LEMMA BeginsTransitive ==
    ASSUME NEW r, IsText(r), NEW s, IsText(s), NEW t, IsText(t), Begins(r, s), Begins(s, t)
    PROVE  Begins(r, t)
<1>1. Len(r) \in Nat /\ Len(s) \in Nat /\ Len(t) \in Nat
  BY TextLength
<1>2. Len(r) <= Len(s) /\ Len(s) <= Len(t)
  BY DEF Begins
<1>3. Len(r) <= Len(t) /\ \A i \in 1 .. Len(r) : i \in 1 .. Len(s)
  BY <1>1, <1>2, SMT
<1>4. QED
  BY <1>3 DEF Begins

LEMMA BeginsIsPrefix ==
    ASSUME NEW s, IsText(s), NEW t, IsText(t), Begins(s, t)
    PROVE  IsPrefix(s, t)
<1>1. PICK n \in Nat : n = Len(s)
  BY TextLength
<1>2. n <= Len(t) /\ Len(t) \in Nat
  BY <1>1, TextLength DEF Begins
<1>3. SubSeq(s, 1, n) = s
  <2>1. PICK S : s \in Seq(S)
    BY DEF IsText
  <2>2. QED
    BY <1>1, <2>1, SubSeqFull
<1>4. PICK u : u = SubSeq(t, 1, n)
  OBVIOUS
<1>5. n \in 0 .. Len(t)
  BY <1>2, SMT
<1>6. IsText(u) /\ Len(u) = n /\ Begins(s, u)
  BY <1>1, <1>4, <1>5, TextCut
<1>7. u = s
  <2>1. PICK A, B : s \in Seq(A) /\ u \in Seq(B)
    BY <1>6 DEF IsText
  <2>2. s \in Seq(A \cup B) /\ u \in Seq(A \cup B)
    BY <2>1, SeqMonotonic
  <2>3. QED
    BY <1>1, <1>6, <2>2, SeqEqual DEF Begins
<1>8. QED
  BY <1>1, <1>2, <1>3, <1>4, <1>7 DEF IsPrefix

(* The padder.                                                             *)
LEMMA SpacesAreText ==
    ASSUME NEW n \in Nat
    PROVE  IsText(Spaces(n)) /\ Len(Spaces(n)) = n
<1>1. PICK t : t = Spaces(n)
  OBVIOUS
<1>2. t = [i \in 1 .. n |-> t[i]]
  BY <1>1 DEF Spaces
<1>3. QED
  BY <1>1, <1>2, TextByPlace

(* after is before with a field of the width that pad asks for.            *)
Fits(pad, before, after) ==
    /\ IsText(after) /\ Begins(before, after)
    /\ pad.enabled => /\ Len(after) - Len(before) >= pad.width
                      /\ pad.truncate => Len(after) - Len(before) = pad.width

LEMMA PaddedFits ==
    ASSUME NEW pad \in Pads, NEW before, IsText(before), NEW o, IsText(o.text), o.size = Len(o.text)
    PROVE  Fits(pad, before, Padded(pad, before, o))
<1>9. PICK text : text = o.text
  OBVIOUS
<1>1. PICK n \in Nat, b \in Nat : text = o.text /\ n = o.size /\ b = Len(before)
  BY <1>9, TextLength
<1>2. IsText(text) /\ Len(text) = n /\ IsText(before \o text) /\ Len(before \o text) = b + n
      /\ Begins(before, before \o text)
  BY <1>1, TextConcat
<1>3. PICK w \in Nat : w = pad.width
  <2>1. pad.width \in 0 .. 64
    BY DEF Pads, MaxWidth
  <2>2. \A k \in 0 .. 64 : k \in Nat
    BY SMT
  <2>3. QED
    BY <2>1, <2>2
<1>4. CASE ~pad.enabled
  BY <1>1, <1>2, <1>4 DEF Padded, Fits
<1>5. CASE pad.enabled /\ n <= w
  <2>1. PICK left : left = CASE pad.side = "left"   -> w - n
                             [] pad.side = "center" -> (w - n) \div 2
                             [] pad.side = "right"  -> 0
    OBVIOUS
  <2>2. left \in Nat /\ w - n - left \in Nat
    <3>1. PICK r \in Nat : r = w - n
      BY <1>5, SMT
    <3>2. left = r \/ left = r \div 2 \/ left = 0
      BY <2>1, <3>1 DEF Pads
    <3>3. r \div 2 \in Nat /\ r - r \div 2 \in Nat /\ r - r \in Nat /\ r - 0 \in Nat
      BY <3>1, SMT
    <3>4. QED
      BY <3>1, <3>2, <3>3
  <2>3. PICK s1, s2 : s1 = Spaces(left) /\ s2 = Spaces(w - n - left)
    OBVIOUS
  <2>4. IsText(s1) /\ Len(s1) = left /\ IsText(s2) /\ Len(s2) = w - n - left
    BY <2>2, <2>3, SpacesAreText
  <2>5. w - n >= 0
    BY <1>5, SMT
  <2>6. Padded(pad, before, o) = before \o s1 \o text \o s2
    BY <1>1, <1>3, <1>5, <2>1, <2>3, <2>5 DEF Padded, scoped_padder
  <2>7. PICK t1, t2, t3 : t1 = before \o s1 /\ t2 = t1 \o text /\ t3 = t2 \o s2
    OBVIOUS
  <2>8. IsText(t1) /\ Len(t1) = b + left /\ Begins(before, t1)
    BY <1>1, <2>4, <2>7, TextConcat
  <2>9. IsText(t2) /\ Len(t2) = b + left + n /\ Begins(t1, t2)
    BY <1>2, <2>7, <2>8, TextConcat
  <2>10. IsText(t3) /\ Len(t3) = b + w /\ Begins(t2, t3)
    <3>1. IsText(t3) /\ Len(t3) = Len(t2) + Len(s2) /\ Begins(t2, t3)
      BY <2>4, <2>7, <2>9, TextConcat
    <3>2. b + left + n + (w - n - left) = b + w
      BY <2>2, SMT
    <3>3. QED
      BY <2>4, <2>9, <3>1, <3>2
  <2>11. Begins(before, t3)
    BY <2>8, <2>9, <2>10, BeginsTransitive
  <2>12. b + w - b = w /\ b + w - b >= w
    BY SMT
  <2>13. QED
    BY <1>1, <1>3, <2>6, <2>7, <2>10, <2>11, <2>12 DEF Fits
<1>6. CASE pad.enabled /\ ~(n <= w) /\ ~pad.truncate
  <2>1. ~(w - n >= 0) /\ b + n - b >= w
    BY <1>6, SMT
  <2>2. Padded(pad, before, o) = before \o text
    BY <1>1, <1>3, <1>6, <2>1 DEF Padded, scoped_padder
  <2>3. QED
    BY <1>1, <1>2, <1>3, <1>6, <2>1, <2>2 DEF Fits
<1>7. CASE pad.enabled /\ ~(n <= w) /\ pad.truncate
  <2>1. /\ ~(w - n >= 0) /\ b + n + (w - n) = b + w /\ ~(b + w < 0)
        /\ b + w \in 0 .. b + n /\ b <= b + w /\ b + w - b = w /\ w >= w
    BY <1>7, SMT
  <2>2. Padded(pad, before, o) = SubSeq(before \o text, 1, b + w)
    BY <1>1, <1>2, <1>3, <1>7, <2>1 DEF Padded, scoped_padder
  <2>3. PICK t : t = SubSeq(before \o text, 1, b + w)
    OBVIOUS
  <2>4. IsText(t) /\ Len(t) = b + w /\ Begins(before, t)
    BY <1>1, <1>2, <2>1, <2>3, TextCut
  <2>5. Len(t) - Len(before) = w /\ Len(t) - Len(before) >= w
    BY <1>1, <2>1, <2>4
  <2>6. Fits(pad, before, t)
    BY <1>3, <2>4, <2>5 DEF Fits
  <2>7. QED
    BY <2>2, <2>3, <2>6
<1>8. QED
  BY <1>4, <1>5, <1>6, <1>7

-----------------------------------------------------------------------------
(* A function of the naturals that calls itself on smaller ones exists.    *)
(* next is the number it calls itself on, step what it makes of the result.*)
Follows(g, k, X, base, next, step) ==
    /\ g \in [0 .. k -> X]
    /\ \A n \in 0 .. k : g[n] = IF n \in DOMAIN base THEN base[n] ELSE step[n][g[next[n]]]

LEMMA FollowersAgree ==
    ASSUME NEW X, NEW base, NEW next \in [Nat -> Nat], \A n \in Nat \ DOMAIN base : next[n] < n,
           NEW step, NEW k \in Nat, NEW l \in Nat, NEW g, NEW h,
           Follows(g, k, X, base, next, step), Follows(h, l, X, base, next, step),
           NEW n \in Nat, n <= k, n <= l
    PROVE  g[n] = h[n]
<1> SUFFICES ASSUME g[n] # h[n] PROVE FALSE
  OBVIOUS
<1> DEFINE S == {i \in 0 .. n : g[i] # h[i]}
<1>1. PICK i \in S : \A j \in S : ~(j < i)
  <2>1. n \in 0 .. n /\ S \subseteq Nat
    BY SMT
  <2>2. QED
    BY <2>1, LeastElement
<1>2. i \in Nat /\ i \in 0 .. k /\ i \in 0 .. l
  BY <1>1, SMT
<1>3. i \notin DOMAIN base
  BY <1>1, <1>2 DEF Follows
<1>4. next[i] \in Nat /\ next[i] < i
  BY <1>2, <1>3
<1>5. PICK m : m = next[i]
  OBVIOUS
<1>6. m \in 0 .. n
  BY <1>1, <1>2, <1>4, <1>5, SMT
<1>7. g[m] = h[m]
  BY <1>1, <1>4, <1>5, <1>6
<1>8. g[i] = step[i][g[m]] /\ h[i] = step[i][h[m]]
  BY <1>2, <1>3, <1>5 DEF Follows
<1>9. QED
  BY <1>1, <1>7, <1>8

LEMMA FollowerExists ==
    ASSUME NEW X, NEW base, base \in [DOMAIN base -> X], NEW next \in [Nat -> Nat],
           \A n \in Nat \ DOMAIN base : next[n] < n,
           NEW step \in [Nat -> [X -> X]], NEW k \in Nat
    PROVE  \E g : Follows(g, k, X, base, next, step)
<1> DEFINE S == {i \in Nat : ~\E g : Follows(g, i, X, base, next, step)}
<1> SUFFICES ASSUME k \in S PROVE FALSE
  OBVIOUS
<1>1. PICK i \in S : \A j \in S : ~(j < i)
  BY LeastElement
<1>2. i \in Nat
  BY <1>1
<1>3. CASE i = 0
  <2>1. 0 \in DOMAIN base
    <3> SUFFICES ASSUME 0 \notin DOMAIN base PROVE FALSE
      OBVIOUS
    <3>1. next[0] \in Nat /\ next[0] < 0
      BY 0 \in Nat
    <3>2. \A x \in Nat : ~(x < 0)
      BY SMT
    <3>3. QED
      BY <3>1, <3>2
  <2>2. PICK g : g = [n \in 0 .. 0 |-> base[0]]
    OBVIOUS
  <2>3. base[0] \in X /\ \A n \in 0 .. 0 : n = 0
    BY <2>1, SMT
  <2>4. Follows(g, 0, X, base, next, step)
    BY <2>1, <2>2, <2>3 DEF Follows
  <2>5. QED
    BY <1>1, <1>3, <2>4
<1>4. CASE i # 0
  <2>1. i - 1 \in Nat /\ i - 1 < i /\ \A n \in 0 .. i : n # i => n \in 0 .. i - 1
    <3>1. PICK j \in Nat : j = i /\ j # 0
      BY <1>2, <1>4
    <3>2. j - 1 \in Nat /\ j - 1 < j
      BY <3>1, SMT
    <3>3. \A n \in 0 .. j : n # j => n \in 0 .. j - 1
      BY <3>1, SMT
    <3>4. QED
      BY <3>1, <3>2, <3>3
  <2>2. PICK g : Follows(g, i - 1, X, base, next, step)
    BY <1>1, <2>1
  <2>3. PICK x : x = IF i \in DOMAIN base THEN base[i] ELSE step[i][g[next[i]]]
    OBVIOUS
  <2>4. i \notin DOMAIN base => next[i] \in 0 .. i - 1
    <3> SUFFICES ASSUME i \notin DOMAIN base PROVE next[i] \in 0 .. i - 1
      OBVIOUS
    <3>1. next[i] \in Nat /\ next[i] < i
      BY <1>2
    <3>2. \A y \in Nat : y < i => y \in 0 .. i - 1
      BY <1>2, SMT
    <3>3. QED
      BY <3>1, <3>2
  <2>5. x \in X
    <3>1. CASE i \in DOMAIN base
      BY <2>3, <3>1
    <3>2. CASE i \notin DOMAIN base
      <4>1. g[next[i]] \in X
        BY <2>2, <2>4, <3>2 DEF Follows
      <4>2. QED
        BY <1>2, <2>3, <3>2, <4>1
    <3>3. QED
      BY <3>1, <3>2
  <2>6. PICK h : h = [n \in 0 .. i |-> IF n = i THEN x ELSE g[n]]
    OBVIOUS
  <2>7. h \in [0 .. i -> X]
    BY <2>1, <2>2, <2>5, <2>6 DEF Follows
  <2>8. ASSUME NEW n \in 0 .. i
        PROVE  h[n] = IF n \in DOMAIN base THEN base[n] ELSE step[n][h[next[n]]]
    <3>1. CASE n = i
      <4>1. h[n] = x
        BY <2>6, <3>1
      <4>2. i \notin DOMAIN base => h[next[i]] = g[next[i]]
        <5>1. \A y \in 0 .. i - 1 : y \in 0 .. i /\ y # i
          BY <1>2, SMT
        <5>2. QED
          BY <2>4, <2>6, <5>1
      <4>3. QED
        BY <2>3, <3>1, <4>1, <4>2
    <3>2. CASE n # i
      <4>1. n \in 0 .. i - 1 /\ h[n] = g[n] /\ n \in Nat
        BY <2>1, <2>6, <3>2, SMT
      <4>2. g[n] = IF n \in DOMAIN base THEN base[n] ELSE step[n][g[next[n]]]
        BY <2>2, <4>1 DEF Follows
      <4>3. n \notin DOMAIN base => h[next[n]] = g[next[n]]
        <5> SUFFICES ASSUME n \notin DOMAIN base PROVE h[next[n]] = g[next[n]]
          OBVIOUS
        <5>1. next[n] \in Nat /\ next[n] < n
          BY <4>1
        <5>2. \A y \in Nat : y < n => y \in 0 .. i /\ y # i
          BY <1>2, <4>1, SMT
        <5>3. QED
          BY <2>6, <5>1, <5>2
      <4>4. QED
        BY <4>1, <4>2, <4>3
    <3>3. QED
      BY <3>1, <3>2
  <2>9. Follows(h, i, X, base, next, step)
    BY <2>7, <2>8 DEF Follows
  <2>10. QED
    BY <1>1, <2>9
<1>5. QED
  BY <1>3, <1>4

Recursion(f, X, base, next, step) ==
    /\ f \in [Nat -> X]
    /\ \A n \in Nat : f[n] = IF n \in DOMAIN base THEN base[n] ELSE step[n][f[next[n]]]

LEMMA RecursionExists ==
    ASSUME NEW X, NEW base, base \in [DOMAIN base -> X], NEW next \in [Nat -> Nat],
           \A n \in Nat \ DOMAIN base : next[n] < n,
           NEW step \in [Nat -> [X -> X]]
    PROVE  \E f : Recursion(f, X, base, next, step)
<1> DEFINE G(n) == CHOOSE g : Follows(g, n, X, base, next, step)
<1>1. \A n \in Nat : Follows(G(n), n, X, base, next, step)
  BY FollowerExists
<1> HIDE DEF G
<1>2. PICK f : f = [n \in Nat |-> G(n)[n]]
  OBVIOUS
<1>3. ASSUME NEW n \in Nat
      PROVE  f[n] \in X /\ f[n] = IF n \in DOMAIN base THEN base[n] ELSE step[n][f[next[n]]]
  <2>1. n \in 0 .. n
    BY SMT
  <2>2. /\ G(n)[n] \in X
        /\ G(n)[n] = IF n \in DOMAIN base THEN base[n] ELSE step[n][G(n)[next[n]]]
    BY <1>1, <2>1 DEF Follows
  <2>3. n \notin DOMAIN base => G(n)[next[n]] = f[next[n]]
    <3> SUFFICES ASSUME n \notin DOMAIN base PROVE G(n)[next[n]] = f[next[n]]
      OBVIOUS
    <3>1. next[n] \in Nat
      OBVIOUS
    <3>2. n \in Nat \ DOMAIN base
      OBVIOUS
    <3>3. next[n] < n
      BY <3>2, Zenon
    <3>4. PICK m \in Nat : m = next[n]
      BY <3>1
    <3>5. m <= n /\ m <= m
      BY <3>3, <3>4, SMT
    <3>6. PICK g, h : g = G(n) /\ h = G(m)
      OBVIOUS
    <3>7. Follows(g, n, X, base, next, step) /\ Follows(h, m, X, base, next, step)
      BY <1>1, <3>6
    <3>8. g[m] = h[m]
      BY <3>5, <3>7, FollowersAgree, SMTT(30)
    <3>9. QED
      BY <1>2, <3>4, <3>6, <3>8
  <2>4. QED
    BY <1>2, <2>2, <2>3
<1>4. f \in [Nat -> X]
  BY <1>2, <1>3
<1>5. QED
  BY <1>3, <1>4 DEF Recursion

-----------------------------------------------------------------------------
(* Decimal numbers.                                                        *)
Digits == {<<"d", k>> : k \in 0 .. 9}

LEMMA OneDigit ==
    ASSUME NEW k \in 0 .. 9
    PROVE  << <<"d", k>> >> \in Seq(Digits) /\ Len(<< <<"d", k>> >>) = 1
<1>1. PICK d : d = <<"d", k>>
  OBVIOUS
<1>2. d \in Digits
  BY <1>1 DEF Digits
<1>3. <<d>> \in Seq(Digits) /\ Len(<<d>>) = 1
  BY <1>2
<1>4. QED
  BY <1>1, <1>3

LEMMA TenthIsLess ==
    ASSUME NEW n \in Nat
    PROVE  /\ n \div 10 \in Nat /\ n % 10 \in 0 .. 9
           /\ n >= 10 => n \div 10 < n
BY SMT

LEMMA DecIs ==
    ASSUME NEW n \in Nat
    PROVE  /\ Dec[n] \in Seq(Digits)
           /\ Dec[n] = IF n < 10 THEN << <<"d", n>> >> ELSE Dec[n \div 10] \o << <<"d", n % 10>> >>
<1> DEFINE X == Seq(Digits)
           base == [k \in 0 .. 9 |-> << <<"d", k>> >>]
           next == [k \in Nat |-> k \div 10]
           step == [k \in Nat |-> [x \in X |-> x \o << <<"d", k % 10>> >>]]
           Unfolded(g) == [k \in Nat |-> IF k < 10 THEN << <<"d", k>> >>
                                                   ELSE g[k \div 10] \o << <<"d", k % 10>> >>]
<1>1. base \in [DOMAIN base -> X] /\ DOMAIN base = 0 .. 9
  BY OneDigit
<1>2. next \in [Nat -> Nat]
  BY TenthIsLess
<1>3. \A k \in Nat \ DOMAIN base : next[k] < k
  <2>1. \A k \in Nat : k \notin 0 .. 9 => k >= 10
    BY SMT
  <2>2. QED
    BY <1>1, <2>1, TenthIsLess
<1>4. step \in [Nat -> [X -> X]]
  <2>1. ASSUME NEW k \in Nat, NEW x \in X
        PROVE  x \o << <<"d", k % 10>> >> \in X
    <3>1. << <<"d", k % 10>> >> \in X
      BY OneDigit, TenthIsLess
    <3>2. QED
      BY <3>1, ConcatProperties
  <2>2. QED
    BY <2>1
<1> HIDE DEF X, base, next, step
<1>13. PICK f : Recursion(f, X, base, next, step)
  BY <1>1, <1>2, <1>3, <1>4, RecursionExists
<1>5. /\ f \in [Nat -> X]
      /\ \A k \in Nat : f[k] = IF k \in DOMAIN base THEN base[k] ELSE step[k][f[next[k]]]
  BY <1>13 DEF Recursion
<1>6. ASSUME NEW k \in Nat
      PROVE  f[k] = IF k < 10 THEN << <<"d", k>> >> ELSE f[k \div 10] \o << <<"d", k % 10>> >>
  <2>1. k < 10 <=> k \in 0 .. 9
    BY SMT
  <2>2. k \div 10 \in Nat /\ f[k \div 10] \in X
    BY <1>5, TenthIsLess
  <2>3. CASE k < 10
    BY <1>1, <1>5, <2>1, <2>3 DEF base
  <2>4. CASE ~(k < 10)
    BY <1>1, <1>5, <2>1, <2>2, <2>4 DEF next, step
  <2>5. QED
    BY <2>3, <2>4
<1>7. f = Unfolded(f)
  BY <1>5, <1>6
<1>8. Dec = CHOOSE g : g = Unfolded(g)
  BY DEF Dec
<1>9. Dec = Unfolded(Dec)
  BY <1>7, <1>8
<1>10. \A k \in Nat : Dec[k] = IF k < 10 THEN << <<"d", k>> >> ELSE Dec[k \div 10] \o << <<"d", k % 10>> >>
  <2>1. PICK g : g = Dec
    OBVIOUS
  <2>2. g = Unfolded(g)
    BY <1>9, <2>1
  <2>3. QED
    BY <2>1, <2>2
<1>11. Dec[n] = f[n]
  <2> SUFFICES ASSUME Dec[n] # f[n] PROVE FALSE
    OBVIOUS
  <2> DEFINE S == {k \in Nat : Dec[k] # f[k]}
  <2>1. PICK k \in S : \A j \in S : ~(j < k)
    BY LeastElement
  <2>2. k \in Nat /\ Dec[k] # f[k]
    BY <2>1
  <2>3. k >= 10 => Dec[k \div 10] = f[k \div 10]
    BY <2>1, <2>2, TenthIsLess
  <2>4. k < 10 \/ k >= 10
    BY <2>2, SMT
  <2>5. ~(k < 10) => Dec[k] = Dec[k \div 10] \o << <<"d", k % 10>> >>
    BY <1>10, <2>2
  <2>6. k < 10 => Dec[k] = f[k]
    BY <1>6, <1>10, <2>2
  <2>7. QED
    BY <1>6, <2>2, <2>3, <2>4, <2>5, <2>6
<1>12. f[n] \in Seq(Digits)
  BY <1>5 DEF X
<1>14. QED
  BY <1>10, <1>11, <1>12

(* count_digits_fallback below 10000.                                      *)
FewDigits(n) == IF n < 10 THEN 1 ELSE IF n < 100 THEN 2 ELSE IF n < 1000 THEN 3 ELSE 4

LEMMA ByFours ==
    ASSUME NEW n \in Nat
    PROVE  n \div 10000 \in Nat /\ (n >= 10000 => n \div 10000 < n)
BY SMT

LEMMA CountIs ==
    ASSUME NEW n \in Nat
    PROVE  /\ count_digits_fallback[n] \in Nat
           /\ count_digits_fallback[n] = IF n < 10000 THEN FewDigits(n)
                                         ELSE 4 + count_digits_fallback[n \div 10000]
<1>1. PICK N \in Nat : N = 10000
  OBVIOUS
<1>2. \A k \in Nat : k \div N \in Nat /\ (k < N \/ k \div N < k)
  <2>1. \A k \in Nat : k < 10000 \/ k >= 10000
    BY SMT
  <2>2. QED
    BY <1>1, <2>1, ByFours, SMT
<1> DEFINE X == Nat
           base == [k \in {j \in Nat : j < N} |-> FewDigits(k)]
           next == [k \in Nat |-> k \div N]
           step == [k \in Nat |-> [x \in X |-> 4 + x]]
           Rest(g, k) == 4 + g[k \div 10000]
           Unfolded(g) == [k \in Nat |-> CASE k < 10                 -> 1
                                           [] 10 <= k /\ k < 100     -> 2
                                           [] 100 <= k /\ k < 1000   -> 3
                                           [] 1000 <= k /\ k < 10000 -> 4
                                           [] OTHER                  -> Rest(g, k)]
<1>3. count_digits_fallback = CHOOSE g : g = Unfolded(g)
  BY DEF count_digits_fallback
<1> HIDE DEF Unfolded, Rest
<1>4. base \in [DOMAIN base -> X] /\ DOMAIN base = {j \in Nat : j < N}
  <2>1. \A k \in Nat : FewDigits(k) \in Nat
    BY SMT DEF FewDigits
  <2>2. QED
    BY <2>1
<1>5. next \in [Nat -> Nat]
  BY <1>2
<1>6. \A k \in Nat \ DOMAIN base : next[k] < k
  BY <1>2, <1>4
<1>7. step \in [Nat -> [X -> X]]
  <2>1. \A x \in Nat : 4 + x \in Nat
    BY SMT
  <2>2. QED
    BY <2>1
<1> HIDE DEF X, base, next, step
<1>8. PICK f : Recursion(f, X, base, next, step)
  BY <1>4, <1>5, <1>6, <1>7, RecursionExists
<1>9. /\ f \in [Nat -> Nat]
      /\ \A k \in Nat : f[k] = IF k \in DOMAIN base THEN base[k] ELSE step[k][f[next[k]]]
  BY <1>8 DEF Recursion, X
<1>10. ASSUME NEW k \in Nat
       PROVE  f[k] = IF k < N THEN FewDigits(k) ELSE 4 + f[k \div N]
  <2>1. k < N <=> k \in DOMAIN base
    BY <1>4
  <2>2. k \div N \in Nat /\ f[k \div N] \in Nat
    BY <1>2, <1>9
  <2>3. CASE k < N
    BY <1>9, <2>1, <2>3 DEF base
  <2>4. CASE ~(k < N)
    <3>1. f[k] = step[k][f[next[k]]]
      BY <1>9, <2>1, <2>4
    <3>2. next[k] = k \div N
      BY DEF next
    <3>3. \A x \in Nat : step[k][x] = 4 + x
      BY DEF step, X
    <3>4. QED
      BY <2>2, <2>4, <3>1, <3>2, <3>3
  <2>5. QED
    BY <2>3, <2>4
<1>11. ASSUME NEW g, NEW k \in Nat
       PROVE  Unfolded(g)[k] = IF k < N THEN FewDigits(k) ELSE 4 + g[k \div N]
  <2>3. /\ k < 10 => k < 100 /\ k < 1000 /\ k < N
        /\ k < 100 => k < 1000 /\ k < N
        /\ k < 1000 => k < N
    BY <1>1, SMT
  <2>4. CASE k < 10
    <3>1. (k < 10) /\ ~(10 <= k /\ k < 100) /\ ~(100 <= k /\ k < 1000) /\ ~(1000 <= k /\ k < 10000)
      BY <1>1, <2>4, SMT
    <3>2. Unfolded(g)[k] = 1
      BY <3>1, SMT DEF Unfolded
    <3>3. QED
      BY <2>3, <2>4, <3>2 DEF FewDigits
  <2>5. CASE k < 100 /\ ~(k < 10)
    <3>1. ~(k < 10) /\ (10 <= k /\ k < 100) /\ ~(100 <= k /\ k < 1000) /\ ~(1000 <= k /\ k < 10000)
      BY <1>1, <2>5, SMT
    <3>2. Unfolded(g)[k] = 2
      BY <3>1, SMT DEF Unfolded
    <3>3. QED
      BY <2>3, <2>5, <3>2 DEF FewDigits
  <2>6. CASE k < 1000 /\ ~(k < 100)
    <3>1. ~(k < 10) /\ ~(10 <= k /\ k < 100) /\ (100 <= k /\ k < 1000) /\ ~(1000 <= k /\ k < 10000)
      BY <1>1, <2>6, SMT
    <3>2. Unfolded(g)[k] = 3
      BY <3>1, SMT DEF Unfolded
    <3>3. QED
      BY <2>3, <2>6, <3>2 DEF FewDigits
  <2>7. CASE k < N /\ ~(k < 1000)
    <3>1. ~(k < 10) /\ ~(10 <= k /\ k < 100) /\ ~(100 <= k /\ k < 1000) /\ (1000 <= k /\ k < 10000)
      BY <1>1, <2>7, SMT
    <3>2. Unfolded(g)[k] = 4
      BY <3>1, SMT DEF Unfolded
    <3>3. QED
      BY <2>3, <2>7, <3>2 DEF FewDigits
  <2>8. CASE ~(k < N)
    <3>1. ~(k < 10) /\ ~(10 <= k /\ k < 100) /\ ~(100 <= k /\ k < 1000) /\ ~(1000 <= k /\ k < 10000)
      BY <1>1, <2>8, SMT
    <3>2. Unfolded(g)[k] = Rest(g, k)
      BY <3>1, SMT DEF Unfolded
    <3>3. Rest(g, k) = 4 + g[k \div N]
      BY <1>1 DEF Rest
    <3>4. QED
      BY <2>8, <3>2, <3>3
  <2>9. QED
    BY <2>4, <2>5, <2>6, <2>7, <2>8
<1>12. \A g : Unfolded(g) = [k \in Nat |-> Unfolded(g)[k]]
  BY DEF Unfolded
<1>13. f = Unfolded(f)
  <2>1. \A k \in Nat : f[k] = Unfolded(f)[k]
    BY <1>10, <1>11
  <2>2. f = [k \in Nat |-> f[k]]
    BY <1>9
  <2>3. QED
    BY <1>12, <2>1, <2>2
<1>14. PICK g : g = count_digits_fallback
  OBVIOUS
<1>15. g = Unfolded(g)
  BY <1>3, <1>13, <1>14
<1>16. \A k \in Nat : g[k] = IF k < N THEN FewDigits(k) ELSE 4 + g[k \div N]
  BY <1>11, <1>15
<1>17. g[n] = f[n]
  <2> SUFFICES ASSUME g[n] # f[n] PROVE FALSE
    OBVIOUS
  <2> DEFINE S == {k \in Nat : g[k] # f[k]}
  <2>1. PICK k \in S : \A j \in S : ~(j < k)
    BY LeastElement
  <2>2. k \in Nat /\ g[k] # f[k]
    BY <2>1
  <2>3. ~(k < N) => g[k \div N] = f[k \div N]
    BY <1>2, <2>1, <2>2
  <2>4. ~(k < N) => g[k] = 4 + g[k \div N]
    BY <1>16, <2>2
  <2>5. k < N => g[k] = f[k]
    BY <1>10, <1>16, <2>2
  <2>6. QED
    BY <1>10, <2>2, <2>3, <2>4, <2>5
<1>18. f[n] \in Nat
  BY <1>9
<1>19. QED
  BY <1>1, <1>14, <1>16, <1>17, <1>18

(* The digits a number is written with, and those it is counted with.      *)
LEMMA DigitsAreText ==
    ASSUME NEW n \in Nat
    PROVE  /\ IsText(Dec[n]) /\ Len(Dec[n]) \in Nat
           /\ n < 10 => Len(Dec[n]) = 1
           /\ n >= 10 => Len(Dec[n]) = Len(Dec[n \div 10]) + 1
<1>1. Dec[n] \in Seq(Digits)
  BY DecIs
<1>2. IsText(Dec[n]) /\ Len(Dec[n]) \in Nat
  <2>1. IsText(Dec[n])
    BY <1>1 DEF IsText
  <2>2. QED
    BY <2>1, TextLength
<1>3. CASE n < 10
  <2>1. Dec[n] = << <<"d", n>> >>
    BY <1>3, DecIs
  <2>2. n \in 0 .. 9 /\ ~(n >= 10)
    BY <1>3, SMT
  <2>3. QED
    BY <1>2, <2>1, <2>2, OneDigit
<1>4. CASE ~(n < 10)
  <2>1. PICK s, t : s = Dec[n \div 10] /\ t = << <<"d", n % 10>> >>
    OBVIOUS
  <2>2. s \in Seq(Digits) /\ t \in Seq(Digits) /\ Len(t) = 1
    BY <2>1, DecIs, TenthIsLess, OneDigit
  <2>3. Dec[n] = s \o t
    BY <1>4, <2>1, DecIs
  <2>4. Len(s \o t) = Len(s) + Len(t)
    BY <2>2, ConcatProperties
  <2>5. QED
    BY <1>2, <1>4, <2>1, <2>2, <2>3, <2>4
<1>5. QED
  BY <1>3, <1>4

LEMMA FewDigitsCounted ==
    ASSUME NEW n \in Nat, n < 10000
    PROVE  Len(Dec[n]) = FewDigits(n)
<1>1. PICK a \in Nat : a = n \div 10
  BY TenthIsLess
<1>2. PICK b \in Nat : b = a \div 10
  BY TenthIsLess
<1>3. PICK c \in Nat : c = b \div 10
  BY TenthIsLess
<1>4. a < 1000 /\ b < 100 /\ c < 10
  BY <1>1, <1>2, <1>3, SMT
<1>5. /\ n < 10 => Len(Dec[n]) = 1
      /\ n >= 10 => Len(Dec[n]) = Len(Dec[a]) + 1
      /\ a < 10 => Len(Dec[a]) = 1
      /\ a >= 10 => Len(Dec[a]) = Len(Dec[b]) + 1
      /\ b < 10 => Len(Dec[b]) = 1
      /\ b >= 10 => Len(Dec[b]) = Len(Dec[c]) + 1
      /\ Len(Dec[c]) = 1
  <2>1. /\ n < 10 => Len(Dec[n]) = 1
        /\ n >= 10 => Len(Dec[n]) = Len(Dec[a]) + 1
    BY <1>1, DigitsAreText
  <2>2. /\ a < 10 => Len(Dec[a]) = 1
        /\ a >= 10 => Len(Dec[a]) = Len(Dec[b]) + 1
    BY <1>2, DigitsAreText
  <2>3. /\ b < 10 => Len(Dec[b]) = 1
        /\ b >= 10 => Len(Dec[b]) = Len(Dec[c]) + 1
    BY <1>3, DigitsAreText
  <2>4. Len(Dec[c]) = 1
    BY <1>4, DigitsAreText
  <2>5. QED
    BY <2>1, <2>2, <2>3, <2>4
<1>6. PICK l \in Nat : l = Len(Dec[n])
  BY DigitsAreText
<1>11. PICK la \in Nat : la = Len(Dec[a])
  BY DigitsAreText
<1>12. PICK lb \in Nat : lb = Len(Dec[b])
  BY DigitsAreText
<1>13. PICK lc \in Nat : lc = Len(Dec[c])
  BY DigitsAreText
<1>7. /\ n < 10 => l = 1
      /\ n >= 10 => l = la + 1
      /\ a < 10 => la = 1
      /\ a >= 10 => la = lb + 1
      /\ b < 10 => lb = 1
      /\ b >= 10 => lb = lc + 1
      /\ lc = 1
  BY <1>5, <1>6, <1>11, <1>12, <1>13
<1>8. (n < 10 <=> a = 0) /\ (n < 100 <=> a < 10) /\ (n < 1000 <=> b < 10)
  BY <1>1, <1>2, SMT
<1>9. l = FewDigits(n)
  BY <1>7, <1>8, SMT DEF FewDigits
<1>10. QED
  BY <1>6, <1>9

LEMMA DigitsCounted ==
    ASSUME NEW n \in Nat
    PROVE  Len(Dec[n]) = count_digits_fallback[n]
<1> SUFFICES ASSUME Len(Dec[n]) # count_digits_fallback[n] PROVE FALSE
  OBVIOUS
<1> DEFINE S == {k \in Nat : Len(Dec[k]) # count_digits_fallback[k]}
<1>1. PICK k \in S : \A j \in S : ~(j < k)
  BY LeastElement
<1>2. k \in Nat /\ Len(Dec[k]) # count_digits_fallback[k]
  BY <1>1
<1>3. CASE k < 10000
  BY <1>2, <1>3, CountIs, FewDigitsCounted
<1>4. CASE ~(k < 10000)
  <2>1. PICK a \in Nat : a = k \div 10
    BY <1>2, TenthIsLess
  <2>2. PICK b \in Nat : b = a \div 10
    BY TenthIsLess
  <2>3. PICK c \in Nat : c = b \div 10
    BY TenthIsLess
  <2>4. PICK d \in Nat : d = c \div 10
    BY TenthIsLess
  <2>5. /\ k >= 10 /\ a >= 10 /\ b >= 10 /\ c >= 10
        /\ d = k \div 10000 /\ d < k
    <3>1. k >= 10 /\ a >= 1000
      BY <1>2, <1>4, <2>1, SMT
    <3>2. a >= 10 /\ b >= 100
      BY <2>2, <3>1, SMT
    <3>3. b >= 10 /\ c >= 10
      BY <2>3, <3>2, SMT
    <3>4. b = k \div 100
      BY <1>2, <2>1, <2>2, SMT
    <3>5. d = b \div 100
      BY <2>3, <2>4, SMT
    <3>6. d = k \div 10000 /\ d < k
      BY <1>2, <3>1, <3>4, <3>5, SMT
    <3>7. QED
      BY <3>1, <3>2, <3>3, <3>6
  <2>6. /\ Len(Dec[k]) = Len(Dec[a]) + 1 /\ Len(Dec[a]) = Len(Dec[b]) + 1
        /\ Len(Dec[b]) = Len(Dec[c]) + 1 /\ Len(Dec[c]) = Len(Dec[d]) + 1
        /\ Len(Dec[d]) \in Nat
    <3>1. k >= 10 /\ a >= 10 /\ b >= 10 /\ c >= 10
      BY <2>5
    <3>2. Len(Dec[k]) = Len(Dec[a]) + 1
      BY <1>2, <2>1, <3>1, DigitsAreText
    <3>3. Len(Dec[a]) = Len(Dec[b]) + 1
      BY <2>2, <3>1, DigitsAreText
    <3>4. Len(Dec[b]) = Len(Dec[c]) + 1
      BY <2>3, <3>1, DigitsAreText
    <3>5. Len(Dec[c]) = Len(Dec[d]) + 1
      BY <2>4, <3>1, DigitsAreText
    <3>6. Len(Dec[d]) \in Nat
      BY DigitsAreText
    <3>7. QED
      BY <3>2, <3>3, <3>4, <3>5, <3>6
  <2>7. Len(Dec[d]) = count_digits_fallback[d]
    BY <1>1, <2>5
  <2>8. count_digits_fallback[k] = 4 + count_digits_fallback[d]
    BY <1>2, <1>4, <2>5, CountIs
  <2>9. \A x \in Nat : x + 1 + 1 + 1 + 1 = 4 + x
    BY SMT
  <2>10. QED
    BY <1>2, <2>6, <2>7, <2>8, <2>9
<1>5. QED
  BY <1>3, <1>4

-----------------------------------------------------------------------------
(* How long the texts are that fmt_helper writes.                          *)
Sized(t, n) == IsText(t) /\ Len(t) = n

LEMMA SizedNat ==
    ASSUME NEW t, NEW n, Sized(t, n)
    PROVE  n \in Nat
BY TextLength DEF Sized

LEMMA EmptySized == Sized(<<>>, 0)
BY DEF Sized, IsText

LEMMA ConcatSized ==
    ASSUME NEW s, NEW t, NEW m, NEW n, Sized(s, m), Sized(t, n)
    PROVE  Sized(s \o t, m + n)
BY TextConcat DEF Sized

LEMMA ConcatIsText ==
    ASSUME NEW s, NEW t, IsText(s), IsText(t)
    PROVE  IsText(s \o t)
BY TextConcat

LEMMA OneCell ==
    ASSUME NEW x
    PROVE  Sized(<<x>>, 1)
<1>1. <<x>> \in Seq({x})
  OBVIOUS
<1>2. Len(<<x>>) = 1
  OBVIOUS
<1>3. QED
  BY <1>1, <1>2 DEF Sized, IsText

LEMMA ChrSized ==
    ASSUME NEW c
    PROVE  Sized(Chr(c), 1)
BY OneCell DEF Chr

LEMMA StrSized ==
    ASSUME NEW s, NEW n \in Nat
    PROVE  Sized(Str(s, n), n)
<1>1. PICK t : t = Str(s, n)
  OBVIOUS
<1>2. t = [i \in 1 .. n |-> t[i]]
  BY <1>1 DEF Str
<1>3. QED
  BY <1>1, <1>2, TextByPlace DEF Sized

LEMMA ZerosSized ==
    ASSUME NEW n \in Int
    PROVE  IsText(Zeros(n)) /\ (n >= 0 => Sized(Zeros(n), n))
<1>1. PICK t : t = Zeros(n)
  OBVIOUS
<1>2. CASE n >= 0
  <2>1. n \in Nat
    BY <1>2, SMT
  <2>2. t = [i \in 1 .. n |-> t[i]]
    BY <1>1 DEF Zeros
  <2>3. QED
    BY <1>1, <2>1, <2>2, TextByPlace DEF Sized
<1>3. CASE ~(n >= 0)
  <2>1. 1 .. n = {} /\ 1 .. 0 = {}
    BY <1>3, SMT
  <2>2. t = [i \in 1 .. 0 |-> t[i]]
    BY <1>1, <2>1 DEF Zeros
  <2>3. QED
    BY <1>1, <1>3, <2>2, TextByPlace
<1>4. QED
  BY <1>2, <1>3

LEMMA NumberSized ==
    ASSUME NEW n \in Nat
    PROVE  /\ Sized(append_int(n), count_digits_fallback[n])
           /\ append_int(n) = Dec[n]
<1>1. ~(n < 0)
  BY SMT
<1>2. append_int(n) = Dec[n]
  BY <1>1 DEF append_int
<1>3. QED
  BY <1>2, DigitsAreText, DigitsCounted DEF Sized

LEMMA CountBounds ==
    ASSUME NEW n \in Nat
    PROVE  /\ n < 10 ^ 6 => count_digits_fallback[n] <= 6
           /\ n < 10 ^ 9 => count_digits_fallback[n] <= 9
           /\ n >= 10 ^ 9 /\ n \div 10 ^ 9 < 10 => count_digits_fallback[n] = 10
           /\ n >= 1000 /\ n < 10000 => count_digits_fallback[n] = 4
           /\ n >= 10 /\ n < 100 => count_digits_fallback[n] = 2
<1>1. PICK a \in Nat : a = n \div 10000
  BY ByFours
<1>2. PICK b \in Nat : b = a \div 10000
  BY ByFours
<1>3. PICK c \in Nat : c = count_digits_fallback[n]
  BY CountIs
<1>4. PICK d \in Nat : d = count_digits_fallback[a]
  BY CountIs
<1>5. PICK e \in Nat : e = count_digits_fallback[b]
  BY CountIs
<1>6. c = IF n < 10000 THEN FewDigits(n) ELSE 4 + d
  BY <1>1, <1>3, <1>4, CountIs
<1>7. d = IF a < 10000 THEN FewDigits(a) ELSE 4 + e
  BY <1>2, <1>4, <1>5, CountIs
<1>8. b < 10000 => e = FewDigits(b)
  BY <1>5, CountIs
<1>9. n < 10 ^ 6 => a < 100
  BY <1>1, SMT
<1>10. n < 10 ^ 9 => a < 100000 /\ b < 10
  BY <1>1, <1>2, SMT
<1>11. n >= 10 ^ 9 /\ n \div 10 ^ 9 < 10 => b >= 10 /\ b < 100 /\ a >= 10000 /\ n >= 10000
  BY <1>1, <1>2, SMT
<1>12. n < 10 ^ 6 => c <= 6
  BY <1>6, <1>7, <1>9, SMT DEF FewDigits
<1>13. n < 10 ^ 9 => c <= 9
  BY <1>6, <1>7, <1>8, <1>10, SMT DEF FewDigits
<1>14. n >= 10 ^ 9 /\ n \div 10 ^ 9 < 10 => c = 10
  BY <1>6, <1>7, <1>8, <1>11, SMT DEF FewDigits
<1>15. (n >= 1000 /\ n < 10000 => c = 4) /\ (n >= 10 /\ n < 100 => c = 2)
  BY <1>6, SMT DEF FewDigits
<1>16. QED
  BY <1>3, <1>12, <1>13, <1>14, <1>15

LEMMA PadUintSized ==
    ASSUME NEW n \in Nat, NEW w \in Nat
    PROVE  /\ IsText(pad_uint(n, w))
           /\ count_digits_fallback[n] <= w => Sized(pad_uint(n, w), w)
<1>1. PICK c \in Nat : c = count_digits_fallback[n]
  BY CountIs
<1>2. PICK k \in Int : k = w - c
  OBVIOUS
<1>3. PICK z : z = Zeros(k)
  OBVIOUS
<1>4. PICK t : t = append_int(n)
  OBVIOUS
<1>5. pad_uint(n, w) = z \o t
  BY <1>1, <1>2, <1>3, <1>4 DEF pad_uint
<1>6. Sized(t, c) /\ IsText(t)
  BY <1>1, <1>4, NumberSized DEF Sized
<1>7. IsText(z)
  BY <1>3, ZerosSized
<1>8. IsText(z \o t)
  BY <1>6, <1>7, ConcatIsText
<1>9. ASSUME c <= w
      PROVE  Sized(z \o t, w)
  <2>1. k >= 0 /\ k + c = w
    BY <1>2, <1>9, SMT
  <2>2. Sized(z, k)
    BY <1>3, <2>1, ZerosSized
  <2>3. Sized(z \o t, k + c)
    BY <1>6, <2>2, ConcatSized
  <2>4. QED
    BY <2>1, <2>3
<1>10. QED
  BY <1>1, <1>5, <1>8, <1>9

LEMMA TwoCells ==
    ASSUME NEW a, NEW b
    PROVE  Sized(<<a, b>>, 2)
<1>1. <<a, b>> \in Seq({a, b})
  BY TwoMakeASeq
<1>2. QED
  BY <1>1 DEF Sized, IsText

LEMMA Pad2Sized ==
    ASSUME NEW n \in 0 .. 99
    PROVE  Sized(pad2(n), 2)
BY TwoCells DEF pad2

LEMMA Pad3Sized ==
    ASSUME NEW n \in Nat, n < 1000
    PROVE  Sized(pad3(n), 3)
<1>1. n % 100 \in 0 .. 99
  BY SMT
<1>2. PICK s : s = pad2(n % 100)
  OBVIOUS
<1>3. Sized(s, 2)
  BY <1>1, <1>2, Pad2Sized
<1>4. PICK d : d = n \div 100
  OBVIOUS
<1>5. Sized(<< <<"d", d>> >>, 1)
  BY OneCell
<1>6. Sized(<< <<"d", d>> >> \o s, 1 + 2)
  BY <1>3, <1>5, ConcatSized
<1>7. 1 + 2 = 3
  BY SMT
<1>8. pad3(n) = << <<"d", d>> >> \o s
  BY <1>2, <1>4 DEF pad3
<1>9. QED
  BY <1>6, <1>7, <1>8

LEMMA DecScaledIsText ==
    ASSUME NEW s \in Nat, NEW n \in Nat, NEW w \in Nat
    PROVE  IsText(DecScaled(s, n, w))
<1>1. IsText(Dec[n]) /\ IsText(Dec[s]) /\ IsText(pad_uint(n, w))
  BY DigitsAreText, PadUintSized
<1>2. IsText(Dec[s] \o pad_uint(n, w))
  BY <1>1, ConcatIsText
<1>3. QED
  BY <1>1, <1>2 DEF DecScaled

LEMMA Join2Sized ==
    ASSUME NEW a, NEW b, NEW m, NEW n, Sized(a, m), Sized(b, n), NEW sep
    PROVE  Sized(Join2(a, b, sep), m + 1 + n)
<1>1. PICK c : c = Chr(sep)
  OBVIOUS
<1>2. Sized(c, 1)
  BY <1>1, ChrSized
<1>3. Sized(a \o c, m + 1)
  BY <1>2, ConcatSized
<1>4. Sized((a \o c) \o b, m + 1 + n)
  BY <1>3, ConcatSized
<1>5. QED
  BY <1>1, <1>4 DEF Join2

LEMMA Join2IsText ==
    ASSUME NEW a, NEW b, IsText(a), IsText(b), NEW sep
    PROVE  IsText(Join2(a, b, sep))
<1>1. Sized(a, Len(a)) /\ Sized(b, Len(b))
  BY DEF Sized
<1>2. QED
  BY <1>1, Join2Sized DEF Sized

LEMMA Join3Sized ==
    ASSUME NEW a, NEW b, NEW c, NEW l, NEW m, NEW n, Sized(a, l), Sized(b, m), Sized(c, n), NEW sep
    PROVE  Sized(Join3(a, b, c, sep), l + 1 + m + 1 + n)
<1>1. PICK d : d = Join2(a, b, sep)
  OBVIOUS
<1>2. Sized(d, l + 1 + m)
  BY <1>1, Join2Sized
<1>3. Sized(Join2(d, c, sep), l + 1 + m + 1 + n)
  BY <1>2, Join2Sized
<1>4. QED
  BY <1>1, <1>3 DEF Join3

-----------------------------------------------------------------------------
(* Every flag announces the size of what it writes.                        *)
Announced(o) == IsText(o.text) /\ o.size = Len(o.text)

LEMMA WholeAnnounced ==
    ASSUME NEW t, IsText(t)
    PROVE  Announced(Whole(t))
BY DEF Announced, Whole, Out

LEMMA OutAnnounced ==
    ASSUME NEW t, NEW n, Sized(t, n)
    PROVE  Announced(Out(n, t))
BY DEF Announced, Sized, Out

Nanoseconds == 0 .. 10 ^ 9 - 1

TmOK(tm) == /\ tm.year \in 0 .. 362 /\ tm.mon \in 0 .. 11 /\ tm.mday \in 0 .. 31 /\ tm.wday \in 0 .. 6
            /\ tm.hour \in 0 .. 23 /\ tm.min \in 0 .. 59 /\ tm.sec \in 0 .. 60
            /\ tm.gmtoff \div 60 \in Offsets

MessageOK(m) == /\ m.secs \in Nat /\ m.level \in 0 .. 6 /\ m.line \in Int /\ m.thread_id \in Nat
                /\ m.nanos \in Nanoseconds /\ m.secs \div 10 ^ 9 < 10
                /\ IsText(m.name) /\ IsText(m.payload) /\ IsText(m.file) /\ IsText(m.func)

LEMMA LevelAnnounced ==
    ASSUME NEW m, MessageOK(m), NEW flag \in {"n", "l", "L"}
    PROVE  Announced(name_level_text(flag, m))
<1>1. PICK k \in 0 .. 6 : k = m.level
  BY DEF MessageOK
<1>2. \A i \in 0 .. 6 : LevelNameLen[i + 1] \in Nat
  BY SMT DEF LevelNameLen
<1>3. PICK a, b : a = Str(<<"level", k>>, LevelNameLen[k + 1]) /\ b = Str(<<"L", k>>, 1)
  OBVIOUS
<1>4. IsText(a) /\ IsText(b)
  BY <1>2, <1>3, StrSized DEF Sized
<1>5. Announced(Whole(m.name)) /\ Announced(Whole(a)) /\ Announced(Whole(b))
  BY <1>4, WholeAnnounced DEF MessageOK
<1>6. QED
  BY <1>1, <1>3, <1>5 DEF name_level_text

LEMMA DayMonthAnnounced ==
    ASSUME NEW tm, TmOK(tm), NEW flag \in {"a", "A", "b", "B"}
    PROVE  Announced(day_month_text(flag, tm))
<1>1. PICK d \in 0 .. 6 : d = tm.wday
  BY DEF TmOK
<1>2. PICK k \in 0 .. 11 : k = tm.mon
  BY DEF TmOK
<1>3. \A i \in 0 .. 6 : FullDayLen[i + 1] \in Nat
  BY SMT DEF FullDayLen
<1>4. \A i \in 0 .. 11 : FullMonthLen[i + 1] \in Nat
  BY SMT DEF FullMonthLen
<1>5. PICK a, b : a = Str(<<"full_day", d>>, FullDayLen[d + 1]) /\ b = Str(<<"full_month", k>>, FullMonthLen[k + 1])
  OBVIOUS
<1>6. PICK x, y : x = DayName(tm) /\ y = MonthName(tm)
  OBVIOUS
<1>7. IsText(a) /\ IsText(b)
  BY <1>3, <1>4, <1>5, StrSized DEF Sized
<1>8. IsText(x) /\ IsText(y)
  BY <1>6, StrSized DEF Sized, DayName, MonthName
<1>9. Announced(Whole(a)) /\ Announced(Whole(b)) /\ Announced(Whole(x)) /\ Announced(Whole(y))
  BY <1>7, <1>8, WholeAnnounced
<1>10. QED
  BY <1>1, <1>2, <1>5, <1>6, <1>9 DEF day_month_text

LEMMA Clock24Sized ==
    ASSUME NEW tm, TmOK(tm)
    PROVE  Sized(Clock24(tm), 8)
<1>1. tm.hour \in 0 .. 99 /\ tm.min \in 0 .. 99 /\ tm.sec \in 0 .. 99
  BY SMT DEF TmOK
<1>2. Sized(pad2(tm.hour), 2) /\ Sized(pad2(tm.min), 2) /\ Sized(pad2(tm.sec), 2)
  BY <1>1, Pad2Sized
<1>3. Sized(Clock24(tm), 2 + 1 + 2 + 1 + 2)
  BY <1>2, Join3Sized DEF Clock24
<1>4. 2 + 1 + 2 + 1 + 2 = 8
  BY SMT
<1>5. QED
  BY <1>3, <1>4

FullYear(tm) == append_int(tm.year + 1900)
ShortYear(tm) == pad2(tm.year % 100)
MonthNumber(tm) == pad2(tm.mon + 1)

LEMMA DateFull ==
    ASSUME NEW tm
    PROVE  date_text("c", tm) = Out(24, Join3(Join3(DayName(tm), MonthName(tm), append_int(tm.mday), " "),
                                              Clock24(tm), FullYear(tm), " "))
BY SMT DEF date_text, FullYear

LEMMA DateShortYear ==
    ASSUME NEW tm
    PROVE  date_text("C", tm) = Out(2, ShortYear(tm))
BY SMT DEF date_text, ShortYear

LEMMA DateSlashes ==
    ASSUME NEW tm
    PROVE  date_text("D", tm) = Out(8, Join3(MonthNumber(tm), pad2(tm.mday), ShortYear(tm), "/"))
BY SMT DEF date_text, MonthNumber, ShortYear

LEMMA DateYear ==
    ASSUME NEW tm
    PROVE  date_text("Y", tm) = Out(4, FullYear(tm))
BY SMT DEF date_text, FullYear

LEMMA DateMonth ==
    ASSUME NEW tm
    PROVE  date_text("m", tm) = Out(2, MonthNumber(tm))
BY SMT DEF date_text, MonthNumber

LEMMA DateDay ==
    ASSUME NEW tm
    PROVE  date_text("d", tm) = Out(2, pad2(tm.mday))
BY SMT DEF date_text

(* A year of four digits.                                                  *)
LEMMA YearSized ==
    ASSUME NEW tm, TmOK(tm)
    PROVE  Sized(FullYear(tm), 4)
<1>1. PICK y \in 0 .. 362 : y = tm.year
  BY DEF TmOK
<1>2. y + 1900 \in Nat /\ y + 1900 >= 1000 /\ y + 1900 < 10000
  BY SMT
<1>3. PICK n \in Nat : n = y + 1900 /\ n >= 1000 /\ n < 10000
  BY <1>2, SMT
<1>4. count_digits_fallback[n] = 4
  BY <1>3, CountBounds, SMT
<1>5. Sized(append_int(n), 4)
  BY <1>4, NumberSized
<1>6. append_int(n) = FullYear(tm)
  BY <1>1, <1>3, SMT DEF FullYear
<1>7. QED
  BY <1>5, <1>6

LEMMA ShortTextsSized ==
    ASSUME NEW tm, TmOK(tm)
    PROVE  Sized(ShortYear(tm), 2) /\ Sized(MonthNumber(tm), 2) /\ Sized(pad2(tm.mday), 2)
<1>1. PICK y \in 0 .. 362 : y = tm.year
  BY DEF TmOK
<1>2. PICK k \in 0 .. 11 : k = tm.mon
  BY DEF TmOK
<1>3. y % 100 \in 0 .. 99 /\ k + 1 \in 0 .. 99
  BY SMT
<1>4. Sized(pad2(y % 100), 2) /\ Sized(pad2(k + 1), 2)
  BY <1>3, Pad2Sized
<1>5. pad2(y % 100) = ShortYear(tm)
  BY <1>1, SMT DEF ShortYear
<1>6. pad2(k + 1) = MonthNumber(tm)
  BY <1>2 DEF MonthNumber
<1>7. tm.mday \in 0 .. 99
  BY SMT DEF TmOK
<1>8. QED
  BY <1>4, <1>5, <1>6, <1>7, Pad2Sized

LEMMA DateAnnounced ==
    ASSUME NEW tm, TmOK(tm), NEW flag \in {"c", "C", "D", "Y", "m", "d"}
    PROVE  /\ IsText(date_text(flag, tm).text)
           /\ flag = "c" => date_text(flag, tm).size = 24
           /\ ~(flag = "c" /\ tm.mday < 10) => Announced(date_text(flag, tm))
<1>1. tm.mday \in Nat /\ tm.mday < 100
  BY SMT DEF TmOK
<1>2. PICK mon, day, yy : mon = MonthNumber(tm) /\ day = pad2(tm.mday) /\ yy = ShortYear(tm)
  OBVIOUS
<1>3. Sized(mon, 2) /\ Sized(day, 2) /\ Sized(yy, 2)
  BY <1>2, ShortTextsSized
<1>18. PICK year : year = FullYear(tm)
  OBVIOUS
<1>4. PICK clock, wday, month : clock = Clock24(tm) /\ wday = DayName(tm) /\ month = MonthName(tm)
  OBVIOUS
<1>5. Sized(year, 4) /\ Sized(clock, 8)
  BY <1>4, <1>18, YearSized, Clock24Sized, SMT
<1>6. Sized(wday, 3) /\ Sized(month, 3)
  BY <1>4, StrSized DEF DayName, MonthName
<1>7. PICK dd, n : dd = append_int(tm.mday) /\ n = count_digits_fallback[tm.mday]
  OBVIOUS
<1>8. Sized(dd, n) /\ (tm.mday >= 10 => n = 2)
  BY <1>1, <1>7, NumberSized, CountBounds
<1>9. PICK date : date = Join3(wday, month, dd, " ")
  OBVIOUS
<1>10. Sized(date, 3 + 1 + 3 + 1 + n)
  BY <1>6, <1>8, <1>9, Join3Sized
<1>11. PICK c : c = Join3(date, clock, year, " ")
  OBVIOUS
<1>12. Sized(c, 3 + 1 + 3 + 1 + n + 1 + 8 + 1 + 4)
  BY <1>5, <1>10, <1>11, Join3Sized
<1>13. n = 2 => 3 + 1 + 3 + 1 + n + 1 + 8 + 1 + 4 = 24
  BY SMT
<1>19. PICK o : o = date_text(flag, tm)
  OBVIOUS
<1>14. CASE flag = "c"
  <2>1. o = Out(24, c)
    BY <1>4, <1>7, <1>9, <1>11, <1>14, <1>18, <1>19, DateFull
  <2>2. o.text = c /\ o.size = 24 /\ IsText(c)
    BY <1>12, <2>1 DEF Out, Sized
  <2>3. ASSUME ~(tm.mday < 10)
        PROVE  Announced(o)
    <3>1. tm.mday >= 10
      BY <1>1, <2>3, SMT
    <3>2. Sized(c, 24)
      BY <1>8, <1>12, <1>13, <3>1
    <3>3. QED
      BY <2>1, <3>2, OutAnnounced
  <2>4. QED
    BY <1>14, <1>19, <2>2, <2>3
<1>15. CASE flag = "D"
  <2>1. PICK t : t = Join3(mon, day, yy, "/")
    OBVIOUS
  <2>2. Sized(t, 2 + 1 + 2 + 1 + 2) /\ 2 + 1 + 2 + 1 + 2 = 8
    BY <1>3, <2>1, Join3Sized
  <2>3. Announced(Out(8, t))
    BY <2>2, OutAnnounced
  <2>4. o = Out(8, t)
    BY <1>2, <1>15, <1>19, <2>1, DateSlashes
  <2>5. Announced(o) /\ flag # "c"
    BY <1>15, <2>3, <2>4
  <2>6. QED
    BY <1>19, <2>5 DEF Announced
<1>16. CASE flag \in {"C", "Y", "m", "d"}
  <2>1. Announced(Out(2, yy)) /\ Announced(Out(4, year)) /\ Announced(Out(2, mon)) /\ Announced(Out(2, day))
    BY <1>3, <1>5, OutAnnounced
  <2>2. o \in {Out(2, yy), Out(4, year), Out(2, mon), Out(2, day)}
    BY <1>2, <1>16, <1>18, <1>19, DateShortYear, DateYear, DateMonth, DateDay
  <2>3. Announced(o) /\ flag # "c"
    BY <1>16, <2>1, <2>2
  <2>4. QED
    BY <1>19, <2>3 DEF Announced
<1>17. QED
  BY <1>14, <1>15, <1>16

LEMMA HourAnnounced ==
    ASSUME NEW tm, TmOK(tm), NEW flag \in {"H", "I", "M", "S"}
    PROVE  Announced(hour_text(flag, tm))
<1>1. tm.hour \in 0 .. 99 /\ to12h(tm) \in 0 .. 99 /\ tm.min \in 0 .. 99 /\ tm.sec \in 0 .. 99
  BY SMT DEF TmOK, to12h
<1>2. PICK a, b, c, d : a = pad2(tm.hour) /\ b = pad2(to12h(tm)) /\ c = pad2(tm.min) /\ d = pad2(tm.sec)
  OBVIOUS
<1>3. Sized(a, 2) /\ Sized(b, 2) /\ Sized(c, 2) /\ Sized(d, 2)
  BY <1>1, <1>2, Pad2Sized
<1>4. Announced(Out(2, a)) /\ Announced(Out(2, b)) /\ Announced(Out(2, c)) /\ Announced(Out(2, d))
  BY <1>3, OutAnnounced
<1>5. QED
  BY <1>2, <1>4 DEF hour_text

LEMMA ClockAnnounced ==
    ASSUME NEW tm, TmOK(tm), NEW flag \in {"p", "r", "R", "T"}
    PROVE  Announced(clock_text(flag, tm))
<1>1. tm.hour \in 0 .. 99 /\ to12h(tm) \in 0 .. 99 /\ tm.min \in 0 .. 99 /\ tm.sec \in 0 .. 99
  BY SMT DEF TmOK, to12h
<1>2. PICK a, b, c, d : a = pad2(tm.hour) /\ b = pad2(to12h(tm)) /\ c = pad2(tm.min) /\ d = pad2(tm.sec)
  OBVIOUS
<1>3. Sized(a, 2) /\ Sized(b, 2) /\ Sized(c, 2) /\ Sized(d, 2)
  BY <1>1, <1>2, Pad2Sized
<1>4. PICK p : p = ampm(tm)
  OBVIOUS
<1>5. Sized(p, 2)
  BY <1>4, StrSized DEF ampm
<1>6. PICK t : t = Join3(b, c, d, ":")
  OBVIOUS
<1>7. Sized(t, 2 + 1 + 2 + 1 + 2)
  BY <1>3, <1>6, Join3Sized
<1>8. PICK u, v : u = Join2(t, p, " ") /\ v = Join2(a, c, ":")
  OBVIOUS
<1>9. Sized(u, 2 + 1 + 2 + 1 + 2 + 1 + 2) /\ Sized(v, 2 + 1 + 2)
  BY <1>3, <1>5, <1>7, <1>8, Join2Sized
<1>10. 2 + 1 + 2 + 1 + 2 + 1 + 2 = 11 /\ 2 + 1 + 2 = 5
  BY SMT
<1>11. PICK w : w = Clock24(tm)
  OBVIOUS
<1>12. Announced(Out(2, p)) /\ Announced(Out(11, u)) /\ Announced(Out(5, v)) /\ Announced(Out(8, w))
  BY <1>5, <1>9, <1>10, <1>11, Clock24Sized, OutAnnounced
<1>13. QED
  BY <1>2, <1>4, <1>6, <1>8, <1>11, <1>12 DEF clock_text

(* %E announces ten characters; before 2001-09-09 the seconds have fewer.  *)
Early(m) == m.secs < 10 ^ 9

LEMMA FractionAnnounced ==
    ASSUME NEW m, MessageOK(m), NEW flag \in {"e", "f", "F", "E"}
    PROVE  /\ IsText(fraction_text(flag, m).text)
           /\ fraction_text(flag, m).size \in Nat
           /\ ~(flag = "E" /\ Early(m)) => Announced(fraction_text(flag, m))
<1>1. PICK a, b, c : a = time_fraction(m, 3) /\ b = time_fraction(m, 6) /\ c = time_fraction(m, 9)
  OBVIOUS
<1>2. a \in Nat /\ a < 1000 /\ b \in Nat /\ b < 10 ^ 6 /\ c \in Nat /\ c < 10 ^ 9
  BY <1>1, SMT DEF time_fraction, MessageOK, Nanoseconds
<1>3. PICK x, y, z : x = pad3(a) /\ y = pad_uint(b, 6) /\ z = pad_uint(c, 9)
  OBVIOUS
<1>4. count_digits_fallback[b] <= 6 /\ count_digits_fallback[c] <= 9
  BY <1>2, CountBounds
<1>5. Sized(x, 3) /\ Sized(y, 6) /\ Sized(z, 9)
  BY <1>2, <1>3, <1>4, Pad3Sized, PadUintSized
<1>6. Announced(Out(3, x)) /\ Announced(Out(6, y)) /\ Announced(Out(9, z))
  BY <1>5, OutAnnounced
<1>7. CASE flag = "E"
  <2>1. PICK s \in Nat : s = m.secs
    BY DEF MessageOK
  <2>2. PICK t : t = append_int(s)
    OBVIOUS
  <2>3. Sized(t, count_digits_fallback[s])
    BY <2>2, NumberSized
  <2>4. PICK o : o = fraction_text(flag, m)
    OBVIOUS
  <2>5. o = Out(10, t)
    BY <1>7, <2>1, <2>2, <2>4 DEF fraction_text
  <2>6. o.text = t /\ o.size = 10
    BY <2>5 DEF Out
  <2>7. ~(s < 10 ^ 9) => count_digits_fallback[s] = 10
    <3>1. s \div 10 ^ 9 < 10
      BY <2>1 DEF MessageOK
    <3>2. ~(s < 10 ^ 9) => s >= 10 ^ 9
      BY SMT
    <3>3. QED
      BY <3>1, <3>2, CountBounds
  <2>11. ~Early(m) => ~(s < 10 ^ 9)
    BY <2>1 DEF Early
  <2>8. ~Early(m) => Announced(o)
    BY <2>3, <2>5, <2>7, <2>11, OutAnnounced
  <2>9. IsText(o.text) /\ o.size \in Nat
    BY <2>3, <2>6 DEF Sized
  <2>10. QED
    BY <1>7, <2>4, <2>8, <2>9
<1>8. CASE flag \in {"e", "f", "F"}
  <2>1. PICK o : o = fraction_text(flag, m)
    OBVIOUS
  <2>2. o \in {Out(3, x), Out(6, y), Out(9, z)}
    BY <1>1, <1>3, <1>8, <2>1 DEF fraction_text
  <2>3. Announced(o)
    BY <1>6, <2>2
  <2>4. IsText(o.text) /\ o.size \in Nat
    BY <2>3, TextLength DEF Announced
  <2>5. QED
    BY <2>1, <2>3, <2>4
<1>9. QED
  BY <1>7, <1>8

LEMMA IdAnnounced ==
    ASSUME NEW m, MessageOK(m), NEW flag
    PROVE  Announced(id_text(flag, m))
<1>1. PICK n \in Nat : n = IF flag = "t" THEN m.thread_id ELSE Pid
  BY EnvironmentAssumption DEF MessageOK
<1>2. PICK t : t = append_int(n)
  OBVIOUS
<1>3. Announced(Out(count_digits_fallback[n], t))
  BY <1>2, NumberSized, OutAnnounced
<1>4. QED
  BY <1>1, <1>2, <1>3 DEF id_text

(* What follows the last separator of a file name.                         *)
LEMMA GreatestElement ==
    ASSUME NEW n \in Nat, NEW S, S \subseteq 1 .. n, S # {}
    PROVE  \E x \in S : \A y \in S : x >= y
<1> DEFINE R == {k \in Nat : \E x \in S : k = n - x}
<1>1. PICK x \in S : TRUE
  OBVIOUS
<1>2. \A y \in S : y \in 1 .. n /\ n - y \in Nat
  <2>1. \A y \in 1 .. n : n - y \in Nat
    BY SMT
  <2>2. QED
    BY <2>1
<1>3. n - x \in R
  BY <1>2
<1>4. PICK k \in R : \A j \in R : ~(j < k)
  <2>1. R \subseteq Nat
    OBVIOUS
  <2>2. QED
    BY <1>3, <2>1, LeastElement
<1>5. PICK z \in S : k = n - z
  OBVIOUS
<1>6. ASSUME NEW y \in S
      PROVE  z >= y
  <2>1. n - y \in R
    BY <1>2
  <2>2. ~(n - y < n - z)
    BY <1>4, <1>5, <2>1
  <2>3. y \in 1 .. n /\ z \in 1 .. n
    BY <1>2
  <2>4. QED
    BY <2>2, <2>3, SMT
<1>7. QED
  BY <1>6

LEMMA BasenameIsText ==
    ASSUME NEW file, IsText(file)
    PROVE  IsText(basename(file))
<1>1. PICK S : file \in Seq(S)
  BY DEF IsText
<1>2. PICK n \in Nat : n = Len(file)
  BY TextLength
<1>3. PICK I : I = {i \in 1 .. n : file[i] = <<"/", 0>>}
  OBVIOUS
<1>4. PICK k : k = IF I # {} THEN Max(I) ELSE 0
  OBVIOUS
<1>5. k \in 0 .. n
  <2>1. CASE I = {}
    <3>1. 0 \in 0 .. n
      BY SMT
    <3>2. QED
      BY <1>4, <2>1, <3>1
  <2>2. CASE I # {}
    <3>1. I \subseteq 1 .. n
      BY <1>3
    <3>2. \E x \in I : \A y \in I : x >= y
      BY <2>2, <3>1, GreatestElement
    <3>3. Max(I) \in I
      BY <3>2 DEF Max
    <3>4. \A i \in 1 .. n : i \in 0 .. n
      BY SMT
    <3>5. QED
      BY <1>4, <2>2, <3>1, <3>3, <3>4
  <2>3. QED
    BY <2>1, <2>2
<1>6. basename(file) = SubSeq(file, k + 1, n)
  BY <1>2, <1>3, <1>4 DEF basename, SelectLastInSeq
<1>7. k + 1 \in Int /\ n \in Int /\ \A i \in k + 1 .. n : i \in 1 .. n
  BY <1>5, SMT
<1>8. \A i \in k + 1 .. n : file[i] \in S
  BY <1>1, <1>2, <1>7, ElementOfSeq
<1>9. SubSeq(file, k + 1, n) \in Seq(S)
  BY <1>7, <1>8, SubSeqProperties
<1>10. QED
  BY <1>6, <1>9 DEF IsText

LEMMA SourceAnnounced ==
    ASSUME NEW m, MessageOK(m), NEW flag \in {"@", "s", "g", "#", "!"}
    PROVE  Announced(source_text(flag, m))
<1>1. CASE m.line <= 0
  <2>1. source_text(flag, m) = Out(0, <<>>)
    BY <1>1 DEF source_text
  <2>2. QED
    BY <2>1, EmptySized, OutAnnounced
<1>2. CASE ~(m.line <= 0)
  <2>1. PICK n : n = m.line
    OBVIOUS
  <2>2. n \in Nat
    BY <1>2, <2>1, SMT DEF MessageOK
  <2>3. PICK d, c : d = append_int(n) /\ c = count_digits_fallback[n]
    OBVIOUS
  <2>4. Sized(d, c) /\ c \in Nat
    BY <2>2, <2>3, NumberSized, CountIs
  <2>5. PICK file, len : file = m.file /\ len = Len(file)
    OBVIOUS
  <2>6. Sized(file, len) /\ len \in Nat
    BY <2>5, TextLength DEF Sized, MessageOK
  <2>7. PICK t : t = Join2(file, d, ":")
    OBVIOUS
  <2>8. Sized(t, len + 1 + c)
    BY <2>4, <2>6, <2>7, Join2Sized
  <2>9. len + 1 + c = len + c + 1
    BY <2>4, <2>6, SMT
  <2>10. PICK b : b = basename(file)
    OBVIOUS
  <2>11. IsText(b)
    BY <2>6, <2>10, BasenameIsText DEF Sized
  <2>12. /\ Announced(Out(len + c + 1, t)) /\ Announced(Whole(b)) /\ Announced(Whole(m.file))
         /\ Announced(Out(c, d)) /\ Announced(Whole(m.func))
    BY <2>4, <2>8, <2>9, <2>11, OutAnnounced, WholeAnnounced DEF MessageOK
  <2>13. source_text(flag, m) \in {Out(len + c + 1, t), Whole(b), Whole(m.file), Out(c, d), Whole(m.func)}
    BY <1>2, <2>1, <2>3, <2>5, <2>7, <2>10 DEF source_text
  <2>14. QED
    BY <2>12, <2>13
<1>3. QED
  BY <1>1, <1>2

(* The time since the message before is never negative.                    *)
LEMMA ElapsedAnnounced ==
    ASSUME NEW m, MessageOK(m), NEW st, st.secs \in Nat, st.nanos \in Nanoseconds,
           NEW flag \in ElapsedFlags
    PROVE  Announced(elapsed_text(flag, m, st))
<1>1. PICK s \in Nat : s = m.secs
  BY DEF MessageOK
<1>2. PICK n \in Nat : n = m.nanos /\ n < 10 ^ 9
  BY SMT DEF MessageOK, Nanoseconds
<1>3. PICK t \in Nat : t = st.secs
  OBVIOUS
<1>4. PICK p \in Nat : p = st.nanos /\ p < 10 ^ 9
  BY SMT DEF Nanoseconds
<1>5. PICK borrow : borrow = IF n < p THEN 1 ELSE 0
  OBVIOUS
<1>6. PICK earlier \in BOOLEAN : earlier <=> s < t \/ (s = t /\ n < p)
  OBVIOUS
<1>7. PICK secs : secs = IF earlier THEN 0 ELSE s - t - borrow
  OBVIOUS
<1>8. PICK nanos : nanos = IF earlier THEN 0 ELSE n - p + borrow * 10 ^ 9
  OBVIOUS
<1>9. secs \in Nat
  BY <1>5, <1>6, <1>7, SMT
<1>10. nanos \in Nat
  BY <1>2, <1>4, <1>5, <1>8, SMT
<1>11. PICK w : w = Units[flag]
  OBVIOUS
<1>12. w \in {0, 3, 6, 9}
  BY <1>11, SMT DEF Units, ElapsedFlags
<1>13. PICK frac : frac = nanos \div 10 ^ (9 - w)
  OBVIOUS
<1>14. frac \in Nat /\ w \in Nat
  <2>1. w = 0 => frac \in Nat
    BY <1>10, <1>13, SMT
  <2>2. w = 3 => frac \in Nat
    BY <1>10, <1>13, SMT
  <2>3. w = 6 => frac \in Nat
    BY <1>10, <1>13, SMT
  <2>4. w = 9 => frac \in Nat
    BY <1>10, <1>13, SMT
  <2>5. QED
    BY <1>12, <2>1, <2>2, <2>3, <2>4
<1>15. PICK x : x = IF w = 0 THEN Dec[secs] ELSE DecScaled(secs, frac, w)
  OBVIOUS
<1>16. IsText(x)
  BY <1>9, <1>14, <1>15, DigitsAreText, DecScaledIsText
<1>17. elapsed_text(flag, m, st) = Whole(x)
  BY <1>1, <1>2, <1>3, <1>4, <1>5, <1>6, <1>7, <1>8, <1>11, <1>13, <1>15 DEF elapsed_text
<1>18. QED
  BY <1>16, <1>17, WholeAnnounced

LEMMA ZoneAnnounced ==
    ASSUME NEW offset \in Offsets
    PROVE  Announced(zone_text(offset))
<1>1. PICK k : k = IF offset < 0 THEN -offset ELSE offset
  OBVIOUS
<1>2. k \div 60 \in 0 .. 99 /\ k % 60 \in 0 .. 99
  BY <1>1, SMT DEF Offsets
<1>3. PICK a, b, c : a = pad2(k \div 60) /\ b = pad2(k % 60) /\ c = Chr(IF offset < 0 THEN "-" ELSE "+")
  OBVIOUS
<1>4. Sized(a, 2) /\ Sized(b, 2) /\ Sized(c, 1)
  BY <1>2, <1>3, Pad2Sized, ChrSized
<1>5. PICK t : t = Join2(a, b, ":")
  OBVIOUS
<1>6. Sized(t, 2 + 1 + 2)
  BY <1>4, <1>5, Join2Sized
<1>7. Sized(c \o t, 1 + (2 + 1 + 2)) /\ 1 + (2 + 1 + 2) = 6
  BY <1>4, <1>6, ConcatSized
<1>8. Announced(Out(6, c \o t))
  BY <1>7, OutAnnounced
<1>9. zone_text(offset) = Out(6, c \o t)
  BY <1>1, <1>3, <1>5, SMT DEF zone_text
<1>10. QED
  BY <1>8, <1>9

(* The two flags that announce a size they may not write.                  *)
Wrong(f, m, tm) == (f.flag = "c" /\ tm.mday < 10) \/ (f.flag = "E" /\ Early(m))

LEMMA FieldAnnounced ==
    ASSUME NEW f, f.flag \in Plain, NEW m, MessageOK(m), NEW tm, TmOK(tm),
           NEW o, o = field_text(f, m, tm)
    PROVE  IsText(o.text) /\ o.size \in Nat /\ (Wrong(f, m, tm) \/ Announced(o))
<1>1. Announced(o) => IsText(o.text) /\ o.size \in Nat
  BY TextLength DEF Announced
<1>2. PICK flag : flag = f.flag
  OBVIOUS
<1>3. flag \in {"v", "custom", "n", "l", "L", "a", "A", "b", "B", "c", "C", "D", "Y", "m", "d", "H", "I", "M", "S",
                "p", "r", "R", "T", "e", "f", "F", "E", "t", "P", "@", "s", "g", "#", "!"}
  BY <1>2 DEF Plain, Kinds, TimeFlags, OtherFlags, ElapsedFlags
<1>4. CASE flag = "v"
  <2>1. o = Whole(m.payload)
    BY <1>2, <1>4 DEF field_text, payload_text
  <2>2. QED
    BY <1>1, <2>1, WholeAnnounced DEF MessageOK
<1>5. CASE flag = "custom"
  <2>1. PICK t : t = Str(<<"custom", f.chars>>, 1)
    OBVIOUS
  <2>2. o = Whole(t) /\ IsText(t)
    BY <1>2, <1>5, <2>1, StrSized DEF field_text, Sized
  <2>3. QED
    BY <1>1, <2>2, WholeAnnounced
<1>6. CASE flag \in {"n", "l", "L"}
  <2>1. o = name_level_text(flag, m)
    BY <1>2, <1>6 DEF field_text
  <2>2. QED
    BY <1>1, <1>6, <2>1, LevelAnnounced
<1>7. CASE flag \in {"a", "A", "b", "B"}
  <2>1. o = day_month_text(flag, tm)
    BY <1>2, <1>7 DEF field_text
  <2>2. QED
    BY <1>1, <1>7, <2>1, DayMonthAnnounced
<1>8. CASE flag \in {"c", "C", "D", "Y", "m", "d"}
  <2>1. o = date_text(flag, tm)
    BY <1>2, <1>8 DEF field_text
  <2>2. IsText(o.text) /\ (flag = "c" => o.size = 24) /\ (~(flag = "c" /\ tm.mday < 10) => Announced(o))
    BY <1>8, <2>1, DateAnnounced
  <2>3. flag = "c" => o.size \in Nat
    <3>1. 24 \in Nat
      BY SMT
    <3>2. QED
      BY <2>2, <3>1
  <2>4. QED
    BY <1>1, <1>2, <2>2, <2>3 DEF Wrong
<1>9. CASE flag \in {"H", "I", "M", "S"}
  <2>1. o = hour_text(flag, tm)
    BY <1>2, <1>9 DEF field_text
  <2>2. QED
    BY <1>1, <1>9, <2>1, HourAnnounced
<1>10. CASE flag \in {"p", "r", "R", "T"}
  <2>1. o = clock_text(flag, tm)
    BY <1>2, <1>10 DEF field_text
  <2>2. QED
    BY <1>1, <1>10, <2>1, ClockAnnounced
<1>11. CASE flag \in {"e", "f", "F", "E"}
  <2>1. o = fraction_text(flag, m)
    BY <1>2, <1>11 DEF field_text
  <2>2. QED
    BY <1>2, <1>11, <2>1, FractionAnnounced DEF Wrong
<1>12. CASE flag \in {"t", "P"}
  <2>1. o = id_text(flag, m)
    BY <1>2, <1>12 DEF field_text
  <2>2. QED
    BY <1>1, <2>1, IdAnnounced
<1>13. CASE flag \in {"@", "s", "g", "#", "!"}
  <2>1. o = source_text(flag, m)
    BY <1>2, <1>13 DEF field_text
  <2>2. QED
    BY <1>1, <1>13, <2>1, SourceAnnounced
<1>14. QED
  BY <1>3, <1>4, <1>5, <1>6, <1>7, <1>8, <1>9, <1>10, <1>11, <1>12, <1>13

(* Whatever size is announced, the padder leaves a text.                   *)
LEMMA PaddedIsText ==
    ASSUME NEW pad \in Pads, NEW before, IsText(before), NEW o, IsText(o.text), o.size \in Nat
    PROVE  IsText(Padded(pad, before, o))
<1>1. PICK text : text = o.text
  OBVIOUS
<1>2. PICK b \in Nat : b = Len(before)
  BY TextLength
<1>3. PICK l \in Nat : l = Len(text)
  BY <1>1, TextLength
<1>4. PICK n \in Nat : n = o.size
  OBVIOUS
<1>5. PICK w \in Nat : w = pad.width
  <2>1. \A k \in 0 .. 64 : k \in Nat
    BY SMT
  <2>2. QED
    BY <2>1 DEF Pads, MaxWidth
<1>6. PICK whole : whole = before \o text
  OBVIOUS
<1>7. IsText(whole) /\ Len(whole) = b + l
  BY <1>1, <1>2, <1>3, <1>6, TextConcat
<1>8. CASE ~pad.enabled
  BY <1>1, <1>6, <1>7, <1>8 DEF Padded
<1>9. CASE pad.enabled /\ w - n >= 0
  <2>1. PICK left : left = CASE pad.side = "left"   -> w - n
                             [] pad.side = "center" -> (w - n) \div 2
                             [] pad.side = "right"  -> 0
    OBVIOUS
  <2>2. left \in Nat /\ w - n - left \in Nat
    <3>1. PICK r \in Nat : r = w - n
      BY <1>9, SMT
    <3>2. left = r \/ left = r \div 2 \/ left = 0
      BY <2>1, <3>1 DEF Pads
    <3>3. r \div 2 \in Nat /\ r - r \div 2 \in Nat /\ r - r \in Nat /\ r - 0 \in Nat
      BY <3>1, SMT
    <3>4. QED
      BY <3>1, <3>2, <3>3
  <2>3. PICK s1, s2 : s1 = Spaces(left) /\ s2 = Spaces(w - n - left)
    OBVIOUS
  <2>4. IsText(s1) /\ IsText(s2)
    BY <2>2, <2>3, SpacesAreText
  <2>5. Padded(pad, before, o) = before \o s1 \o text \o s2
    BY <1>1, <1>4, <1>5, <1>9, <2>1, <2>3 DEF Padded, scoped_padder
  <2>6. PICK t1, t2 : t1 = before \o s1 /\ t2 = t1 \o text
    OBVIOUS
  <2>7. IsText(t1)
    BY <2>4, <2>6, ConcatIsText
  <2>8. IsText(t2)
    BY <1>1, <2>6, <2>7, ConcatIsText
  <2>9. IsText(t2 \o s2)
    BY <2>4, <2>8, ConcatIsText
  <2>10. QED
    BY <2>5, <2>6, <2>9
<1>10. CASE pad.enabled /\ ~(w - n >= 0) /\ ~pad.truncate
  <2>1. Padded(pad, before, o) = whole
    BY <1>1, <1>4, <1>5, <1>6, <1>10 DEF Padded, scoped_padder
  <2>2. QED
    BY <1>7, <2>1
<1>11. CASE pad.enabled /\ ~(w - n >= 0) /\ pad.truncate
  <2>1. PICK cut : cut = b + l + (w - n)
    OBVIOUS
  <2>2. PICK k : k = IF cut < 0 THEN 0 ELSE cut
    OBVIOUS
  <2>3. k \in 0 .. b + l
    BY <1>11, <2>1, <2>2, SMT
  <2>4. Padded(pad, before, o) = SubSeq(whole, 1, k)
    BY <1>1, <1>4, <1>5, <1>6, <1>7, <1>11, <2>1, <2>2 DEF Padded, scoped_padder
  <2>5. QED
    BY <1>7, <2>3, <2>4, TextCut
<1>12. QED
  BY <1>8, <1>9, <1>10, <1>11

-----------------------------------------------------------------------------
(* format_mdc goes on from what is there.                                  *)
ContextOK(ctx) == \A k \in DOMAIN ctx : IsText(ctx[k])
MdcPair(ctx, i) == Str(Keys[i], 1) \o Chr(":") \o ctx[Keys[i]]
                   \o (IF \A k \in i + 1 .. Len(Keys) : Keys[k] \notin DOMAIN ctx THEN <<>> ELSE Chr(" "))
MdcStep(pad, ctx, i, t) == IF Keys[i] \in DOMAIN ctx THEN Padded(pad, t, Whole(MdcPair(ctx, i))) ELSE t
MdcUpto(g, n, pad, before, ctx) ==
    g = [i \in 0 .. n |-> IF i = 0 THEN before ELSE MdcStep(pad, ctx, i, g[i - 1])]

LEMMA MdcStepFits ==
    ASSUME NEW pad \in Pads, NEW ctx, ContextOK(ctx), NEW i, NEW t, IsText(t)
    PROVE  IsText(MdcStep(pad, ctx, i, t)) /\ Begins(t, MdcStep(pad, ctx, i, t))
<1>1. CASE Keys[i] \notin DOMAIN ctx
  <2>1. MdcStep(pad, ctx, i, t) = t
    BY <1>1 DEF MdcStep
  <2>2. QED
    BY <2>1, TextLength
<1>2. CASE Keys[i] \in DOMAIN ctx
  <2>1. PICK a, b, c, d : /\ a = Str(Keys[i], 1) /\ b = Chr(":") /\ c = ctx[Keys[i]]
                          /\ d = IF \A k \in i + 1 .. Len(Keys) : Keys[k] \notin DOMAIN ctx THEN <<>> ELSE Chr(" ")
    OBVIOUS
  <2>2. IsText(a) /\ IsText(b) /\ IsText(c) /\ IsText(d)
    BY <1>2, <2>1, StrSized, ChrSized, EmptySized DEF Sized, ContextOK
  <2>3. PICK x, y : x = a \o b /\ y = x \o c
    OBVIOUS
  <2>4. IsText(x)
    BY <2>2, <2>3, ConcatIsText
  <2>5. IsText(y)
    BY <2>2, <2>3, <2>4, ConcatIsText
  <2>6. PICK p : p = y \o d
    OBVIOUS
  <2>7. IsText(p)
    BY <2>2, <2>5, <2>6, ConcatIsText
  <2>8. MdcPair(ctx, i) = p
    BY <2>1, <2>3, <2>6 DEF MdcPair
  <2>9. Announced(Whole(p))
    BY <2>7, WholeAnnounced
  <2>10. Fits(pad, t, Padded(pad, t, Whole(p)))
    BY <2>9, PaddedFits DEF Announced
  <2>11. MdcStep(pad, ctx, i, t) = Padded(pad, t, Whole(p))
    BY <1>2, <2>8 DEF MdcStep
  <2>12. QED
    BY <2>10, <2>11 DEF Fits
<1>3. QED
  BY <1>1, <1>2

LEMMA MdcUptoExists ==
    ASSUME NEW n \in Nat, NEW pad, NEW before, NEW ctx
    PROVE  \E g : MdcUpto(g, n, pad, before, ctx)
<1> DEFINE S == {j \in Nat : ~\E g : MdcUpto(g, j, pad, before, ctx)}
<1> SUFFICES ASSUME n \in S PROVE FALSE
  OBVIOUS
<1>1. PICK j \in S : \A k \in S : ~(k < j)
  BY LeastElement
<1>2. j \in Nat /\ ~\E g : MdcUpto(g, j, pad, before, ctx)
  BY <1>1
<1>3. CASE j = 0
  <2>1. PICK g : g = [i \in 0 .. 0 |-> before]
    OBVIOUS
  <2>2. \A i \in 0 .. 0 : i = 0
    BY SMT
  <2>3. MdcUpto(g, 0, pad, before, ctx)
    BY <2>1, <2>2 DEF MdcUpto
  <2>4. QED
    BY <1>2, <1>3, <2>3
<1>4. CASE j # 0
  <2>1. PICK k \in Nat : k = j - 1 /\ k < j
    BY <1>2, <1>4, SMT
  <2>2. PICK g : MdcUpto(g, k, pad, before, ctx)
    BY <1>1, <2>1
  <2>3. PICK f : f = [i \in 0 .. j |-> IF i = j THEN MdcStep(pad, ctx, j, g[k]) ELSE g[i]]
    OBVIOUS
  <2>4. \A i \in 0 .. j : i = j \/ (i # j /\ i \in 0 .. k)
    BY <1>2, <2>1, SMT
  <2>5. \A i \in 0 .. j : i # 0 => i - 1 \in 0 .. j /\ i - 1 # j
    BY <1>2, SMT
  <2>6. ASSUME NEW i \in 0 .. j
        PROVE  f[i] = IF i = 0 THEN before ELSE MdcStep(pad, ctx, i, f[i - 1])
    <3>1. i # 0 => f[i - 1] = g[i - 1]
      BY <2>3, <2>5
    <3>2. CASE i = j
      <4>1. f[i] = MdcStep(pad, ctx, j, g[k])
        BY <2>3, <3>2
      <4>2. QED
        BY <1>4, <2>1, <3>1, <3>2, <4>1
    <3>3. CASE i # j
      <4>1. f[i] = g[i] /\ i \in 0 .. k
        BY <2>3, <2>4, <3>3
      <4>2. g[i] = IF i = 0 THEN before ELSE MdcStep(pad, ctx, i, g[i - 1])
        BY <2>2, <4>1 DEF MdcUpto
      <4>3. QED
        BY <3>1, <4>1, <4>2
    <3>4. QED
      BY <3>2, <3>3
  <2>7. MdcUpto(f, j, pad, before, ctx)
    BY <2>3, <2>6 DEF MdcUpto
  <2>8. QED
    BY <1>2, <2>7
<1>5. QED
  BY <1>3, <1>4

LEMMA MdcUptoFits ==
    ASSUME NEW n \in Nat, NEW pad \in Pads, NEW before, IsText(before), NEW ctx, ContextOK(ctx),
           NEW g, MdcUpto(g, n, pad, before, ctx), NEW i \in 0 .. n
    PROVE  IsText(g[i]) /\ Begins(before, g[i])
<1> DEFINE S == {k \in 0 .. n : ~(IsText(g[k]) /\ Begins(before, g[k]))}
<1> SUFFICES ASSUME i \in S PROVE FALSE
  OBVIOUS
<1>1. PICK k \in S : \A j \in S : ~(j < k)
  <2>1. S \subseteq Nat
    BY SMT
  <2>2. QED
    BY <2>1, LeastElement
<1>2. k \in 0 .. n /\ ~(IsText(g[k]) /\ Begins(before, g[k]))
  BY <1>1
<1>3. CASE k = 0
  <2>1. g[k] = before
    BY <1>2, <1>3 DEF MdcUpto
  <2>2. QED
    BY <1>2, <2>1, TextLength
<1>4. CASE k # 0
  <2>1. k - 1 \in 0 .. n /\ k - 1 < k
    BY <1>2, <1>4, SMT
  <2>2. PICK t : t = g[k - 1]
    OBVIOUS
  <2>3. IsText(t) /\ Begins(before, t)
    BY <1>1, <2>1, <2>2
  <2>4. g[k] = MdcStep(pad, ctx, k, t)
    BY <1>2, <1>4, <2>2 DEF MdcUpto
  <2>5. IsText(g[k]) /\ Begins(t, g[k])
    BY <2>3, <2>4, MdcStepFits
  <2>6. QED
    BY <1>2, <2>3, <2>5, BeginsTransitive
<1>5. QED
  BY <1>3, <1>4

LEMMA MdcFits ==
    ASSUME NEW pad \in Pads, NEW before, IsText(before), NEW ctx, ContextOK(ctx),
           NEW t, t = format_mdc(pad, before, ctx)
    PROVE  IsText(t) /\ Begins(before, t)
<1>1. PICK n \in Nat : n = Len(Keys)
  BY EnvironmentAssumption, LenProperties
<1>2. CASE DOMAIN ctx = {}
  <2>1. t = Padded(pad, before, Out(0, <<>>))
    BY <1>2 DEF format_mdc
  <2>2. Announced(Out(0, <<>>))
    BY EmptySized, OutAnnounced
  <2>3. Fits(pad, before, t)
    BY <2>1, <2>2, PaddedFits DEF Announced
  <2>4. QED
    BY <2>3 DEF Fits
<1>3. CASE DOMAIN ctx # {}
  <2> DEFINE upto == CHOOSE g : MdcUpto(g, n, pad, before, ctx)
  <2>1. t = upto[n]
    BY <1>1, <1>3 DEF format_mdc, MdcUpto, MdcStep, MdcPair
  <2>2. MdcUpto(upto, n, pad, before, ctx)
    BY MdcUptoExists
  <2> HIDE DEF upto
  <2>3. n \in 0 .. n
    BY SMT
  <2>4. QED
    BY <2>1, <2>2, <2>3, MdcUptoFits
<1>4. QED
  BY <1>2, <1>3

-----------------------------------------------------------------------------
(* The states that flags keep.                                             *)
StateFits(st) == /\ StateOK(st) /\ st.nanos \in Nanoseconds
                 /\ st.offset \in Offsets /\ IsText(st.text)

LEMMA StateFitsFields ==
    ASSUME NEW a \in Nat, NEW b \in Nanoseconds, NEW c \in Offsets, NEW d, IsText(d),
           NEW st, st = [secs |-> a, nanos |-> b, offset |-> c, text |-> d]
    PROVE  StateFits(st)
<1>1. StateOK([secs |-> a, nanos |-> b, offset |-> c, text |-> d])
  BY SecondsOf
<1>2. QED
  BY <1>1 DEF StateFits

LEMMA DatetimeIsText ==
    ASSUME NEW tm, TmOK(tm)
    PROVE  IsText(datetime_text(tm))
<1>1. PICK a, b, c, d : a = FullYear(tm) /\ b = MonthNumber(tm) /\ c = pad2(tm.mday) /\ d = Clock24(tm)
  OBVIOUS
<1>2. Sized(a, 4) /\ Sized(b, 2) /\ Sized(c, 2) /\ Sized(d, 8)
  BY <1>1, YearSized, ShortTextsSized, Clock24Sized
<1>3. PICK e : e = Join3(a, b, c, "-")
  OBVIOUS
<1>4. IsText(e)
  BY <1>2, <1>3, Join3Sized DEF Sized
<1>5. IsText(Join2(e, d, " "))
  BY <1>2, <1>4, Join2IsText DEF Sized
<1>6. datetime_text(tm) = Join2(Join3(FullYear(tm), MonthNumber(tm), pad2(tm.mday), "-"), Clock24(tm), " ")
  BY SMT DEF datetime_text, FullYear, MonthNumber
<1>7. QED
  BY <1>1, <1>3, <1>5, <1>6

LEMMA FullDatetimeFits ==
    ASSUME NEW m, MessageOK(m), NEW tm, TmOK(tm), NEW st, StateFits(st)
    PROVE  StateFits(full_datetime(m, tm, st))
<1>1. PICK t : t = datetime_text(tm)
  OBVIOUS
<1>2. IsText(t)
  BY <1>1, DatetimeIsText
<1>3. PICK r : r = [st EXCEPT !.secs = m.secs, !.text = t]
  OBVIOUS
<1>4. r = [secs |-> m.secs, nanos |-> st.nanos, offset |-> st.offset, text |-> t]
  <2>1. StateOK(st)
    BY DEF StateFits
  <2>2. QED
    BY <1>3, <2>1, DatedState
<1>5. StateFits(r)
  <2>1. m.secs \in Nat /\ st.nanos \in Nanoseconds /\ st.offset \in Offsets
    BY DEF StateFits, MessageOK
  <2>2. QED
    BY <1>2, <1>4, <2>1, StateFitsFields
<1>6. full_datetime(m, tm, st) = st \/ full_datetime(m, tm, st) = r
  BY <1>1, <1>3, Zenon DEF full_datetime
<1>7. QED
  BY <1>5, <1>6

LEMMA CachedOffsetFits ==
    ASSUME NEW m, MessageOK(m), NEW tm, TmOK(tm), NEW st, StateFits(st)
    PROVE  StateFits(get_cached_offset(m, tm, st))
<1>1. PICK r : r = [secs |-> m.secs, nanos |-> m.nanos, offset |-> tm.gmtoff \div 60, text |-> st.text]
  OBVIOUS
<1>2. StateFits(r)
  <2>1. m.secs \in Nat /\ m.nanos \in Nanoseconds /\ tm.gmtoff \div 60 \in Offsets /\ IsText(st.text)
    BY DEF StateFits, MessageOK, TmOK
  <2>2. QED
    BY <1>1, <2>1, StateFitsFields
<1>3. get_cached_offset(m, tm, st) = st \/ get_cached_offset(m, tm, st) = r
  BY <1>1, CachedOffset DEF StateFits
<1>4. QED
  BY <1>2, <1>3

LEMMA NewStateFits ==
    ASSUME NEW m, MessageOK(m), NEW tm, TmOK(tm), NEW z, NEW f, StateFits(f.st)
    PROVE  StateFits(NewState(f, m, tm, z))
<1>1. PICK st : st = f.st
  OBVIOUS
<1>2. PICK r : r = [st EXCEPT !.secs = m.secs, !.nanos = m.nanos]
  OBVIOUS
<1>3. r = [secs |-> m.secs, nanos |-> m.nanos, offset |-> st.offset, text |-> st.text]
  <2>1. StateOK(st)
    BY <1>1 DEF StateFits
  <2>2. QED
    BY <1>2, <2>1, TimedState
<1>4. StateFits(r)
  <2>1. m.secs \in Nat /\ m.nanos \in Nanoseconds /\ st.offset \in Offsets /\ IsText(st.text)
    BY <1>1 DEF StateFits, MessageOK
  <2>2. QED
    BY <1>3, <2>1, StateFitsFields
<1>5. NewState(f, m, tm, z) \in {r, get_cached_offset(m, tm, st), full_datetime(m, tm, st), st}
  BY <1>1, <1>2, Zenon DEF NewState
<1>6. StateFits(get_cached_offset(m, tm, st)) /\ StateFits(full_datetime(m, tm, st))
  BY <1>1, CachedOffsetFits, FullDatetimeFits
<1>7. QED
  BY <1>1, <1>4, <1>5, <1>6

-----------------------------------------------------------------------------
(* What full_formatter writes.                                             *)
LEMMA BracketedIsText ==
    ASSUME NEW t, IsText(t)
    PROVE  IsText(Bracketed(t))
<1>1. PICK a, b, c : a = Chr("[") /\ b = Chr("]") /\ c = Chr(" ")
  OBVIOUS
<1>2. IsText(a) /\ IsText(b) /\ IsText(c)
  BY <1>1, ChrSized DEF Sized
<1>3. IsText(a \o t)
  BY <1>2, ConcatIsText
<1>4. IsText(a \o t \o b)
  BY <1>2, <1>3, ConcatIsText
<1>5. IsText(a \o t \o b \o c)
  BY <1>2, <1>4, ConcatIsText
<1>6. QED
  BY <1>1, <1>5 DEF Bracketed

LEMMA FullHeadIsText ==
    ASSUME NEW m, MessageOK(m), NEW st, IsText(st.text)
    PROVE  IsText(full_head(m, st))
<1>1. PICK k : k = time_fraction(m, 3)
  OBVIOUS
<1>2. k \in Nat /\ k < 1000
  BY <1>1, SMT DEF time_fraction, MessageOK, Nanoseconds
<1>3. PICK p, dot : p = pad3(k) /\ dot = Chr(".")
  OBVIOUS
<1>4. IsText(p) /\ IsText(dot)
  BY <1>2, <1>3, Pad3Sized, ChrSized DEF Sized
<1>5. PICK t : t = st.text
  OBVIOUS
<1>6. IsText(t \o dot)
  BY <1>4, <1>5, ConcatIsText
<1>7. IsText(t \o dot \o p)
  BY <1>4, <1>6, ConcatIsText
<1>8. PICK a : a = Bracketed(t \o dot \o p)
  OBVIOUS
<1>9. PICK b : b = IF m.name = <<>> THEN <<>> ELSE Bracketed(m.name)
  OBVIOUS
<1>10. PICK c : c = Chr("[")
  OBVIOUS
<1>11. IsText(a) /\ IsText(b) /\ IsText(c)
  <2>1. IsText(a)
    BY <1>7, <1>8, BracketedIsText
  <2>2. IsText(Bracketed(m.name)) /\ IsText(<<>>)
    BY BracketedIsText, EmptySized DEF MessageOK, Sized
  <2>3. QED
    BY <1>9, <1>10, <2>1, <2>2, ChrSized DEF Sized
<1>12. IsText(a \o b)
  BY <1>11, ConcatIsText
<1>13. IsText(a \o b \o c)
  BY <1>11, <1>12, ConcatIsText
<1>14. full_head(m, st) = a \o b \o c
  BY <1>1, <1>3, <1>5, <1>8, <1>9, <1>10 DEF full_head
<1>15. QED
  BY <1>13, <1>14

LEMMA FullTailIsText ==
    ASSUME NEW m, MessageOK(m), NEW ctx, ContextOK(ctx)
    PROVE  IsText(full_tail(m, ctx))
<1>1. PICK a, b : a = Chr("]") /\ b = Chr(" ")
  OBVIOUS
<1>2. PICK c : c = IF m.line <= 0 THEN <<>> ELSE Bracketed(Join2(basename(m.file), append_int(m.line), ":"))
  OBVIOUS
<1>3. PICK d : d = IF ctx = <<>> THEN <<>> ELSE Bracketed(format_mdc(NoPad, <<>>, ctx))
  OBVIOUS
<1>4. PICK e : e = m.payload
  OBVIOUS
<1>5. IsText(<<>>)
  BY EmptySized DEF Sized
<1>6. IsText(a) /\ IsText(b) /\ IsText(e)
  BY <1>1, <1>4, ChrSized DEF Sized, MessageOK
<1>7. IsText(c)
  <2>1. CASE m.line <= 0
    BY <1>2, <1>5, <2>1
  <2>2. CASE ~(m.line <= 0)
    <3>1. PICK n : n = m.line
      OBVIOUS
    <3>2. n \in Nat
      BY <2>2, <3>1, SMT DEF MessageOK
    <3>3. IsText(append_int(n))
      BY <3>2, NumberSized DEF Sized
    <3>4. IsText(basename(m.file))
      BY BasenameIsText DEF MessageOK
    <3>5. PICK t : t = Join2(basename(m.file), append_int(n), ":")
      OBVIOUS
    <3>6. IsText(t)
      BY <3>3, <3>4, <3>5, Join2IsText
    <3>7. c = Bracketed(t)
      BY <1>2, <2>2, <3>1, <3>5
    <3>8. QED
      BY <3>6, <3>7, BracketedIsText
  <2>3. QED
    BY <2>1, <2>2
<1>8. IsText(d)
  <2>1. PICK t : t = format_mdc(NoPad, <<>>, ctx)
    OBVIOUS
  <2>2. NoPad \in Pads
    BY SMT DEF NoPad, Pads, MaxWidth
  <2>3. IsText(t)
    BY <1>5, <2>1, <2>2, MdcFits
  <2>4. IsText(Bracketed(t))
    BY <2>3, BracketedIsText
  <2>5. QED
    BY <1>3, <1>5, <2>1, <2>4
<1>9. IsText(a \o b)
  BY <1>6, ConcatIsText
<1>10. IsText(a \o b \o c)
  BY <1>7, <1>9, ConcatIsText
<1>11. IsText(a \o b \o c \o d)
  BY <1>8, <1>10, ConcatIsText
<1>12. IsText(a \o b \o c \o d \o e)
  BY <1>6, <1>11, ConcatIsText
<1>13. full_tail(m, ctx) = a \o b \o c \o d \o e
  BY <1>1, <1>2, <1>3, <1>4 DEF full_tail
<1>14. QED
  BY <1>12, <1>13

-----------------------------------------------------------------------------
(* What one formatter does to the buffer and to the colour range.          *)
FlagOK(f) == /\ f.flag \in Kinds /\ f.pad \in Pads /\ f.chars \in Seq(Characters)
             /\ f.flag = "chars" => ~f.pad.enabled
             /\ StateFits(f.st)
RangeIn(acc) == acc.range[2] \in Nat /\ acc.range[2] <= Len(acc.dest)
Unpadded == {"&", "+", "^", "$"}
GoesOn(f, acc, r) == /\ IsText(r.dest) /\ Begins(acc.dest, r.dest)
                     /\ f.flag \notin Unpadded => Fits(f.pad, acc.dest, r.dest)
                     /\ RangeIn(acc) => RangeIn(r)

LEMMA RangeStays ==
    ASSUME NEW acc, NEW r, IsText(acc.dest), IsText(r.dest), Begins(acc.dest, r.dest), r.range = acc.range,
           RangeIn(acc)
    PROVE  RangeIn(r)
<1>1. PICK k \in Nat : k = acc.range[2] /\ k <= Len(acc.dest)
  BY DEF RangeIn
<1>2. Len(acc.dest) \in Nat /\ Len(r.dest) \in Nat /\ Len(acc.dest) <= Len(r.dest)
  BY TextLength DEF Begins
<1>3. k <= Len(r.dest)
  BY <1>1, <1>2, SMT
<1>4. QED
  BY <1>1, <1>3 DEF RangeIn

LEMMA PaddedGoesOn ==
    ASSUME NEW f, f.pad \in Pads, NEW acc, IsText(acc.dest), NEW o, Announced(o),
           NEW r, r.dest = Padded(f.pad, acc.dest, o), r.range = acc.range
    PROVE  GoesOn(f, acc, r)
<1>1. Fits(f.pad, acc.dest, r.dest)
  BY PaddedFits DEF Announced
<1>2. IsText(r.dest) /\ Begins(acc.dest, r.dest)
  BY <1>1 DEF Fits
<1>3. QED
  BY <1>1, <1>2, RangeStays DEF GoesOn

LEMMA LiteralIsText ==
    ASSUME NEW f, f.chars \in Seq(Characters)
    PROVE  IsText(literal_text(f))
<1>1. PICK n \in Nat : n = Len(f.chars) /\ DOMAIN f.chars = 1 .. n
  BY LenProperties
<1>2. PICK t : t = literal_text(f)
  OBVIOUS
<1>3. t = [i \in 1 .. n |-> t[i]]
  BY <1>1, <1>2 DEF literal_text
<1>4. QED
  BY <1>2, <1>3, TextByPlace

LEMMA LiteralGoesOn ==
    ASSUME NEW f, FlagOK(f), f.flag = "chars", NEW m, NEW tm, NEW ctx, NEW z, NEW acc, IsText(acc.dest)
    PROVE  GoesOn(f, acc, FormatFlag(f, m, tm, ctx, z, acc))
<1>1. PICK r : r = FormatFlag(f, m, tm, ctx, z, acc)
  OBVIOUS
<1>2. PICK t, u : t = literal_text(f) /\ u = acc.dest \o t
  OBVIOUS
<1>3. r.dest = u /\ r.range = acc.range
  BY <1>1, <1>2 DEF FormatFlag, ElapsedFlags
<1>4. IsText(t)
  BY <1>2, LiteralIsText DEF FlagOK
<1>5. IsText(u) /\ Begins(acc.dest, u)
  BY <1>2, <1>4, TextConcat
<1>6. ~f.pad.enabled
  BY DEF FlagOK
<1>7. Fits(f.pad, acc.dest, u)
  BY <1>5, <1>6 DEF Fits
<1>8. RangeIn(acc) => RangeIn(r)
  BY <1>3, <1>5, RangeStays
<1>9. QED
  BY <1>1, <1>3, <1>5, <1>7, <1>8 DEF GoesOn

LEMMA ElapsedGoesOn ==
    ASSUME NEW f, FlagOK(f), f.flag \in ElapsedFlags, NEW m, MessageOK(m), NEW tm, NEW ctx, NEW z,
           NEW acc, IsText(acc.dest)
    PROVE  GoesOn(f, acc, FormatFlag(f, m, tm, ctx, z, acc))
<1>1. PICK r : r = FormatFlag(f, m, tm, ctx, z, acc)
  OBVIOUS
<1>2. PICK o : o = elapsed_text(f.flag, m, f.st)
  OBVIOUS
<1>3. f.st.secs \in Nat /\ f.st.nanos \in Nanoseconds
  BY SecondsAreNat DEF FlagOK, StateFits
<1>4. Announced(o)
  BY <1>2, <1>3, ElapsedAnnounced
<1>5. r.dest = Padded(f.pad, acc.dest, o) /\ r.range = acc.range
  BY <1>1, <1>2 DEF FormatFlag, ElapsedFlags
<1>6. QED
  BY <1>1, <1>4, <1>5, PaddedGoesOn DEF FlagOK

LEMMA ZoneGoesOn ==
    ASSUME NEW f, FlagOK(f), f.flag = "z", NEW m, MessageOK(m), NEW tm, TmOK(tm), NEW ctx, NEW z,
           NEW acc, IsText(acc.dest)
    PROVE  GoesOn(f, acc, FormatFlag(f, m, tm, ctx, z, acc))
<1>1. PICK r : r = FormatFlag(f, m, tm, ctx, z, acc)
  OBVIOUS
<1>2. PICK st : st = get_cached_offset(m, tm, f.st)
  OBVIOUS
<1>3. StateFits(st)
  BY <1>2, CachedOffsetFits DEF FlagOK
<1>4. PICK o : o = IF z THEN zone_text(0) ELSE zone_text(st.offset)
  OBVIOUS
<1>5. 0 \in Offsets
  BY SMT DEF Offsets
<1>6. Announced(o)
  BY <1>3, <1>4, <1>5, ZoneAnnounced DEF StateFits
<1>7. r.dest = Padded(f.pad, acc.dest, o) /\ r.range = acc.range
  BY <1>1, <1>2, <1>4 DEF FormatFlag, ElapsedFlags
<1>8. QED
  BY <1>1, <1>6, <1>7, PaddedGoesOn DEF FlagOK

LEMMA MdcGoesOn ==
    ASSUME NEW f, FlagOK(f), f.flag = "&", NEW m, NEW tm, NEW ctx, ContextOK(ctx), NEW z,
           NEW acc, IsText(acc.dest)
    PROVE  GoesOn(f, acc, FormatFlag(f, m, tm, ctx, z, acc))
<1>1. PICK r : r = FormatFlag(f, m, tm, ctx, z, acc)
  OBVIOUS
<1>2. r.dest = format_mdc(f.pad, acc.dest, ctx) /\ r.range = acc.range
  BY <1>1 DEF FormatFlag, ElapsedFlags
<1>3. IsText(r.dest) /\ Begins(acc.dest, r.dest)
  BY <1>2, MdcFits DEF FlagOK
<1>4. RangeIn(acc) => RangeIn(r)
  BY <1>2, <1>3, RangeStays
<1>5. f.flag \in Unpadded
  BY DEF Unpadded
<1>6. QED
  BY <1>1, <1>3, <1>4, <1>5 DEF GoesOn

LEMMA ColorGoesOn ==
    ASSUME NEW f, f.flag \in {"^", "$"}, NEW m, NEW tm, NEW ctx, NEW z, NEW acc, IsText(acc.dest)
    PROVE  GoesOn(f, acc, FormatFlag(f, m, tm, ctx, z, acc))
<1>1. PICK r : r = FormatFlag(f, m, tm, ctx, z, acc)
  OBVIOUS
<1>2. r.dest = acc.dest /\ r.range = color_range(f.flag, acc.range, Len(acc.dest))
  BY <1>1 DEF FormatFlag, ElapsedFlags
<1>3. IsText(r.dest) /\ Begins(acc.dest, r.dest)
  BY <1>2, TextLength
<1>4. RangeIn(acc) => RangeIn(r)
  <2>1. PICK n \in Nat : n = Len(acc.dest)
    BY TextLength
  <2>2. r.range[2] = acc.range[2] \/ r.range[2] = n
    BY <1>2, <2>1 DEF color_range
  <2>3. n <= n
    BY SMT
  <2>4. QED
    BY <1>2, <2>1, <2>2, <2>3 DEF RangeIn
<1>5. f.flag \in Unpadded
  BY DEF Unpadded
<1>6. QED
  BY <1>1, <1>3, <1>4, <1>5 DEF GoesOn

LEMMA FullGoesOn ==
    ASSUME NEW f, FlagOK(f), f.flag = "+", NEW m, MessageOK(m), NEW tm, TmOK(tm),
           NEW ctx, ContextOK(ctx), NEW z, NEW acc, IsText(acc.dest)
    PROVE  GoesOn(f, acc, FormatFlag(f, m, tm, ctx, z, acc))
<1>1. PICK r : r = FormatFlag(f, m, tm, ctx, z, acc)
  OBVIOUS
<1>2. PICK st : st = full_datetime(m, tm, f.st)
  OBVIOUS
<1>3. PICK a, head, level, tail : /\ a = full_head(m, st) /\ head = acc.dest \o a
                                  /\ level = name_level_text("l", m).text /\ tail = full_tail(m, ctx)
  OBVIOUS
<1>4. /\ r.dest = head \o level \o tail
      /\ r.range = <<Len(head), Len(head) + Len(level)>>
  BY <1>1, <1>2, <1>3 DEF FormatFlag, ElapsedFlags
<1>5. IsText(a) /\ IsText(tail)
  <2>1. IsText(st.text)
    BY <1>2, FullDatetimeFits DEF FlagOK, StateFits
  <2>2. QED
    BY <1>3, <2>1, FullHeadIsText, FullTailIsText
<1>6. IsText(level)
  BY <1>3, LevelAnnounced DEF Announced
<1>7. IsText(head) /\ Begins(acc.dest, head)
  BY <1>3, <1>5, TextConcat
<1>8. PICK u : u = head \o level
  OBVIOUS
<1>9. IsText(u) /\ Begins(head, u) /\ Len(u) = Len(head) + Len(level)
  BY <1>6, <1>7, <1>8, TextConcat
<1>10. IsText(r.dest) /\ Begins(u, r.dest)
  <2>1. r.dest = u \o tail
    BY <1>4, <1>8
  <2>2. QED
    BY <1>5, <1>9, <2>1, TextConcat
<1>11. Begins(acc.dest, r.dest)
  <2>1. Begins(acc.dest, u)
    BY <1>7, <1>9, BeginsTransitive
  <2>2. QED
    BY <1>9, <1>10, <2>1, BeginsTransitive
<1>12. RangeIn(r)
  <2>1. r.range[2] = Len(u)
    BY <1>4, <1>9
  <2>2. Len(u) \in Nat /\ Len(u) <= Len(r.dest)
    BY <1>9, <1>10, TextLength DEF Begins
  <2>3. QED
    BY <2>1, <2>2 DEF RangeIn
<1>13. f.flag \in Unpadded
  BY DEF Unpadded
<1>14. QED
  BY <1>1, <1>10, <1>11, <1>12, <1>13 DEF GoesOn

LEMMA PlainGoesOn ==
    ASSUME NEW f, FlagOK(f), f.flag \in Plain, NEW m, MessageOK(m), NEW tm, TmOK(tm), NEW ctx, NEW z,
           NEW acc, IsText(acc.dest), NEW r, r = FormatFlag(f, m, tm, ctx, z, acc)
    PROVE  IsText(r.dest) /\ (Wrong(f, m, tm) \/ GoesOn(f, acc, r))
<1>1. PICK o : o = field_text(f, m, tm)
  OBVIOUS
<1>2. IsText(o.text) /\ o.size \in Nat /\ (Wrong(f, m, tm) \/ Announced(o))
  BY <1>1, FieldAnnounced
<1>3. r.dest = Padded(f.pad, acc.dest, o) /\ r.range = acc.range
  <2>1. f.flag \notin {"chars", "z", "&", "^", "$", "+"} \cup ElapsedFlags
    BY DEF Plain
  <2>2. QED
    BY <1>1, <2>1 DEF FormatFlag
<1>4. IsText(r.dest)
  BY <1>2, <1>3, PaddedIsText DEF FlagOK
<1>5. QED
  BY <1>2, <1>3, <1>4, PaddedGoesOn DEF FlagOK

LEMMA FlagGoesOn ==
    ASSUME NEW f, FlagOK(f), NEW m, MessageOK(m), NEW tm, TmOK(tm), NEW ctx, ContextOK(ctx), NEW z,
           NEW acc, IsText(acc.dest), NEW r, r = FormatFlag(f, m, tm, ctx, z, acc)
    PROVE  IsText(r.dest) /\ (Wrong(f, m, tm) \/ GoesOn(f, acc, r))
<1>1. GoesOn(f, acc, r) => IsText(r.dest)
  BY DEF GoesOn
<1>2. CASE f.flag = "chars"
  BY <1>1, <1>2, LiteralGoesOn
<1>3. CASE f.flag \in ElapsedFlags
  BY <1>1, <1>3, ElapsedGoesOn
<1>4. CASE f.flag = "z"
  BY <1>1, <1>4, ZoneGoesOn
<1>5. CASE f.flag = "&"
  BY <1>1, <1>5, MdcGoesOn
<1>6. CASE f.flag \in {"^", "$"}
  BY <1>1, <1>6, ColorGoesOn
<1>7. CASE f.flag = "+"
  BY <1>1, <1>7, FullGoesOn
<1>8. CASE f.flag \in Plain
  BY <1>8, PlainGoesOn
<1>9. f.flag \in Plain \cup {"chars", "z", "&", "^", "$", "+"} \cup ElapsedFlags
  BY DEF Plain, FlagOK
<1>10. QED
  BY <1>2, <1>3, <1>4, <1>5, <1>6, <1>7, <1>8, <1>9

-----------------------------------------------------------------------------
(* What the assumptions say of messages, times and contexts.               *)
LEMMA RangeIsText ==
    ASSUME NEW t, t \in Seq(Range(t))
    PROVE  IsText(t)
BY DEF IsText

LEMMA MessagesAreOK ==
    ASSUME NEW m \in Messages
    PROVE  MessageOK(m)
<1>1. /\ m.secs \in Nat /\ m.secs \div 10 ^ 9 < 10
      /\ m.level \in 0 .. 6 /\ m.line \in Int /\ m.thread_id \in Nat
  BY SecondsAssumption, MessagesAssumption
<1>2. m.nanos \in Nanoseconds
  BY MessagesAssumption DEF Nanoseconds
<1>3. /\ m.name \in Seq(Range(m.name)) /\ m.payload \in Seq(Range(m.payload))
      /\ m.file \in Seq(Range(m.file)) /\ m.func \in Seq(Range(m.func))
  BY MessagesAssumption
<1>4. IsText(m.name) /\ IsText(m.payload) /\ IsText(m.file) /\ IsText(m.func)
  BY <1>3, RangeIsText
<1>5. QED
  BY <1>1, <1>2, <1>4 DEF MessageOK

LEMMA CalendarTimeIsOK ==
    ASSUME NEW tm, CalendarTime(tm)
    PROVE  TmOK(tm)
<1>1. tm.year \in 70 .. 362 /\ tm.mday \in 1 .. 31
  BY DEF CalendarTime
<1>2. tm.year \in 0 .. 362 /\ tm.mday \in 0 .. 31
  BY <1>1, SMT
<1>3. tm.gmtoff \div 60 \in Offsets
  BY Zenon DEF CalendarTime
<1>4. QED
  BY <1>2, <1>3 DEF CalendarTime, TmOK

LEMMA TimesAreOK ==
    ASSUME NEW m \in Messages, NEW u
    PROVE  TmOK(TimeOf(m.secs, u))
<1>1. CalendarTime(localtime[m.secs]) /\ CalendarTime(gmtime[m.secs])
  BY TimesAssumption
<1>2. QED
  BY <1>1, CalendarTimeIsOK DEF TimeOf

LEMMA NoTmIsOK == TmOK(NoTm)
<1>1. 0 \div 60 \in Offsets
  BY SMT DEF Offsets
<1>2. QED
  BY <1>1, SMT DEF TmOK, NoTm

LEMMA ContextsAreOK ==
    ASSUME NEW ctx \in Contexts
    PROVE  ContextOK(ctx)
<1>1. PICK v : v = Str("value", 2)
  OBVIOUS
<1>2. IsText(v)
  BY <1>1, StrSized DEF Sized
<1>3. PICK K : ctx \in [K -> {v}]
  BY <1>1 DEF Contexts
<1>4. QED
  BY <1>2, <1>3 DEF ContextOK

LEMMA NoContextIsOK == ContextOK(<<>>)
<1>1. DOMAIN <<>> = {}
  OBVIOUS
<1>2. QED
  BY <1>1 DEF ContextOK

LEMMA FreshStatesFit ==
    ASSUME NEW p \in Seq(Characters), NEW fs, fs = compile_pattern_(p), NEW i \in DOMAIN fs
    PROVE  StateFits(fs[i].st)
<1>1. DOMAIN fs = 1 .. Len(fs)
  BY CacheInvFresh
<1>2. fs[i].st \in States
  BY <1>1, CompiledFresh
<1>3. Now \in Nat /\ 0 \in Nat
  BY EnvironmentAssumption
<1>4. 0 \in Nanoseconds /\ 0 \in Offsets
  BY SMT DEF Nanoseconds, Offsets
<1>5. IsText(<<>>)
  BY EmptySized DEF Sized
<1>6. PICK a, b : a = Fresh /\ b = [Fresh EXCEPT !.secs = Now]
  OBVIOUS
<1>7. a = [secs |-> 0, nanos |-> 0, offset |-> 0, text |-> <<>>]
  BY <1>6 DEF Fresh
<1>8. b = [secs |-> Now, nanos |-> 0, offset |-> 0, text |-> <<>>]
  BY <1>6, <1>7
<1>9. StateFits(a)
  BY <1>3, <1>4, <1>5, <1>7, StateFitsFields
<1>10. StateFits(b)
  BY <1>3, <1>4, <1>5, <1>8, StateFitsFields
<1>11. QED
  BY <1>2, <1>6, <1>9, <1>10 DEF States

-----------------------------------------------------------------------------
(* One formatter after the other.                                          *)
Ready(fs, n, m, tm, ctx) == /\ \A i \in 1 .. n : FlagOK(fs[i])
                            /\ MessageOK(m) /\ TmOK(tm) /\ ContextOK(ctx)

LEMMA TextsGoOn ==
    ASSUME NEW n \in Nat, NEW fs, NEW m, NEW tm, NEW ctx, NEW z, Ready(fs, n, m, tm, ctx),
           NEW acc, Accs(acc, fs, n, m, tm, ctx, z)
    PROVE  \A i \in 0 .. n : IsText(acc[i].dest)
<1> SUFFICES ASSUME NEW i \in 0 .. n, ~IsText(acc[i].dest) PROVE FALSE
  OBVIOUS
<1> DEFINE S == {k \in 0 .. n : ~IsText(acc[k].dest)}
<1>1. PICK k \in S : \A j \in S : ~(j < k)
  <2>1. S \subseteq Nat
    BY SMT
  <2>2. i \in S
    OBVIOUS
  <2>3. QED
    BY <2>1, <2>2, LeastElement
<1>2. k \in 0 .. n /\ ~IsText(acc[k].dest)
  BY <1>1
<1>3. CASE k = 0
  <2>1. acc[k].dest = <<>>
    BY <1>3 DEF Accs, Start
  <2>2. QED
    BY <1>2, <2>1, EmptySized DEF Sized
<1>4. CASE k # 0
  <2>1. k - 1 \in 0 .. n /\ k - 1 < k /\ k \in 1 .. n
    BY <1>2, <1>4, SMT
  <2>2. PICK a, b : a = acc[k - 1] /\ b = acc[k]
    OBVIOUS
  <2>3. IsText(a.dest)
    BY <1>1, <2>1, <2>2
  <2>4. b = FormatFlag(fs[k], m, tm, ctx, z, a)
    BY <2>1, <2>2 DEF Accs
  <2>5. FlagOK(fs[k]) /\ MessageOK(m) /\ TmOK(tm) /\ ContextOK(ctx)
    BY <2>1 DEF Ready
  <2>6. IsText(b.dest)
    BY <2>3, <2>4, <2>5, FlagGoesOn
  <2>7. QED
    BY <1>2, <2>2, <2>6
<1>5. QED
  BY <1>3, <1>4

LEMMA RunGoesOn ==
    ASSUME NEW n \in Nat, NEW fs, NEW m, NEW tm, NEW ctx, NEW z, Ready(fs, n, m, tm, ctx),
           NEW acc, Accs(acc, fs, n, m, tm, ctx, z), NEW i \in 1 .. n, NEW a, a = acc[i - 1]
    PROVE  IsText(a.dest) /\ (Wrong(fs[i], m, tm) \/ GoesOn(fs[i], a, acc[i]))
<1>1. i - 1 \in 0 .. n
  BY SMT
<1>2. IsText(a.dest)
  BY <1>1, TextsGoOn
<1>3. PICK b : b = acc[i]
  OBVIOUS
<1>4. b = FormatFlag(fs[i], m, tm, ctx, z, a)
  BY <1>3 DEF Accs
<1>5. FlagOK(fs[i]) /\ MessageOK(m) /\ TmOK(tm) /\ ContextOK(ctx)
  BY DEF Ready
<1>6. Wrong(fs[i], m, tm) \/ GoesOn(fs[i], a, b)
  BY <1>2, <1>4, <1>5, FlagGoesOn
<1>7. QED
  BY <1>2, <1>3, <1>6

LEMMA RangeGoesOn ==
    ASSUME NEW n \in Nat, NEW fs, NEW m, NEW tm, NEW ctx, NEW z, Ready(fs, n, m, tm, ctx),
           NEW acc, Accs(acc, fs, n, m, tm, ctx, z), \A i \in 1 .. n : ~Wrong(fs[i], m, tm)
    PROVE  RangeIn(acc[n])
<1> SUFFICES ASSUME ~RangeIn(acc[n]) PROVE FALSE
  OBVIOUS
<1> DEFINE S == {k \in 0 .. n : ~RangeIn(acc[k])}
<1>1. PICK k \in S : \A j \in S : ~(j < k)
  <2>1. S \subseteq Nat /\ n \in 0 .. n
    BY SMT
  <2>2. n \in S
    BY <2>1
  <2>3. QED
    BY <2>1, <2>2, LeastElement
<1>2. k \in 0 .. n /\ ~RangeIn(acc[k])
  BY <1>1
<1>3. CASE k = 0
  <2>1. acc[k] = Start
    BY <1>3 DEF Accs
  <2>2. RangeIn(Start)
    BY SMT DEF RangeIn, Start
  <2>3. QED
    BY <1>2, <2>1, <2>2
<1>4. CASE k # 0
  <2>1. k - 1 \in 0 .. n /\ k - 1 < k /\ k \in 1 .. n
    BY <1>2, <1>4, SMT
  <2>2. PICK a : a = acc[k - 1]
    OBVIOUS
  <2>3. RangeIn(a)
    BY <1>1, <2>1, <2>2
  <2>4. GoesOn(fs[k], a, acc[k])
    BY <2>1, <2>2, RunGoesOn
  <2>5. QED
    BY <1>2, <2>3, <2>4 DEF GoesOn
<1>5. QED
  BY <1>3, <1>4

-----------------------------------------------------------------------------
(* The states of the flags, the cached time and the context are in range.  *)
FitInv == /\ CacheInv
          /\ TmOK(cached_tm)
          /\ ContextOK(mdc)
          /\ \A i \in DOMAIN formatters : StateFits(formatters[i].st)

LEMMA FitInvInit == Init => FitInv
<1> SUFFICES ASSUME Init PROVE FitInv
  OBVIOUS
<1>1. CacheInv
  BY CacheInvInit
<1>2. TmOK(cached_tm) /\ ContextOK(mdc)
  BY NoTmIsOK, NoContextIsOK DEF Init
<1>3. pattern \in Seq(Characters) /\ formatters = compile_pattern_(pattern)
  BY PatternsAssumption DEF Init
<1>4. \A i \in DOMAIN formatters : StateFits(formatters[i].st)
  BY <1>3, FreshStatesFit
<1>5. QED
  BY <1>1, <1>2, <1>4 DEF FitInv

LEMMA FitInvRecompiled ==
    ASSUME FitInv, CacheInv', TmOK(cached_tm'), NEW p \in Seq(Characters), NEW need, Recompiled(p, need)
    PROVE  FitInv'
<1>1. formatters' = compile_pattern_(p)
  BY DEF Recompiled
<1>2. \A i \in DOMAIN formatters' : StateFits(formatters'[i].st)
  BY <1>1, FreshStatesFit
<1>3. ContextOK(mdc')
  BY DEF Recompiled, FitInv
<1>4. QED
  BY <1>2, <1>3 DEF FitInv

(* What a call of format reads is in range.                                *)
LEMMA FormatIsReady ==
    ASSUME FitInv, NEW m \in Messages, NEW tm, NEW acc, NEW u, Formats(m, tm, acc, u),
           NEW fs, fs = formatters, NEW n, n = Len(fs)
    PROVE  /\ n \in Nat /\ DOMAIN fs = 1 .. n
           /\ Ready(fs, n, m, tm, mdc) /\ Accs(acc, fs, n, m, tm, mdc, u)
<1>1. CacheInv
  BY DEF FitInv
<1>2. pattern \in Seq(Characters) /\ Compiled(fs, pattern)
  BY <1>1 DEF CacheInv, Typed
<1>3. n \in Nat /\ DOMAIN fs = 1 .. n
  BY <1>2, CompiledParts
<1>4. ASSUME NEW i \in 1 .. n PROVE FlagOK(fs[i])
  <2>1. /\ fs[i].flag \in Kinds /\ fs[i].pad \in Pads
        /\ fs[i].chars \in Seq(Characters) /\ (fs[i].flag = "chars" => ~fs[i].pad.enabled)
    BY <1>2, CompiledParts
  <2>2. StateFits(fs[i].st)
    BY <1>3 DEF FitInv
  <2>3. QED
    BY <2>1, <2>2 DEF FlagOK
<1>5. TmOK(tm)
  <2>1. TmOK(TimeOf(m.secs, u))
    BY TimesAreOK
  <2>2. TmOK(cached_tm)
    BY DEF FitInv
  <2>3. tm = TimeOf(m.secs, u) \/ tm = cached_tm
    BY DEF Formats
  <2>4. QED
    BY <2>1, <2>2, <2>3
<1>6. MessageOK(m) /\ ContextOK(mdc)
  BY MessagesAreOK DEF FitInv
<1>7. Ready(fs, n, m, tm, mdc)
  BY <1>4, <1>5, <1>6 DEF Ready
<1>8. Accs(acc, fs, n, m, tm, mdc, u)
  BY DEF Formats
<1>9. QED
  BY <1>3, <1>7, <1>8

LEMMA FitInvFormat ==
    ASSUME FitInv, NEW m \in Messages, format(m)
    PROVE  FitInv'
<1>1. CacheInv
  BY DEF FitInv
<1>2. CacheInv'
  BY <1>1, CacheInvFormat
<1>3. PICK tm, acc, u : Formats(m, tm, acc, u) /\ u \in BOOLEAN
  BY <1>1, FormatDoes
<1>4. PICK fs, gs : fs = formatters /\ gs = formatters'
  OBVIOUS
<1>5. PICK n : n = Len(fs)
  OBVIOUS
<1>6. /\ n \in Nat /\ DOMAIN fs = 1 .. n
      /\ Ready(fs, n, m, tm, mdc) /\ Accs(acc, fs, n, m, tm, mdc, u)
  BY <1>3, <1>4, <1>5, FormatIsReady
<1>7. /\ DOMAIN gs = 1 .. n
      /\ \A i \in 1 .. n : gs[i].st = acc[i].st
  BY <1>1, <1>3, <1>4, <1>5, <1>6, CompiledStep DEF CacheInv, Typed, Formats
<1>8. ASSUME NEW i \in 1 .. n PROVE StateFits(gs[i].st)
  <2>1. PICK f, a, b : f = fs[i] /\ a = acc[i - 1] /\ b = acc[i]
    OBVIOUS
  <2>2. b = FormatFlag(f, m, tm, mdc, u, a)
    BY <1>6, <2>1 DEF Accs
  <2>3. b.st = NewState(f, m, tm, u)
    BY <1>3, <2>2, StateAfter
  <2>4. FlagOK(f) /\ MessageOK(m) /\ TmOK(tm)
    BY <1>6, <2>1 DEF Ready
  <2>5. StateFits(NewState(f, m, tm, u))
    BY <2>4, NewStateFits DEF FlagOK
  <2>6. QED
    BY <1>7, <2>1, <2>3, <2>5
<1>9. TmOK(cached_tm')
  BY <1>3, <1>6 DEF Formats, Ready
<1>10. ContextOK(mdc')
  BY DEF format, FitInv
<1>11. QED
  BY <1>2, <1>4, <1>7, <1>8, <1>9, <1>10 DEF FitInv

(* The field of one formatter.                                             *)
LEMMA OneFieldFits ==
    ASSUME NEW f, NEW a, NEW b, IsText(a.dest), GoesOn(f, a, b), NEW width, width = Len(b.dest) - Len(a.dest)
    PROVE  /\ IsPrefix(a.dest, b.dest)
           /\ f.pad.enabled /\ f.flag \notin {"&", "+", "^", "$"} =>
                 /\ width >= f.pad.width
                 /\ f.pad.truncate => width = f.pad.width
<1>1. IsPrefix(a.dest, b.dest)
  BY BeginsIsPrefix DEF GoesOn
<1>2. ASSUME f.pad.enabled, f.flag \notin {"&", "+", "^", "$"}
      PROVE  /\ width >= f.pad.width
             /\ f.pad.truncate => width = f.pad.width
  BY <1>2 DEF GoesOn, Fits, Unpadded
<1>3. QED
  BY <1>1, <1>2

LEMMA FieldsFitAfterFormat ==
    ASSUME FitInv, NEW m \in Messages, format(m)
    PROVE  FieldsFit'
<1>1. CacheInv
  BY DEF FitInv
<1>2. PICK tm, acc, u : Formats(m, tm, acc, u) /\ u \in BOOLEAN
  BY <1>1, FormatDoes
<1>3. PICK fs, gs, q : fs = formatters /\ gs = formatters' /\ q = steps'
  OBVIOUS
<1>4. PICK n : n = Len(fs)
  OBVIOUS
<1>5. /\ n \in Nat /\ DOMAIN fs = 1 .. n
      /\ Ready(fs, n, m, tm, mdc) /\ Accs(acc, fs, n, m, tm, mdc, u)
  BY <1>2, <1>3, <1>4, FormatIsReady
<1>6. /\ DOMAIN gs = 1 .. n
      /\ \A i \in 1 .. n : gs[i].flag = fs[i].flag /\ gs[i].pad = fs[i].pad
  BY <1>1, <1>2, <1>3, <1>4, <1>5, CompiledStep DEF CacheInv, Typed, Formats
<1>7. cached_tm' = tm /\ last'.msg = m
  BY <1>2 DEF Formats
<1>8. ASSUME NEW i \in 1 .. n
      PROVE  Misannounced(gs[i])' <=> Wrong(fs[i], m, tm)
  BY <1>6, <1>7 DEF Misannounced, Wrong, Early
<1>9. ASSUME NEW i \in 1 .. n, ~Misannounced(gs[i])',
             NEW width, width = Len(q[i].after) - Len(q[i].before)
      PROVE  /\ IsPrefix(q[i].before, q[i].after)
             /\ gs[i].pad.enabled /\ gs[i].flag \notin {"&", "+", "^", "$"} =>
                   /\ width >= gs[i].pad.width
                   /\ gs[i].pad.truncate => width = gs[i].pad.width
  <2>1. PICK a, b : a = acc[i - 1] /\ b = acc[i]
    OBVIOUS
  <2>2. q[i].before = a.dest /\ q[i].after = b.dest
    BY <1>2, <1>3, <1>5, <2>1 DEF Formats
  <2>3. ~Wrong(fs[i], m, tm)
    BY <1>8, <1>9
  <2>4. IsText(a.dest) /\ GoesOn(fs[i], a, b)
    BY <1>5, <2>1, <2>3, RunGoesOn
  <2>5. width = Len(b.dest) - Len(a.dest)
    BY <1>9, <2>2
  <2>6. /\ IsPrefix(a.dest, b.dest)
        /\ fs[i].pad.enabled /\ fs[i].flag \notin {"&", "+", "^", "$"} =>
              /\ width >= fs[i].pad.width
              /\ fs[i].pad.truncate => width = fs[i].pad.width
    BY <2>4, <2>5, OneFieldFits
  <2>7. QED
    BY <1>6, <2>2, <2>6
<1>10. ASSUME \A i \in 1 .. n : ~Misannounced(gs[i])'
       PROVE  range'[2] <= Len(dest')
  <2>1. \A i \in 1 .. n : ~Wrong(fs[i], m, tm)
    BY <1>8, <1>10
  <2>2. PICK a : a = acc[n]
    OBVIOUS
  <2>3. RangeIn(a)
    BY <1>5, <2>1, <2>2, RangeGoesOn
  <2>4. IsText(a.dest)
    <3>1. n \in 0 .. n
      BY <1>5, SMT
    <3>2. QED
      BY <1>5, <2>2, <3>1, TextsGoOn
  <2>5. range' = a.range /\ dest' = a.dest \o Nl
    BY <1>2, <1>3, <1>4, <2>2 DEF Formats
  <2>6. IsText(Nl)
    BY ChrSized DEF Nl, Sized
  <2>7. IsText(dest') /\ Begins(a.dest, dest')
    BY <2>4, <2>5, <2>6, TextConcat
  <2>8. PICK k \in Nat, l \in Nat, d \in Nat : k = a.range[2] /\ l = Len(a.dest) /\ d = Len(dest')
    BY <2>3, <2>4, <2>7, TextLength DEF RangeIn
  <2>9. k <= l /\ l <= d
    BY <2>3, <2>7, <2>8 DEF RangeIn, Begins
  <2>10. k <= d
    BY <2>9, SMT
  <2>11. QED
    BY <2>5, <2>8, <2>10
<1>11. ASSUME NEW i \in 1 .. n
       PROVE  Misannounced(formatters[i])' <=> Misannounced(gs[i])'
  BY <1>3 DEF Misannounced
<1>12. ASSUME NEW i \in 1 .. n
       PROVE  LET f == formatters[i]
                  width == Len(steps[i].after) - Len(steps[i].before)
              IN  (~Misannounced(f) =>
                      /\ IsPrefix(steps[i].before, steps[i].after)
                      /\ f.pad.enabled /\ f.flag \notin {"&", "+", "^", "$"} =>
                            /\ width >= f.pad.width
                            /\ f.pad.truncate => width = f.pad.width)'
  BY <1>3, <1>9, <1>11
<1>13. (\A i \in DOMAIN formatters : ~Misannounced(formatters[i]))' => range'[2] <= Len(dest')
  BY <1>3, <1>6, <1>10, <1>11
<1>14. QED
  BY <1>3, <1>6, <1>12, <1>13 DEF FieldsFit

LEMMA FitInvStep == FitInv /\ FieldsFit /\ [Next]_vars => FitInv' /\ FieldsFit'
<1> SUFFICES ASSUME FitInv, FieldsFit, [Next]_vars
             PROVE  FitInv' /\ FieldsFit'
  OBVIOUS
<1>1. CacheInv /\ pattern \in Seq(Characters) /\ need_localtime \in BOOLEAN
  BY DEF FitInv, CacheInv, Typed
<1>2. ASSUME NEW m \in Messages, format(m) PROVE FitInv' /\ FieldsFit'
  BY <1>2, FitInvFormat, FieldsFitAfterFormat
<1>3. ASSUME NEW p \in Repatterns, set_pattern(p) PROVE FitInv' /\ FieldsFit'
  <2>1. p \in Seq(Characters)
    BY PatternsAssumption
  <2>2. Recompiled(p, FALSE)
    BY <1>3 DEF set_pattern
  <2>3. CacheOK' /\ last_log_secs' \in Nat
    BY <1>1, <1>3 DEF set_pattern, Recompiled, CacheInv, CacheOK, Typed
  <2>4. CacheInv' /\ ~Formatted'
    BY <1>1, <2>1, <2>2, <2>3, CacheInvRecompiled
  <2>5. TmOK(cached_tm')
    BY <1>3 DEF set_pattern, FitInv
  <2>6. FitInv'
    BY <2>1, <2>2, <2>4, <2>5, FitInvRecompiled
  <2>7. QED
    BY <2>4, <2>6 DEF FieldsFit
<1>4. CASE clone
  <2>1. Recompiled(pattern, need_localtime)
    BY <1>4 DEF clone
  <2>2. CacheOK' /\ last_log_secs' \in Nat
    BY <1>4 DEF clone, CacheOK
  <2>3. CacheInv' /\ ~Formatted'
    BY <1>1, <2>1, <2>2, CacheInvRecompiled
  <2>4. TmOK(cached_tm')
    BY <1>4, NoTmIsOK DEF clone
  <2>5. FitInv'
    BY <1>1, <2>1, <2>3, <2>4, FitInvRecompiled
  <2>6. QED
    BY <2>3, <2>5 DEF FieldsFit
<1>5. ASSUME NEW ctx \in Contexts, SetContext(ctx) PROVE FitInv' /\ FieldsFit'
  <2>1. /\ UNCHANGED <<pattern, formatters, need_localtime, last_log_secs, cached_tm, utc, last, seen>>
        /\ last.count = 0 /\ mdc' = ctx
    BY <1>5 DEF SetContext
  <2>2. CacheInv'
    BY <1>1, <2>1 DEF CacheInv, Typed, Formatted, StatesOK, TimeKept, CacheOK, FullOK, ZoneOK
  <2>3. ContextOK(mdc')
    BY <2>1, ContextsAreOK
  <2>4. FitInv'
    BY <2>1, <2>2, <2>3 DEF FitInv
  <2>5. ~Formatted'
    BY <1>1, <2>1 DEF CacheInv, Typed, Formatted
  <2>6. QED
    BY <2>4, <2>5 DEF FieldsFit
<1>6. CASE UNCHANGED vars
  <2>1. CacheInv'
    BY <1>1, <1>6 DEF vars, CacheInv, Typed, Formatted, StatesOK, TimeKept, CacheOK, FullOK, ZoneOK
  <2>2. FitInv'
    BY <1>6, <2>1 DEF vars, FitInv
  <2>3. FieldsFit'
    BY <1>6 DEF vars, FieldsFit, Formatted, Misannounced
  <2>4. QED
    BY <2>2, <2>3
<1>7. QED
  BY <1>2, <1>3, <1>4, <1>5, <1>6 DEF Next

(* A padded field keeps what is before it, has the width the pattern asks  *)
(* for, and leaves the colour range inside the text: every flag announces  *)
(* to the padder the size it writes, but for %c and %E.                    *)
THEOREM FieldsAlwaysFit == Spec => []FieldsFit
<1>1. Init => FitInv /\ FieldsFit
  BY FitInvInit DEF Init, Formatted, FieldsFit
<1>2. QED
  BY <1>1, FitInvStep, PTL DEF Spec

-----------------------------------------------------------------------------
(* Sequences strung together.                                              *)
Strung(f, w, n, T) == /\ f \in [0 .. n -> Seq(T)] /\ f[0] = <<>>
                      /\ \A k \in 1 .. n : f[k] = f[k - 1] \o w[k]

LEMMA StrungExist ==
    ASSUME NEW T, NEW n \in Nat, NEW w, \A k \in 1 .. n : w[k] \in Seq(T)
    PROVE  \E f : Strung(f, w, n, T)
<1> DEFINE S == {j \in 0 .. n : ~\E f : Strung(f, w, j, T)}
<1> SUFFICES ASSUME ~\E f : Strung(f, w, n, T) PROVE FALSE
  OBVIOUS
<1>1. PICK j \in S : \A m \in S : ~(m < j)
  <2>1. n \in S /\ S \subseteq Nat
    BY SMT
  <2>2. QED
    BY <2>1, LeastElement
<1>2. j \in 0 .. n /\ j \in Nat /\ ~\E f : Strung(f, w, j, T)
  BY <1>1, SMT
<1>3. CASE j = 0
  <2>1. PICK f : f = [k \in 0 .. 0 |-> <<>>]
    OBVIOUS
  <2>2. f \in [0 .. 0 -> Seq(T)]
    BY <2>1
  <2>3. f[0] = <<>> /\ \A k \in 1 .. 0 : FALSE
    BY <2>1, SMT
  <2>4. QED
    BY <1>2, <1>3, <2>2, <2>3 DEF Strung
<1>4. CASE j > 0
  <2>1. PICK m : m = j - 1
    OBVIOUS
  <2>2. m \in 0 .. n /\ m < j /\ m \in Nat /\ m \in 0 .. m /\ j \in 1 .. n
    BY <1>2, <1>4, <2>1, SMT
  <2>3. PICK g : Strung(g, w, m, T)
    BY <1>1, <2>2
  <2>4. PICK x \in Seq(T) : x = g[m] \o w[j]
    <3>1. g[m] \in Seq(T) /\ w[j] \in Seq(T)
      BY <2>2, <2>3 DEF Strung
    <3>2. QED
      BY <3>1, ConcatProperties
  <2>5. PICK f : f = [k \in 0 .. j |-> IF k = j THEN x ELSE g[k]]
    OBVIOUS
  <2>6. /\ \A k \in 0 .. j : k = j \/ k \in 0 .. m
        /\ \A k \in 1 .. j : k = j \/ (k \in 1 .. m /\ k # j /\ k - 1 # j)
        /\ \A k \in 1 .. j : k \in 0 .. j /\ k - 1 \in 0 .. j
        /\ j - 1 = m /\ j - 1 # j /\ 0 # j /\ 0 \in 0 .. j /\ j \in 0 .. j
    BY <1>2, <1>4, <2>1, <2>2, SMT
  <2>7. f \in [0 .. j -> Seq(T)] /\ f[0] = <<>>
    BY <2>3, <2>4, <2>5, <2>6 DEF Strung
  <2>8. ASSUME NEW k \in 1 .. j PROVE f[k] = f[k - 1] \o w[k]
    <3>1. CASE k = j
      BY <2>4, <2>5, <2>6, <3>1
    <3>2. CASE k # j
      <4>1. f[k] = g[k] /\ f[k - 1] = g[k - 1] /\ k \in 1 .. m
        BY <2>5, <2>6, <3>2
      <4>2. QED
        BY <2>3, <4>1 DEF Strung
    <3>3. QED
      BY <3>1, <3>2
  <2>9. QED
    BY <1>2, <2>7, <2>8 DEF Strung
<1>5. QED
  BY <1>2, <1>3, <1>4, SMT

(* Two that start alike and grow alike are the same.                       *)
Grows(f, w, a, n) == \A k \in a + 1 .. n : f[k] = f[k - 1] \o w[k]

LEMMA StrungAgree ==
    ASSUME NEW n \in Nat, NEW a \in Nat, NEW w, NEW f, NEW g, f[a] = g[a],
           Grows(f, w, a, n), Grows(g, w, a, n)
    PROVE  \A k \in a .. n : f[k] = g[k]
<1> SUFFICES ASSUME \E k \in a .. n : f[k] # g[k] PROVE FALSE
  OBVIOUS
<1> DEFINE S == {k \in a .. n : f[k] # g[k]}
<1>1. PICK k \in S : \A m \in S : ~(m < k)
  <2>1. S # {} /\ S \subseteq Nat
    BY SMT
  <2>2. QED
    BY <2>1, LeastElement
<1>2. k \in a .. n /\ k # a /\ f[k] # g[k]
  BY <1>1
<1>3. k \in a + 1 .. n /\ k - 1 \in a .. n /\ k - 1 < k
  BY <1>2, SMT
<1>4. f[k - 1] = g[k - 1]
  BY <1>1, <1>3
<1>5. f[k] = f[k - 1] \o w[k] /\ g[k] = g[k - 1] \o w[k]
  BY <1>3 DEF Grows
<1>6. QED
  BY <1>2, <1>4, <1>5

LEMMA FlattenIs ==
    ASSUME NEW T, NEW w \in Seq(Seq(T)), NEW n, n = Len(w), NEW f, Strung(f, w, n, T)
    PROVE  FlattenSeq(w) = f[n]
<1>1. n \in Nat /\ n = Len(w)
  OBVIOUS
<1>2. \A k \in 1 .. n : w[k] \in Seq(T)
  BY <1>1, ElementOfSeq
<1>3. CASE n = 0
  <2>1. w = <<>>
    BY <1>1, <1>3, EmptySeq
  <2>2. FlattenSeq(w) = w
    BY <1>1, <1>3 DEF FlattenSeq
  <2>3. QED
    BY <1>1, <1>3, <2>1, <2>2 DEF Strung
<1>4. CASE n # 0
  <2> DEFINE Unfolded(h) == [i \in 1 .. Len(w) |-> IF i = 1 THEN w[i] ELSE h[i - 1] \o w[i]]
             flatten == CHOOSE h : h = Unfolded(h)
  <2>1. /\ 1 \in 1 .. n /\ n \in 1 .. n
        /\ \A k \in 1 .. n : k # 1 => k - 1 \in 1 .. n
        /\ \A k \in 1 + 1 .. n : k \in 1 .. n /\ k # 1
    BY <1>4, SMT
  <2>2. f[1] = w[1]
    <3>1. 1 - 1 = 0
      BY SMT
    <3>2. f[1] = <<>> \o w[1] /\ w[1] \in Seq(T)
      BY <1>1, <1>2, <2>1, <3>1 DEF Strung
    <3>3. QED
      BY <3>2, ConcatEmptySeq
  <2>3. PICK g : g = [i \in 1 .. n |-> f[i]]
    OBVIOUS
  <2>4. g = Unfolded(g)
    <3>1. ASSUME NEW i \in 1 .. n PROVE g[i] = IF i = 1 THEN w[i] ELSE g[i - 1] \o w[i]
      <4>1. i # 1 => g[i - 1] = f[i - 1]
        BY <2>1, <2>3
      <4>2. f[i] = f[i - 1] \o w[i]
        BY <1>1 DEF Strung
      <4>3. QED
        BY <2>2, <2>3, <4>1, <4>2
    <3>2. QED
      BY <1>1, <2>3, <3>1, SMTT(40)
  <2>5. flatten = Unfolded(flatten)
    BY <2>4
  <2>6. FlattenSeq(w) = flatten[Len(w)]
    BY <1>1, <1>4 DEF FlattenSeq
  <2>7. PICK h : h = flatten
    OBVIOUS
  <2>8. h = Unfolded(h) /\ FlattenSeq(w) = h[n]
    BY <1>1, <2>5, <2>6, <2>7, ZenonT(40)
  <2>9. h[1] = f[1]
    BY <1>1, <2>1, <2>2, <2>8
  <2>10. Grows(h, w, 1, n) /\ Grows(f, w, 1, n)
    <3>1. \A k \in 1 + 1 .. n : h[k] = h[k - 1] \o w[k]
      BY <1>1, <2>1, <2>8
    <3>2. \A k \in 1 + 1 .. n : f[k] = f[k - 1] \o w[k]
      BY <2>1 DEF Strung
    <3>3. QED
      BY <3>1, <3>2 DEF Grows
  <2>11. \A k \in 1 .. n : h[k] = f[k]
    <3>1. 1 \in Nat
      BY SMT
    <3>2. QED
      BY <1>1, <2>9, <2>10, <3>1, StrungAgree
  <2>12. QED
    BY <1>1, <2>1, <2>8, <2>11
<1>5. QED
  BY <1>3, <1>4

LEMMA FlattenConcat ==
    ASSUME NEW T, NEW u \in Seq(Seq(T)), NEW v \in Seq(Seq(T))
    PROVE  /\ FlattenSeq(u) \in Seq(T) /\ FlattenSeq(v) \in Seq(T)
           /\ FlattenSeq(u \o v) = FlattenSeq(u) \o FlattenSeq(v)
<1>1. PICK m \in Nat, n \in Nat : m = Len(u) /\ n = Len(v)
  OBVIOUS
<1>2. PICK w \in Seq(Seq(T)) : w = u \o v
  BY ConcatProperties
<1>3. /\ Len(w) = m + n /\ m + n \in Nat
      /\ \A k \in 1 .. m : w[k] = u[k]
      /\ \A k \in 1 .. n : w[m + k] = v[k]
  <2>1. /\ Len(w) = m + n
        /\ \A k \in 1 .. m + n : w[k] = IF k <= m THEN u[k] ELSE v[k - m]
    BY <1>1, <1>2, ConcatProperties
  <2>2. /\ \A k \in 1 .. m : k \in 1 .. m + n /\ k <= m
        /\ \A k \in 1 .. n : m + k \in 1 .. m + n /\ ~(m + k <= m) /\ m + k - m = k
        /\ m + n \in Nat
    BY SMT
  <2>3. QED
    BY <2>1, <2>2, SMTT(40)
<1>4. (\A k \in 1 .. m : u[k] \in Seq(T)) /\ (\A k \in 1 .. n : v[k] \in Seq(T))
  BY <1>1, ElementOfSeq
<1>5. PICK f : Strung(f, u, m, T)
  BY <1>4, StrungExist
<1>6. PICK g : Strung(g, v, n, T)
  BY <1>4, StrungExist
<1>7. PICK h : Strung(h, w, m + n, T)
  <2>1. \A k \in 1 .. m + n : w[k] \in Seq(T)
    BY <1>3, ElementOfSeq
  <2>2. QED
    BY <1>3, <2>1, StrungExist
<1>8. FlattenSeq(u) = f[m] /\ FlattenSeq(v) = g[n] /\ FlattenSeq(w) = h[m + n]
  <2>1. FlattenSeq(u) = f[m]
    BY <1>1, <1>5, FlattenIs
  <2>2. FlattenSeq(v) = g[n]
    BY <1>1, <1>6, FlattenIs
  <2>3. FlattenSeq(w) = h[m + n]
    BY <1>3, <1>7, FlattenIs
  <2>4. QED
    BY <2>1, <2>2, <2>3
<1>9. f[m] \in Seq(T) /\ g[n] \in Seq(T)
  <2>1. m \in 0 .. m /\ n \in 0 .. n
    BY SMT
  <2>2. QED
    BY <1>5, <1>6, <2>1 DEF Strung
<1>10. h[m] = f[m]
  <2>1. 0 \in Nat /\ m \in 0 .. m /\ \A k \in 0 + 1 .. m : k \in 1 .. m /\ k \in 1 .. m + n
    BY SMT
  <2>2. h[0] = f[0]
    BY <1>5, <1>7 DEF Strung
  <2>3. Grows(h, u, 0, m) /\ Grows(f, u, 0, m)
    <3>1. \A k \in 0 + 1 .. m : h[k] = h[k - 1] \o u[k]
      BY <1>3, <1>7, <2>1 DEF Strung
    <3>2. \A k \in 0 + 1 .. m : f[k] = f[k - 1] \o u[k]
      BY <1>5, <2>1 DEF Strung
    <3>3. QED
      BY <3>1, <3>2 DEF Grows
  <2>4. \A k \in 0 .. m : h[k] = f[k]
    BY <2>1, <2>2, <2>3, StrungAgree
  <2>5. QED
    BY <2>1, <2>4
<1>11. PICK x \in Seq(T) : x = f[m]
  BY <1>9
<1>12. PICK a : a = [k \in 0 .. n |-> x \o g[k]]
  OBVIOUS
<1>13. PICK b : b = [k \in 0 .. n |-> h[m + k]]
  OBVIOUS
<1>14. \A k \in 0 .. n : b[k] = a[k]
  <2>1. /\ 0 \in Nat /\ 0 \in 0 .. n /\ m + 0 = m
        /\ \A k \in 0 + 1 .. n : /\ k \in 1 .. n /\ k \in 0 .. n /\ k - 1 \in 0 .. n
                                 /\ m + k \in 1 .. m + n /\ (m + k) - 1 = m + (k - 1)
    BY SMT
  <2>2. b[0] = a[0]
    <3>1. b[0] = x /\ a[0] = x \o <<>>
      BY <1>6, <1>10, <1>11, <1>12, <1>13, <2>1 DEF Strung
    <3>2. QED
      BY <3>1, ConcatEmptySeq
  <2>3. ASSUME NEW k \in 0 + 1 .. n
        PROVE  b[k] = b[k - 1] \o v[k] /\ a[k] = a[k - 1] \o v[k]
    <3>1. b[k] = h[m + k] /\ b[k - 1] = h[m + (k - 1)]
      BY <1>13, <2>1
    <3>2. h[m + k] = h[m + (k - 1)] \o w[m + k]
      <4>1. \A l \in 1 .. m + n : h[l] = h[l - 1] \o w[l]
        BY <1>7 DEF Strung
      <4>2. h[m + k] = h[(m + k) - 1] \o w[m + k]
        BY <2>1, <4>1
      <4>3. QED
        BY <2>1, <4>2
    <3>3. a[k] = x \o g[k] /\ a[k - 1] = x \o g[k - 1]
      BY <1>12, <2>1
    <3>4. g[k] = g[k - 1] \o v[k] /\ g[k - 1] \in Seq(T) /\ v[k] \in Seq(T)
      BY <1>4, <1>6, <2>1 DEF Strung
    <3>5. x \o (g[k - 1] \o v[k]) = (x \o g[k - 1]) \o v[k]
      <4>1. PICK y \in Seq(T), z \in Seq(T) : y = g[k - 1] /\ z = v[k]
        BY <3>4
      <4>2. (x \o y) \o z = x \o (y \o z)
        BY ConcatAssociative, SMTT(40)
      <4>3. QED
        BY <4>1, <4>2
    <3>6. QED
      BY <1>3, <2>1, <3>1, <3>2, <3>3, <3>4, <3>5
  <2>4. Grows(b, v, 0, n) /\ Grows(a, v, 0, n)
    BY <2>3 DEF Grows
  <2>5. QED
    BY <2>1, <2>2, <2>4, StrungAgree
<1>15. h[m + n] = x \o g[n]
  <2>1. n \in 0 .. n
    BY SMT
  <2>2. QED
    BY <1>12, <1>13, <1>14, <2>1
<1>16. QED
  BY <1>2, <1>8, <1>9, <1>11, <1>15

LEMMA FlattenOne ==
    ASSUME NEW T, NEW s \in Seq(T)
    PROVE  FlattenSeq(<<s>>) = s
<1>1. Len(<<s>>) = 1 /\ <<s>>[1] = s /\ 1 # 0
  BY SMT
<1>2. PICK w : w = <<s>>
  OBVIOUS
<1>3. PICK f : f = [k \in 0 .. 1 |-> IF k = 0 THEN <<>> ELSE s]
  OBVIOUS
<1>4. 1 \in 0 .. 1 /\ 0 \in 0 .. 1 /\ 1 - 1 = 0 /\ \A k \in 1 .. 1 : k = 1
  BY SMT
<1>5. f[0] = <<>> /\ f[1] = s
  BY <1>1, <1>3, <1>4
<1>6. <<>> \o s = s /\ <<>> \in Seq(T)
  BY ConcatEmptySeq
<1>7. f \in [0 .. 1 -> Seq(T)]
  BY <1>3, <1>6
<1>8. Strung(f, w, 1, T)
  BY <1>1, <1>2, <1>4, <1>5, <1>6, <1>7 DEF Strung
<1>9. w \in Seq(Seq(T))
  BY <1>2
<1>10. QED
  BY <1>1, <1>2, <1>5, <1>8, <1>9, FlattenIs

-----------------------------------------------------------------------------
(* A formatter, taken apart into characters if it is a literal.            *)
Parts == [flag : Kinds, pad : Pads, chars : Seq(Characters), st : States]
SingleOf(f) == IF f.flag = "chars" THEN [k \in DOMAIN f.chars |-> Literal(<<f.chars[k]>>)]
                                   ELSE <<[f EXCEPT !.st = Fresh]>>
Separated(fs) == [i \in DOMAIN fs |-> SingleOf(fs[i])]

LEMMA LiteralIsPart ==
    ASSUME NEW chars \in Seq(Characters)
    PROVE  Literal(chars) \in Parts /\ Literal(chars).flag = "chars" /\ Literal(chars).chars = chars
<1>1. NoPad \in Pads /\ "chars" \in Kinds
  BY SMT DEF NoPad, Pads, MaxWidth, Kinds
<1>2. Literal(chars) = [flag |-> "chars", pad |-> NoPad, chars |-> chars, st |-> Fresh]
  BY DEF Literal, Formatter, ElapsedFlags
<1>3. Fresh \in States
  BY DEF States
<1> HIDE DEF NoPad, Fresh
<1>4. QED
  BY <1>1, <1>2, <1>3 DEF Parts

LEMMA SingleIsParts ==
    ASSUME NEW f \in Parts
    PROVE  SingleOf(f) \in Seq(Parts)
<1>1. CASE f.flag = "chars"
  <2>1. PICK chars \in Seq(Characters) : chars = f.chars
    BY DEF Parts
  <2>2. PICK n \in Nat : n = Len(chars)
    OBVIOUS
  <2>3. DOMAIN chars = 1 .. n /\ \A k \in 1 .. n : chars[k] \in Characters
    BY <2>2, LenProperties, ElementOfSeq
  <2>4. \A k \in 1 .. n : Literal(<<chars[k]>>) \in Parts
    <3>1. \A k \in 1 .. n : <<chars[k]>> \in Seq(Characters)
      BY <2>3, TwoMakeASeq
    <3>2. QED
      BY <3>1, LiteralIsPart
  <2>5. [k \in 1 .. n |-> Literal(<<chars[k]>>)] \in [1 .. n -> Parts]
    BY <2>4
  <2>6. [k \in 1 .. n |-> Literal(<<chars[k]>>)] \in Seq(Parts)
    BY <2>5, SeqDef
  <2>7. QED
    BY <1>1, <2>1, <2>3, <2>6 DEF SingleOf
<1>2. CASE f.flag # "chars"
  <2>1. [f EXCEPT !.st = Fresh] \in Parts
    BY DEF Parts, States
  <2>2. QED
    BY <1>2, <2>1, TwoMakeASeq DEF SingleOf
<1>3. QED
  BY <1>1, <1>2

LEMMA SinglesOf ==
    ASSUME NEW fs \in Seq(Parts)
    PROVE  /\ Singles(fs) = FlattenSeq(Separated(fs))
           /\ Separated(fs) \in Seq(Seq(Parts)) /\ Len(Separated(fs)) = Len(fs)
           /\ \A k \in 1 .. Len(fs) : Separated(fs)[k] = SingleOf(fs[k])
<1>1. PICK n \in Nat : n = Len(fs)
  OBVIOUS
<1>2. DOMAIN fs = 1 .. n /\ \A k \in 1 .. n : fs[k] \in Parts
  BY <1>1, LenProperties, ElementOfSeq
<1>3. \A k \in 1 .. n : SingleOf(fs[k]) \in Seq(Parts)
  BY <1>2, SingleIsParts
<1>4. PICK w : w = [k \in 1 .. n |-> SingleOf(fs[k])]
  OBVIOUS
<1>5. w \in [1 .. n -> Seq(Parts)]
  BY <1>3, <1>4
<1>6. w \in Seq(Seq(Parts))
  BY <1>5, SeqDef
<1>7. Len(w) = n
  <2>1. w = [k \in 1 .. n |-> w[k]]
    BY <1>4
  <2>2. QED
    BY <2>1, LengthOf
<1>8. Separated(fs) = w
  BY <1>2, <1>4 DEF Separated
<1>9. Singles(fs) = FlattenSeq(Separated(fs))
  BY DEF Singles, Separated, SingleOf
<1>10. QED
  BY <1>1, <1>4, <1>6, <1>7, <1>8, <1>9

LEMMA SinglesConcat ==
    ASSUME NEW a \in Seq(Parts), NEW b \in Seq(Parts)
    PROVE  /\ Singles(a) \in Seq(Parts) /\ Singles(b) \in Seq(Parts)
           /\ Singles(a \o b) = Singles(a) \o Singles(b)
<1>1. PICK m \in Nat, n \in Nat : m = Len(a) /\ n = Len(b)
  OBVIOUS
<1>2. PICK u \in Seq(Seq(Parts)), v \in Seq(Seq(Parts)) : u = Separated(a) /\ v = Separated(b)
  BY SinglesOf
<1>3. /\ Singles(a) = FlattenSeq(u) /\ Len(u) = m /\ \A k \in 1 .. m : u[k] = SingleOf(a[k])
      /\ Singles(b) = FlattenSeq(v) /\ Len(v) = n /\ \A k \in 1 .. n : v[k] = SingleOf(b[k])
  BY <1>1, <1>2, SinglesOf
<1>4. PICK c \in Seq(Parts) : c = a \o b
  BY ConcatProperties
<1>5. /\ Len(c) = m + n
      /\ \A k \in 1 .. m + n : c[k] = IF k <= m THEN a[k] ELSE b[k - m]
  BY <1>1, <1>4, ConcatProperties
<1>6. PICK w \in Seq(Seq(Parts)) : w = Separated(c)
  BY SinglesOf
<1>7. /\ Singles(c) = FlattenSeq(w) /\ Len(w) = m + n
      /\ \A k \in 1 .. m + n : w[k] = SingleOf(c[k])
  BY <1>5, <1>6, SinglesOf
<1>8. PICK x \in Seq(Seq(Parts)) : x = u \o v
  BY ConcatProperties
<1>9. /\ Len(x) = m + n
      /\ \A k \in 1 .. m + n : x[k] = IF k <= m THEN u[k] ELSE v[k - m]
  BY <1>3, <1>8, ConcatProperties, ZenonT(40)
<1>10. \A k \in 1 .. m + n : (k <= m => k \in 1 .. m) /\ (~(k <= m) => k - m \in 1 .. n)
  BY SMT
<1>11. \A k \in 1 .. m + n : w[k] = x[k]
  <2>1. TAKE k \in 1 .. m + n
  <2>2. CASE k <= m
    <3>1. k \in 1 .. m
      BY <1>10, <2>2
    <3>2. c[k] = a[k] /\ x[k] = u[k]
      BY <1>5, <1>9, <2>2
    <3>3. u[k] = SingleOf(a[k]) /\ w[k] = SingleOf(c[k])
      BY <1>3, <1>7, <3>1
    <3>4. QED
      BY <3>2, <3>3
  <2>3. CASE ~(k <= m)
    <3>1. PICK l \in 1 .. n : l = k - m
      BY <1>10, <2>3
    <3>2. c[k] = b[l] /\ x[k] = v[l]
      BY <1>5, <1>9, <2>3, <3>1
    <3>3. v[l] = SingleOf(b[l]) /\ w[k] = SingleOf(c[k])
      BY <1>3, <1>7
    <3>4. QED
      BY <3>2, <3>3
  <2>4. QED
    BY <2>2, <2>3
<1>12. w = x
  BY <1>7, <1>9, <1>11, SeqEqual
<1>13. QED
  BY <1>3, <1>4, <1>7, <1>8, <1>12, FlattenConcat

LEMMA SinglesOne ==
    ASSUME NEW f \in Parts
    PROVE  Singles(<<f>>) = SingleOf(f)
<1>1. PICK fs \in Seq(Parts) : fs = <<f>>
  BY TwoMakeASeq
<1>2. Len(fs) = 1 /\ fs[1] = f
  BY <1>1
<1>3. PICK s \in Seq(Parts) : s = SingleOf(f)
  BY SingleIsParts
<1>4. Separated(fs) = <<s>>
  <2>1. DOMAIN fs = 1 .. 1
    BY <1>2, LenProperties
  <2>2. Separated(fs) = [i \in 1 .. 1 |-> s]
    <3>1. \A i \in 1 .. 1 : fs[i] = f
      BY <1>2, SMT
    <3>2. QED
      BY <1>3, <2>1, <3>1 DEF Separated
  <2>3. <<s>> = [i \in 1 .. 1 |-> s]
    OBVIOUS
  <2>4. QED
    BY <2>2, <2>3
<1>5. Singles(fs) = FlattenSeq(Separated(fs))
  BY SinglesOf
<1>6. QED
  BY <1>1, <1>3, <1>4, <1>5, FlattenOne

LEMMA SinglesEmpty == Singles(<<>>) = <<>>
<1>1. Len(<<>>) = 0 /\ <<>> \in Seq(Parts)
  BY EmptySeq
<1>2. PICK fs \in Seq(Parts) : fs = <<>>
  BY <1>1
<1>3. Len(Separated(fs)) = 0 /\ Separated(fs) \in Seq(Seq(Parts))
  BY <1>1, <1>2, SinglesOf
<1>4. Separated(fs) = <<>>
  BY <1>3, EmptySeq
<1>5. FlattenSeq(Separated(fs)) = Separated(fs)
  BY <1>3 DEF FlattenSeq
<1>6. QED
  BY <1>2, <1>4, <1>5, SinglesOf

(* A run of characters.                                                    *)
LEMMA SinglesOfLiteral ==
    ASSUME NEW p \in Seq(Characters), NEW i \in 1 .. Len(p), NEW j \in i + 1 .. Len(p) + 1
    PROVE  /\ Literal(SubSeq(p, i, j - 1)) \in Parts
           /\ SingleOf(Literal(SubSeq(p, i, j - 1))) = [k \in 1 .. j - i |-> Literal(<<p[i + k - 1]>>)]
<1>1. Len(p) \in Nat
  OBVIOUS
<1>2. /\ i \in Int /\ j - 1 \in Int /\ i <= j - 1 /\ (j - 1) - i + 1 = j - i /\ j - i \in Nat
      /\ \A n \in i .. j - 1 : n \in 1 .. Len(p)
  BY <1>1, SMT
<1>3. \A n \in i .. j - 1 : p[n] \in Characters
  BY <1>2, ElementOfSeq
<1>4. PICK s : s = SubSeq(p, i, j - 1)
  OBVIOUS
<1>5. /\ s \in Seq(Characters) /\ Len(s) = j - i
      /\ \A k \in 1 .. j - i : s[k] = p[i + k - 1]
  BY <1>2, <1>3, <1>4, SubSeqProperties
<1>6. Literal(s) \in Parts /\ Literal(s).flag = "chars" /\ Literal(s).chars = s
  BY <1>5, LiteralIsPart
<1>7. DOMAIN s = 1 .. j - i
  BY <1>5, LenProperties
<1>8. SingleOf(Literal(s)) = [k \in 1 .. j - i |-> Literal(<<s[k]>>)]
  BY <1>6, <1>7 DEF SingleOf
<1>9. QED
  BY <1>4, <1>5, <1>6, <1>8

LEMMA UnusedIsParts == \A s \in Seq(Unused) : s \in Seq(Parts)
<1>1. Unused \subseteq Parts
  BY DEF Unused, Parts
<1>2. QED
  BY <1>1, SeqMonotonic

LEMMA SameEnd ==
    ASSUME NEW p \in Seq(Characters), NEW i \in 1 .. Len(p), p[i] # "%", LiteralEnd(p, i) # i + 1
    PROVE  /\ i + 1 \in 1 .. Len(p) /\ p[i + 1] # "%"
           /\ LiteralEnd(p, i + 1) = LiteralEnd(p, i)
<1>1. Len(p) \in Nat
  OBVIOUS
<1>2. PICK j : j = LiteralEnd(p, i)
  OBVIOUS
<1>3. /\ j \in i + 1 .. Len(p) + 1 /\ (j = Len(p) + 1 \/ p[j] = "%")
      /\ \A n \in i .. j - 1 : p[n] # "%"
  BY <1>2, LiteralEnds
<1>4. i + 1 \in 1 .. Len(p) /\ i + 1 \in i .. j - 1
  BY <1>1, <1>2, <1>3, SMT
<1>5. p[i + 1] # "%"
  BY <1>3, <1>4
<1>6. PICK k, l : k = LiteralEnd(p, l) /\ l = i + 1
  OBVIOUS
<1>7. /\ k \in l + 1 .. Len(p) + 1 /\ (k = Len(p) + 1 \/ p[k] = "%")
      /\ \A n \in l .. k - 1 : p[n] # "%"
  BY <1>4, <1>5, <1>6, LiteralEnds
<1>8. ~(k < j)
  <2>1. k < j => k # Len(p) + 1 /\ k \in i .. j - 1
    BY <1>1, <1>3, <1>6, <1>7, SMT
  <2>2. QED
    BY <1>3, <1>7, <2>1
<1>9. ~(j < k)
  <2>1. j < k => j # Len(p) + 1 /\ j \in l .. k - 1
    BY <1>1, <1>3, <1>6, <1>7, SMT
  <2>2. QED
    BY <1>3, <1>7, <2>1
<1>10. j = k
  BY <1>1, <1>3, <1>6, <1>7, <1>8, <1>9, SMT
<1>11. QED
  BY <1>2, <1>4, <1>5, <1>6, <1>10

(* The first character of a run of characters, and the rest of the run.    *)
LEMMA FirstOfRun ==
    ASSUME NEW p \in Seq(Characters), NEW i \in 1 .. Len(p), NEW j \in i + 1 .. Len(p) + 1
    PROVE  LET run(k) == SingleOf(Literal(SubSeq(p, k, j - 1)))
           IN  /\ run(i) \in Seq(Parts) /\ <<Literal(<<p[i]>>)>> \in Seq(Parts)
               /\ j = i + 1 => run(i) = <<Literal(<<p[i]>>)>>
               /\ j # i + 1 => run(i + 1) \in Seq(Parts) /\ run(i) = <<Literal(<<p[i]>>)>> \o run(i + 1)
<1>1. Len(p) \in Nat
  OBVIOUS
<1>2. PICK a : a = SingleOf(Literal(SubSeq(p, i, j - 1)))
  OBVIOUS
<1>3. PICK x : x = <<Literal(<<p[i]>>)>>
  OBVIOUS
<1>4. a \in Seq(Parts) /\ a = [k \in 1 .. j - i |-> Literal(<<p[i + k - 1]>>)]
  BY <1>2, SinglesOfLiteral, SingleIsParts
<1>5. x \in Seq(Parts) /\ Len(x) = 1 /\ x[1] = Literal(<<p[i]>>)
  <2>1. <<p[i]>> \in Seq(Characters)
    BY ElementOfSeq, TwoMakeASeq
  <2>2. Literal(<<p[i]>>) \in Parts
    BY <2>1, LiteralIsPart
  <2>3. QED
    BY <1>3, <2>2, TwoMakeASeq
<1>6. Len(a) = j - i /\ j - i \in Nat /\ j - i >= 1
  <2>1. j - i \in Nat /\ j - i >= 1
    BY <1>1, SMT
  <2>2. a = [k \in 1 .. j - i |-> a[k]]
    BY <1>4
  <2>3. QED
    BY <2>1, <2>2, LengthOf
<1>7. a[1] = x[1]
  <2>1. 1 \in 1 .. j - i /\ i + 1 - 1 = i
    BY <1>6, SMT
  <2>2. a[1] = Literal(<<p[i + 1 - 1]>>)
    BY <1>4, <2>1
  <2>3. QED
    BY <1>5, <2>1, <2>2
<1>8. CASE j = i + 1
  <2>1. j - i = 1
    BY <1>8, SMT
  <2>2. Len(a) = 1
    BY <1>6, <2>1
  <2>3. \A k \in 1 .. 1 : a[k] = x[k]
    <3>1. \A k \in 1 .. 1 : k = 1
      BY SMT
    <3>2. QED
      BY <1>7, <3>1
  <2>4. a = x
    BY <1>4, <1>5, <2>2, <2>3, SeqEqual
  <2>5. QED
    BY <1>2, <1>3, <1>4, <1>5, <1>8, <2>4
<1>9. CASE j # i + 1
  <2>1. PICK l : l = i + 1
    OBVIOUS
  <2>2. l \in 1 .. Len(p) /\ j \in l + 1 .. Len(p) + 1
    BY <1>1, <1>9, <2>1, SMT
  <2>3. PICK b : b = SingleOf(Literal(SubSeq(p, l, j - 1)))
    OBVIOUS
  <2>4. b \in Seq(Parts) /\ b = [k \in 1 .. j - l |-> Literal(<<p[l + k - 1]>>)]
    BY <2>2, <2>3, SinglesOfLiteral, SingleIsParts
  <2>5. Len(b) = j - l
    <3>1. j - l \in Nat
      BY <1>1, <2>2, SMT
    <3>2. b = [k \in 1 .. j - l |-> b[k]]
      BY <2>4
    <3>3. QED
      BY <3>1, <3>2, LengthOf
  <2>6. PICK y \in Seq(Parts) : y = x \o b
    BY <1>5, <2>4, ConcatProperties
  <2>7. /\ Len(y) = 1 + (j - l)
        /\ \A k \in 1 .. 1 + (j - l) : y[k] = IF k <= 1 THEN x[k] ELSE b[k - 1]
    <3>1. /\ Len(y) = Len(x) + Len(b)
          /\ \A k \in 1 .. Len(x) + Len(b) : y[k] = IF k <= Len(x) THEN x[k] ELSE b[k - Len(x)]
      BY <1>5, <2>4, <2>6, ConcatProperties, ZenonT(40)
    <3>2. QED
      BY <1>5, <2>5, <3>1, Zenon
  <2>8. 1 + (j - l) = j - i
    BY <1>1, <2>1, <2>2, SMT
  <2>9. \A k \in 1 .. j - i : a[k] = y[k]
    <3>1. TAKE k \in 1 .. j - i
    <3>2. CASE k = 1
      <4>1. y[k] = x[1]
        BY <2>7, <2>8, <3>2
      <4>2. QED
        BY <1>7, <3>2, <4>1
    <3>3. CASE k # 1
      <4>1. ~(k <= 1) /\ k - 1 \in 1 .. j - l /\ l + (k - 1) - 1 = i + k - 1
        BY <1>1, <2>1, <2>2, <3>3, SMT
      <4>2. y[k] = b[k - 1]
        BY <2>7, <2>8, <4>1
      <4>3. b[k - 1] = Literal(<<p[l + (k - 1) - 1]>>)
        BY <2>4, <4>1
      <4>4. a[k] = Literal(<<p[i + k - 1]>>)
        BY <1>4
      <4>5. QED
        BY <4>1, <4>2, <4>3, <4>4
    <3>4. QED
      BY <3>2, <3>3
  <2>10. a = y
    BY <1>4, <1>6, <2>6, <2>7, <2>8, <2>9, SeqEqual
  <2>11. QED
    BY <1>2, <1>3, <1>4, <1>5, <1>9, <2>1, <2>3, <2>4, <2>6, <2>10
<1>10. QED
  BY <1>8, <1>9

LEMMA RunPart ==
    ASSUME NEW p \in Seq(Characters), NEW f, Compiles(f, p), NEW i \in 1 .. Len(p), p[i] # "%",
           NEW j, j = LiteralEnd(p, i)
    PROVE  /\ j \in i + 1 .. Len(p) + 1 /\ Singles(f[j]) \in Seq(Parts)
           /\ Singles(f[i]) = SingleOf(Literal(SubSeq(p, i, j - 1))) \o Singles(f[j])
<1>1. Len(p) \in Nat
  OBVIOUS
<1>2. i \in 1 .. Len(p) + 1 /\ ~(i > Len(p))
  BY <1>1, SMT
<1>3. j \in i + 1 .. Len(p) + 1 /\ j \in 1 .. Len(p) + 1
  <2>1. j \in i + 1 .. Len(p) + 1
    BY LiteralEnds
  <2>2. QED
    BY <1>1, <2>1, SMT
<1>4. PICK x : x = Literal(SubSeq(p, i, j - 1))
  OBVIOUS
<1>5. x \in Parts
  BY <1>3, <1>4, SinglesOfLiteral
<1>6. PICK a \in Seq(Parts) : a = <<x>>
  BY <1>5, TwoMakeASeq
<1>7. f[j] \in Seq(Parts)
  BY <1>3, UnusedIsParts DEF Compiles
<1>8. f[i] = a \o f[j]
  <2>1. f[i] = From(p, f, i)
    BY <1>2 DEF Compiles
  <2>2. QED
    BY <1>2, <1>4, <1>6, <2>1 DEF From
<1>9. Singles(f[i]) = Singles(a) \o Singles(f[j]) /\ Singles(f[j]) \in Seq(Parts)
  <2>1. PICK b \in Seq(Parts) : b = f[j]
    BY <1>7
  <2>2. Singles(a \o b) = Singles(a) \o Singles(b) /\ Singles(b) \in Seq(Parts)
    BY SinglesConcat
  <2>3. QED
    BY <1>8, <2>1, <2>2
<1>10. QED
  BY <1>3, <1>4, <1>5, <1>6, <1>9, SinglesOne

LEMMA PartsAssociate ==
    \A a, b, c \in Seq(Parts) : (a \o b) \o c = a \o (b \o c)
BY ConcatAssociative

LEMMA LiteralPart ==
    ASSUME NEW p \in Seq(Characters), NEW f, Compiles(f, p), NEW i \in 1 .. Len(p), p[i] # "%"
    PROVE  Singles(f[i]) = <<Literal(<<p[i]>>)>> \o Singles(f[i + 1])
<1>1. PICK j : j = LiteralEnd(p, i)
  OBVIOUS
<1>2. PICK run : run = [k \in {i, i + 1} |-> SingleOf(Literal(SubSeq(p, k, j - 1)))]
  OBVIOUS
<1>3. PICK a : a = Literal(<<p[i]>>)
  OBVIOUS
<1>4. j \in i + 1 .. Len(p) + 1 /\ Singles(f[j]) \in Seq(Parts) /\ Singles(f[i]) = run[i] \o Singles(f[j])
  BY <1>1, <1>2, RunPart
<1>5. /\ run[i] \in Seq(Parts) /\ <<a>> \in Seq(Parts)
      /\ j = i + 1 => run[i] = <<a>>
      /\ j # i + 1 => run[i + 1] \in Seq(Parts) /\ run[i] = <<a>> \o run[i + 1]
  BY <1>2, <1>3, <1>4, FirstOfRun
<1>6. CASE j = i + 1
  BY <1>3, <1>4, <1>5, <1>6
<1>7. CASE j # i + 1
  <2>1. PICK l : l = i + 1
    OBVIOUS
  <2>2. l \in 1 .. Len(p) /\ p[l] # "%" /\ j = LiteralEnd(p, l)
    BY <1>1, <1>7, <2>1, SameEnd
  <2>3. Singles(f[l]) = run[l] \o Singles(f[j])
    BY <1>2, <2>1, <2>2, RunPart, ZenonT(40)
  <2>4. PICK x \in Seq(Parts), y \in Seq(Parts), z \in Seq(Parts) : x = <<a>> /\ y = run[l] /\ z = Singles(f[j])
    BY <1>4, <1>5, <1>7, <2>1
  <2>5. (x \o y) \o z = x \o (y \o z)
    BY PartsAssociate
  <2>6. QED
    BY <1>3, <1>4, <1>5, <1>7, <2>1, <2>3, <2>4, <2>5
<1>8. QED
  BY <1>6, <1>7

LEMMA FlagPart ==
    ASSUME NEW p \in Seq(Characters), NEW f, Compiles(f, p), NEW i \in 1 .. Len(p), p[i] = "%",
           NEW spec, spec = handle_padspec_(p, i + 1)
    PROVE  /\ spec.it > Len(p) => Singles(f[i]) = <<>>
           /\ ~(spec.it > Len(p)) =>
                 Singles(f[i]) = Singles(handle_flag_(p[spec.it], spec.pad)) \o Singles(f[spec.it + 1])
<1>1. Len(p) \in Nat
  OBVIOUS
<1>2. i \in 1 .. Len(p) + 1 /\ ~(i > Len(p)) /\ i + 1 \in 1 .. Len(p) + 1
  BY <1>1, SMT
<1>3. f[i] = IF spec.it > Len(p) THEN <<>> ELSE handle_flag_(p[spec.it], spec.pad) \o f[spec.it + 1]
  <2>1. f[i] = From(p, f, i)
    BY <1>2 DEF Compiles
  <2>2. QED
    BY <1>2, <2>1 DEF From
<1>4. CASE spec.it > Len(p)
  BY <1>3, <1>4, SinglesEmpty
<1>5. CASE ~(spec.it > Len(p))
  <2>1. spec.it \in i + 1 .. Len(p) + 1 /\ spec.pad \in Pads
    BY <1>2, PadSpecRead
  <2>2. PICK k : k = spec.it
    OBVIOUS
  <2>3. k \in 1 .. Len(p) /\ k + 1 \in 1 .. Len(p) + 1
    BY <1>1, <1>5, <2>1, <2>2, SMT
  <2>4. handle_flag_(p[k], spec.pad) \in Seq(Parts)
    <3>1. p[k] \in Characters
      BY <2>3, ElementOfSeq
    <3>2. QED
      BY <2>1, <3>1, HandledFlagIsUnused, UnusedIsParts
  <2>5. f[k + 1] \in Seq(Parts)
    BY <2>3, UnusedIsParts DEF Compiles
  <2>6. PICK a \in Seq(Parts), b \in Seq(Parts) : a = handle_flag_(p[k], spec.pad) /\ b = f[k + 1]
    BY <2>4, <2>5
  <2>7. Singles(a \o b) = Singles(a) \o Singles(b)
    BY SinglesConcat
  <2>8. f[i] = a \o b
    BY <1>3, <1>5, <2>2, <2>6
  <2>9. QED
    BY <1>5, <2>2, <2>6, <2>7, <2>8
<1>6. QED
  BY <1>4, <1>5

-----------------------------------------------------------------------------
(* The same digits have the same width wherever they stand.                *)
LEMMA WidthIs ==
    ASSUME NEW p, NEW i \in Nat, NEW j \in Nat, i <= j, NEW g, Values(g, p, i, j)
    PROVE  Width(p, i, j) = IF g[j] < MaxWidth THEN g[j] ELSE MaxWidth
<1> DEFINE Unfolded(f) == [k \in i .. j |-> IF k = i THEN 0 ELSE 10 * f[k - 1] + DigitValue(p[k - 1])]
           value == CHOOSE f : f = Unfolded(f)
<1>1. g = Unfolded(g)
  BY DEF Values
<1>2. value = Unfolded(value)
  BY <1>1
<1>3. Width(p, i, j) = IF value[j] < MaxWidth THEN value[j] ELSE MaxWidth
  BY DEF Width
<1>4. PICK f : f = value
  OBVIOUS
<1>5. f = Unfolded(f)
  BY <1>2, <1>4
<1>6. f[j] = g[j]
  <2> DEFINE S == {k \in i .. j : f[k] # g[k]}
  <2> SUFFICES ASSUME f[j] # g[j] PROVE FALSE
    OBVIOUS
  <2>1. PICK k \in S : \A c \in S : ~(c < k)
    <3>1. j \in i .. j /\ S \subseteq Nat
      BY SMT
    <3>2. QED
      BY <3>1, LeastElement
  <2>2. k # i
    BY <1>5, <2>1 DEF Values
  <2>3. k - 1 \in i .. j /\ k - 1 < k
    BY <2>1, <2>2, SMT
  <2>4. f[k - 1] = g[k - 1]
    BY <2>1, <2>3
  <2>5. /\ f[k] = 10 * f[k - 1] + DigitValue(p[k - 1])
        /\ g[k] = 10 * g[k - 1] + DigitValue(p[k - 1])
    BY <1>5, <2>1, <2>2 DEF Values
  <2>6. QED
    BY <2>1, <2>4, <2>5
<1>7. QED
  BY <1>3, <1>4, <1>6

LEMMA WidthMoves ==
    ASSUME NEW p, NEW q, NEW o \in Nat, NEW a \in Nat, NEW b \in Nat, a <= b,
           \A k \in a .. b - 1 : q[k] = p[o + k] /\ q[k] \in Range(DigitChars)
    PROVE  Width(q, a, b) = Width(p, o + a, o + b)
<1>1. PICK g : Values(g, q, a, b)
  BY ValuesExist
<1>2. PICK c \in Nat, d \in Nat : c = o + a /\ d = o + b /\ c <= d /\ d - o = b
  <2>1. o + a \in Nat /\ o + b \in Nat /\ o + a <= o + b /\ o + b - o = b
    BY SMT
  <2>2. QED
    BY <2>1
<1>3. PICK h : h = [k \in c .. d |-> g[k - o]]
  OBVIOUS
<1>4. /\ d \in c .. d /\ (\A k \in c .. d : k - o \in a .. b)
      /\ \A k \in c .. d : (k = c <=> k - o = a)
      /\ \A k \in c .. d : k # c => /\ k - 1 \in c .. d /\ (k - 1) - o = (k - o) - 1
                                    /\ (k - o) - 1 \in a .. b - 1 /\ o + ((k - o) - 1) = k - 1
  BY <1>2, SMT
<1>5. h \in [c .. d -> Nat]
  BY <1>1, <1>3, <1>4 DEF Values
<1>6. ASSUME NEW k \in c .. d
      PROVE  h[k] = IF k = c THEN 0 ELSE 10 * h[k - 1] + DigitValue(p[k - 1])
  <2>1. PICK l \in a .. b : l = k - o
    BY <1>4
  <2>2. h[k] = g[l]
    BY <1>3, <2>1
  <2>3. g[l] = IF l = a THEN 0 ELSE 10 * g[l - 1] + DigitValue(q[l - 1])
    BY <1>1 DEF Values
  <2>4. CASE k = c
    BY <1>4, <2>1, <2>2, <2>3, <2>4
  <2>5. CASE k # c
    <3>1. l # a /\ k - 1 \in c .. d /\ (k - 1) - o = l - 1 /\ l - 1 \in a .. b - 1 /\ o + (l - 1) = k - 1
      BY <1>4, <2>1, <2>5
    <3>2. h[k - 1] = g[l - 1]
      BY <1>3, <3>1
    <3>3. q[l - 1] = p[k - 1]
      BY <3>1
    <3>4. QED
      BY <2>2, <2>3, <2>5, <3>1, <3>2, <3>3
  <2>6. QED
    BY <2>4, <2>5
<1>7. Values(h, p, c, d)
  BY <1>5, <1>6 DEF Values
<1>8. h[d] = g[b]
  BY <1>2, <1>3, <1>4
<1>9. Width(p, c, d) = IF h[d] < MaxWidth THEN h[d] ELSE MaxWidth
  BY <1>2, <1>7, WidthIs
<1>10. Width(q, a, b) = IF g[b] < MaxWidth THEN g[b] ELSE MaxWidth
  BY <1>1, WidthIs
<1>11. QED
  BY <1>2, <1>8, <1>9, <1>10

-----------------------------------------------------------------------------
(* What handle_padspec_ finds at i: a side, where the digits begin and end,*)
(* and a truncate mark.                                                    *)
SideAt(p, i) == IF i <= Len(p) /\ p[i] \in {"-", "="} THEN p[i] ELSE ""
FirstAt(p, i) == IF SideAt(p, i) = "" THEN i ELSE i + 1
AfterAt(p, i) == SkipWhile(p, FirstAt(p, i), Range(DigitChars))
DigitsAt(p, i) == FirstAt(p, i) <= Len(p) /\ AfterAt(p, i) > FirstAt(p, i)
BangAt(p, i) == DigitsAt(p, i) /\ AfterAt(p, i) <= Len(p) /\ p[AfterAt(p, i)] = "!"
FlagAt(p, i) == IF BangAt(p, i) THEN AfterAt(p, i) + 1 ELSE AfterAt(p, i)
Where(side) == CASE side = "-" -> "right" [] side = "=" -> "center" [] OTHER -> "left"

LEMMA SpecIs ==
    ASSUME NEW p, NEW i
    PROVE  handle_padspec_(p, i) =
              [it  |-> FlagAt(p, i),
               pad |-> IF DigitsAt(p, i)
                       THEN padding_info(Width(p, FirstAt(p, i), AfterAt(p, i)), Where(SideAt(p, i)), BangAt(p, i))
                       ELSE NoPad]
BY DEF handle_padspec_, FlagAt, BangAt, DigitsAt, AfterAt, FirstAt, SideAt, Where

LEMMA MarksAreNoDigits == "-" \notin Range(DigitChars) /\ "=" \notin Range(DigitChars) /\ "!" \notin Range(DigitChars)
<1>1. DOMAIN DigitChars = 1 .. 10
  BY DEF DigitChars
<1>2. ASSUME NEW k \in 1 .. 10
      PROVE  DigitChars[k] \in {"0", "1", "2", "3", "4", "5", "6", "7", "8", "9"}
  <2>1. \/ k = 1 \/ k = 2 \/ k = 3 \/ k = 4 \/ k = 5 \/ k = 6 \/ k = 7 \/ k = 8 \/ k = 9 \/ k = 10
    BY SMT
  <2>2. QED
    BY <2>1 DEF DigitChars
<1>3. Range(DigitChars) \subseteq {"0", "1", "2", "3", "4", "5", "6", "7", "8", "9"}
  BY <1>1, <1>2 DEF Range
<1>4. QED
  BY <1>3

(* A flag of the grammar, with its flag character at n + 2 and its digits  *)
(* after d.                                                                *)
Spelled(q, side, w, bang, n, d) ==
    /\ Len(q) >= n + 2
    /\ side # "" => q[2] = side
    /\ \A k \in d + 1 .. d + w : isdigit(q[k])
    /\ bang => w > 0 /\ q[d + w + 1] = "!"
    /\ ~bang => ~isdigit(q[n + 2])
    /\ side = "" /\ w = 0 => q[2] \notin {"-", "="}
    /\ w > 0 /\ ~bang => q[n + 2] # "!"
One(b) == IF b THEN 1 ELSE 0

LEMMA SpecPartsAre ==
    ASSUME NEW q, NEW s
    PROVE  s \in SpecParts(q) <=>
              /\ s \in [side : {"", "-", "="}, width : 0 .. Len(q), bang : BOOLEAN]
              /\ Spelled(q, s.side, s.width, s.bang, One(s.side # "") + s.width + One(s.bang), 1 + One(s.side # ""))
<1>1. (IF s.side = "" THEN 0 ELSE 1) = One(s.side # "")
  BY DEF One
<1>2. (IF s.bang THEN 1 ELSE 0) = One(s.bang)
  BY DEF One
<1> HIDE DEF One
<1>3. QED
  BY <1>1, <1>2 DEF SpecParts, Spelled

LEMMA MeaningIs ==
    ASSUME NEW q, NEW s, NEW d, NEW n, d = 1 + One(s.side # ""), n = d + s.width + One(s.bang)
    PROVE  Meaning(q, s) =
              [flag |-> q[n + 1], rest |-> SubSeq(q, n + 2, Len(q)),
               pad  |-> IF s.width = 0 THEN NoPad
                        ELSE padding_info(Width(q, d + 1, d + s.width + 1), Where(s.side), s.bang)]
<1>1. (IF s.side = "" THEN 0 ELSE 1) = One(s.side # "")
  BY DEF One
<1>2. (IF s.bang THEN 1 ELSE 0) = One(s.bang)
  BY DEF One
<1> HIDE DEF One
<1>3. QED
  BY <1>1, <1>2 DEF Meaning, Where

(* q is what p holds after its first o characters.                         *)
Ends(q, p, o) == /\ p \in Seq(Characters) /\ q \in Seq(Characters)
                 /\ o \in Nat /\ o + 1 <= Len(p) /\ Len(q) = Len(p) - o
                 /\ \A k \in 1 .. Len(q) : q[k] = p[o + k]

LEMMA OneIs ==
    ASSUME NEW b \in BOOLEAN
    PROVE  One(b) \in 0 .. 1 /\ (One(b) = 0 <=> ~b)
BY SMT DEF One

(* A side takes no character, or one.                                      *)
Sides == {"", "-", "="}
NoSide == ""
Marks(side) == One(side # NoSide)

LEMMA MarksAre ==
    ASSUME NEW side
    PROVE  /\ Marks(side) \in 0 .. 1 /\ (Marks(side) = 0 <=> side = NoSide)
           /\ Marks(side) = One(side # "")
<1>1. (side # NoSide) \in BOOLEAN
  OBVIOUS
<1>2. Marks(side) \in 0 .. 1 /\ (Marks(side) = 0 <=> ~(side # NoSide))
  BY <1>1, OneIs DEF Marks
<1>3. QED
  BY <1>2 DEF Marks, NoSide

LEMMA SpecPlaces ==
    ASSUME NEW p \in Seq(Characters), NEW i \in 1 .. Len(p) + 1
    PROVE  /\ SideAt(p, i) \in Sides /\ (SideAt(p, i) # NoSide => i <= Len(p) /\ p[i] = SideAt(p, i))
           /\ FirstAt(p, i) = i + Marks(SideAt(p, i)) /\ FirstAt(p, i) \in 1 .. Len(p) + 1
           /\ AfterAt(p, i) \in FirstAt(p, i) .. Len(p) + 1
           /\ AfterAt(p, i) = Len(p) + 1 \/ p[AfterAt(p, i)] \notin Range(DigitChars)
           /\ \A k \in FirstAt(p, i) .. AfterAt(p, i) - 1 : p[k] \in Range(DigitChars)
<1>1. Len(p) \in Nat /\ i \in Nat
  BY SMT
<1>2. SideAt(p, i) \in Sides /\ (SideAt(p, i) # NoSide => i <= Len(p) /\ p[i] = SideAt(p, i))
  BY DEF SideAt, Sides, NoSide
<1>3. FirstAt(p, i) = i + Marks(SideAt(p, i))
  <2>1. i + 0 = i
    BY <1>1, SMT
  <2>2. QED
    BY <2>1 DEF FirstAt, Marks, NoSide, One
<1>4. FirstAt(p, i) \in 1 .. Len(p) + 1
  <2>1. i + 1 \in 1 .. Len(p) + 1 \/ ~(i <= Len(p))
    BY <1>1, SMT
  <2>2. QED
    BY <1>2, <2>1 DEF FirstAt, NoSide
<1>5. QED
  BY <1>2, <1>3, <1>4, SkipWhileStops DEF AfterAt

(* handle_padspec_ reads a flag as the grammar spells it.                  *)
Reading(i, o, side, w, bang, c, b) ==
    /\ i \in Nat /\ i = o + 2 /\ side \in Sides /\ w \in Nat /\ bang \in BOOLEAN
    /\ c = Marks(side) /\ b = One(bang)

LEMMA SpelledIsRead ==
    ASSUME NEW q, NEW p, NEW o \in Nat, Ends(q, p, o), NEW i, NEW side, NEW w, NEW bang, NEW c, NEW b,
           Reading(i, o, side, w, bang, c, b), Spelled(q, side, w, bang, c + w + b, 1 + c)
    PROVE  /\ SideAt(p, i) = side /\ FirstAt(p, i) = i + c /\ AfterAt(p, i) = i + c + w
           /\ (DigitsAt(p, i) <=> w > 0) /\ (BangAt(p, i) <=> bang) /\ FlagAt(p, i) = i + c + w + b
           /\ i + c + w + b <= Len(p)
<1> i \in Nat /\ i = o + 2 /\ side \in Sides /\ w \in Nat /\ bang \in BOOLEAN
  BY DEF Reading
<1> c = Marks(side) /\ b = One(bang)
  BY DEF Reading
<1>1. PICK N \in Nat, M \in Nat : N = Len(p) /\ M = Len(q) /\ M = N - o
  <2>1. Len(p) \in Nat /\ Len(q) \in Nat /\ Len(q) = Len(p) - o
    BY DEF Ends
  <2>2. QED
    BY <2>1
<1>2. c \in 0 .. 1 /\ b \in 0 .. 1 /\ (c = 0 <=> side = NoSide) /\ (b = 0 <=> ~bang)
  BY MarksAre, OneIs
<1>3. PICK e \in Nat, f \in Nat : e = 1 + c + w + 1 /\ f = i + c + w
  <2>1. 1 + c + w + 1 \in Nat /\ i + c + w \in Nat
    BY <1>2, SMT
  <2>2. QED
    BY <2>1
<1>4. /\ M >= c + w + b + 2 /\ 2 \in 1 .. M /\ o + 2 = i /\ i <= N /\ i \in 1 .. N + 1
      /\ e \in 1 .. M /\ o + e = f /\ f + b <= N /\ f \in 1 .. N /\ i + c \in 1 .. N /\ f \in i + c .. N + 1
      /\ \A k \in i + c .. f - 1 : /\ k - o \in (1 + c) + 1 .. (1 + c) + w /\ k - o \in 1 .. M
                                   /\ o + (k - o) = k
      /\ b = 0 => c + w + b + 2 = e
  <2>1. M >= c + w + b + 2
    BY <1>1 DEF Spelled
  <2>2. c \in 0 .. 1 /\ b \in 0 .. 1
    BY <1>2
  <2>8. i = o + 2 /\ M = N - o /\ e = 1 + c + w + 1 /\ f = i + c + w
    BY <1>1, <1>3
  <2>9. 2 \in 1 .. M /\ o + 2 = i
    BY <2>1, <2>2, <2>8, SMT
  <2>10. i <= N /\ i \in 1 .. N + 1
    BY <2>1, <2>2, <2>8, SMT
  <2>11. e \in 1 .. M /\ o + e = f
    BY <2>1, <2>2, <2>8, SMT
  <2>12. f + b <= N /\ f \in 1 .. N
    BY <2>1, <2>2, <2>8, SMT
  <2>3. /\ M >= c + w + b + 2 /\ 2 \in 1 .. M /\ o + 2 = i /\ i <= N /\ i \in 1 .. N + 1
        /\ e \in 1 .. M /\ o + e = f /\ f + b <= N /\ f \in 1 .. N
    BY <2>1, <2>9, <2>10, <2>11, <2>12
  <2>4. i + c \in 1 .. N /\ f \in i + c .. N + 1
    BY <1>3, <2>2, <2>3, SMT
  <2>5. \A k \in i + c .. f - 1 : /\ k - o \in (1 + c) + 1 .. (1 + c) + w /\ k - o \in 1 .. M
                                  /\ o + (k - o) = k
    BY <2>1, <2>2, <2>8, SMT
  <2>6. b = 0 => c + w + b + 2 = e
    BY <1>3, <2>2, SMT
  <2>7. QED
    BY <2>3, <2>4, <2>5, <2>6
<1>5. p[i] = q[2] /\ p[f] = q[e] /\ \A k \in i + c .. f - 1 : p[k] = q[k - o]
  <2>1. \A k \in 1 .. M : q[k] = p[o + k]
    BY <1>1 DEF Ends
  <2>2. QED
    BY <1>4, <2>1
<1>6. q[e] \notin Range(DigitChars)
  <2>1. CASE bang
    <3>1. q[(1 + c) + w + 1] = "!"
      BY <2>1 DEF Spelled
    <3>2. (1 + c) + w + 1 = e
      BY <1>3
    <3>3. QED
      BY <3>1, <3>2, MarksAreNoDigits
  <2>2. CASE ~bang
    <3>1. q[c + w + b + 2] \notin Range(DigitChars)
      BY <2>2 DEF Spelled, isdigit
    <3>2. QED
      BY <1>2, <1>4, <2>2, <3>1
  <2>3. QED
    BY <2>1, <2>2
<1>7. ASSUME NEW k \in i + c .. f - 1 PROVE p[k] \in Range(DigitChars)
  <2>1. isdigit(q[k - o])
    BY <1>4 DEF Spelled
  <2>2. QED
    BY <1>5, <2>1 DEF isdigit
<1>8. SideAt(p, i) = side
  <2>1. CASE side # NoSide
    <3>1. q[2] = side
      BY <2>1 DEF Spelled, NoSide
    <3>2. side \in {"-", "="}
      BY <2>1 DEF Sides, NoSide
    <3>3. QED
      BY <1>1, <1>4, <1>5, <3>1, <3>2 DEF SideAt
  <2>2. CASE side = NoSide
    <3>1. p[i] \notin {"-", "="}
      <4>1. CASE w = 0
        BY <1>5, <2>2, <4>1 DEF Spelled, NoSide
      <4>2. CASE w # 0
        <5>1. i \in i + c .. f - 1
          BY <1>2, <1>3, <2>2, <4>2, SMT
        <5>2. p[i] \in Range(DigitChars)
          BY <1>7, <5>1
        <5>3. QED
          BY <5>2, MarksAreNoDigits
      <4>3. QED
        BY <4>1, <4>2
    <3>2. QED
      BY <2>2, <3>1 DEF SideAt, NoSide
  <2>3. QED
    BY <2>1, <2>2
<1>9. p \in Seq(Characters)
  BY DEF Ends
<1>10. FirstAt(p, i) = i + c
  BY <1>1, <1>4, <1>8, <1>9, SpecPlaces
<1>11. AfterAt(p, i) = f
  <2>1. p[f] \notin Range(DigitChars)
    BY <1>5, <1>6
  <2>2. i + c \in 1 .. Len(p) + 1 /\ f \in i + c .. Len(p) + 1
    BY <1>1, <1>4, SMT
  <2>3. SkipWhile(p, i + c, Range(DigitChars)) = f
    BY <1>7, <1>9, <2>1, <2>2, SkipWhileIs
  <2>4. QED
    BY <1>10, <2>3 DEF AfterAt
<1>12. DigitsAt(p, i) <=> w > 0
  <2>1. i + c <= N /\ (f > i + c <=> w > 0)
    BY <1>2, <1>3, <1>4, SMT
  <2>2. QED
    BY <1>1, <1>10, <1>11, <2>1 DEF DigitsAt
<1>13. BangAt(p, i) <=> bang
  <2>1. f <= N
    BY <1>4, SMT
  <2>2. BangAt(p, i) <=> w > 0 /\ q[e] = "!"
    BY <1>1, <1>5, <1>11, <1>12, <2>1 DEF BangAt
  <2>3. bang => w > 0 /\ q[e] = "!"
    <3>1. bang => w > 0 /\ q[(1 + c) + w + 1] = "!"
      BY DEF Spelled
    <3>2. QED
      BY <1>3, <3>1
  <2>4. ~bang => ~(w > 0 /\ q[e] = "!")
    <3>1. w > 0 /\ ~bang => q[c + w + b + 2] # "!"
      BY DEF Spelled
    <3>2. QED
      BY <1>2, <1>4, <3>1
  <2>5. QED
    BY <2>2, <2>3, <2>4
<1>14. FlagAt(p, i) = f + b
  <2>1. f + 0 = f
    BY <1>4, SMT
  <2>2. QED
    BY <1>11, <1>13, <2>1 DEF FlagAt, One
<1>15. i + c + w + b = f + b
  BY <1>3
<1>16. QED
  BY <1>1, <1>3, <1>4, <1>8, <1>10, <1>11, <1>12, <1>13, <1>14, <1>15

Placed(o, N, M, i, w, f, e, c, b) ==
    /\ o \in Nat /\ N \in Nat /\ M \in Nat /\ i \in Nat /\ w \in Nat /\ f \in Nat /\ e \in Nat
    /\ c \in 0 .. 1 /\ b \in 0 .. 1
    /\ i = o + 2 /\ M = N - o /\ f = i + c + w /\ e = 1 + c + w + 1 /\ f + b <= N

Inside(o, N, M, i, w, f, e, c, b) ==
    /\ w \in 0 .. M /\ f \in 1 .. N /\ f <= N /\ f # N + 1 /\ i <= N /\ i + c <= N
    /\ M >= c + w + b + 2 /\ 2 \in 1 .. M /\ o + 2 = i /\ e \in 1 .. M /\ o + e = f
    /\ \A k \in (1 + c) + 1 .. (1 + c) + w : k \in 1 .. M /\ o + k \in i + c .. f - 1
    /\ (b = 0 => c + w + b + 2 = e) /\ (1 + c) + w + 1 = e
    /\ (w = 0 <=> f = i + c) /\ (w > 0 <=> f > i + c)

LEMMA PlacesInEnd ==
    ASSUME NEW o, NEW N, NEW M, NEW i, NEW w, NEW f, NEW e, NEW c, NEW b, Placed(o, N, M, i, w, f, e, c, b)
    PROVE  Inside(o, N, M, i, w, f, e, c, b)
<1>1. w \in 0 .. M /\ f \in 1 .. N /\ f <= N /\ f # N + 1 /\ i <= N /\ i + c <= N
  BY SMT DEF Placed
<1>2. M >= c + w + b + 2 /\ 2 \in 1 .. M /\ o + 2 = i /\ e \in 1 .. M /\ o + e = f
  BY SMT DEF Placed
<1>3. \A k \in (1 + c) + 1 .. (1 + c) + w : k \in 1 .. M /\ o + k \in i + c .. f - 1
  BY SMT DEF Placed
<1>4. (b = 0 => c + w + b + 2 = e) /\ (1 + c) + w + 1 = e
  BY SMT DEF Placed
<1>5. (w = 0 <=> f = i + c) /\ (w > 0 <=> f > i + c)
  BY SMT DEF Placed
<1>6. QED
  BY <1>1, <1>2, <1>3, <1>4, <1>5 DEF Inside

(* And what it reads is a flag of the grammar, unless the pattern ends.    *)
LEMMA ReadIsSpelled ==
    ASSUME NEW q, NEW p, NEW o \in Nat, Ends(q, p, o), NEW i \in Nat, i = o + 2, FlagAt(p, i) <= Len(p),
           NEW side, side = SideAt(p, i), NEW bang, bang = BangAt(p, i), NEW w \in Nat, AfterAt(p, i) = FirstAt(p, i) + w,
           NEW c, c = Marks(side), NEW b, b = One(bang)
    PROVE  /\ side \in Sides /\ w \in 0 .. Len(q) /\ bang \in BOOLEAN
           /\ Spelled(q, side, w, bang, c + w + b, 1 + c)
<1>1. PICK N \in Nat, M \in Nat : N = Len(p) /\ M = Len(q) /\ M = N - o
  <2>1. Len(p) \in Nat /\ Len(q) \in Nat /\ Len(q) = Len(p) - o
    BY DEF Ends
  <2>2. QED
    BY <2>1
<1>2. p \in Seq(Characters) /\ o \in Nat /\ i \in 1 .. Len(p) + 1
  <2>1. p \in Seq(Characters) /\ o \in Nat /\ o + 1 <= N
    BY <1>1 DEF Ends
  <2>2. o + 2 \in 1 .. N + 1
    BY <2>1, SMT
  <2>3. QED
    BY <1>1, <2>1, <2>2
<1>3. PICK f \in Nat : f = AfterAt(p, i)
  <2>1. PICK g \in 1 .. Len(p) + 1 : g = FirstAt(p, i) /\ AfterAt(p, i) \in g .. Len(p) + 1
    BY <1>2, SpecPlaces
  <2>2. \A x \in g .. Len(p) + 1 : x \in Nat
    BY <1>1, SMT
  <2>3. QED
    BY <2>1, <2>2
<1>4. /\ side \in Sides /\ (side # NoSide => i <= N /\ p[i] = side)
      /\ FirstAt(p, i) = i + c /\ i + c \in 1 .. N + 1
      /\ f \in i + c .. N + 1 /\ (f = N + 1 \/ p[f] \notin Range(DigitChars))
      /\ \A k \in i + c .. f - 1 : p[k] \in Range(DigitChars)
  <2>1. /\ SideAt(p, i) \in Sides /\ (SideAt(p, i) # NoSide => i <= Len(p) /\ p[i] = SideAt(p, i))
        /\ FirstAt(p, i) = i + Marks(SideAt(p, i)) /\ FirstAt(p, i) \in 1 .. Len(p) + 1
        /\ AfterAt(p, i) \in FirstAt(p, i) .. Len(p) + 1
        /\ AfterAt(p, i) = Len(p) + 1 \/ p[AfterAt(p, i)] \notin Range(DigitChars)
        /\ \A k \in FirstAt(p, i) .. AfterAt(p, i) - 1 : p[k] \in Range(DigitChars)
    BY <1>2, SpecPlaces
  <2>2. FirstAt(p, i) = i + c
    BY <2>1
  <2>3. QED
    BY <1>1, <1>3, <2>1, <2>2, Zenon
<1>5. bang \in BOOLEAN
  BY DEF BangAt
<1>6. c \in 0 .. 1 /\ b \in 0 .. 1 /\ (c = 0 <=> side = NoSide) /\ (b = 0 <=> ~bang)
  BY <1>5, MarksAre, OneIs
<1>7. f + b <= N
  <2>1. FlagAt(p, i) = f + b
    <3>1. f + 0 = f
      BY <1>1, <1>4, <1>6, SMT
    <3>2. QED
      BY <1>3, <3>1 DEF FlagAt, One
  <2>2. QED
    BY <1>1, <2>1
<1>8. f = i + c + w
  BY <1>3, <1>4
<1>9. PICK e \in Nat : e = 1 + c + w + 1
  <2>1. 1 + c + w + 1 \in Nat
    BY <1>6, SMT
  <2>2. QED
    BY <2>1
<1>10. /\ w \in 0 .. M /\ f \in 1 .. N /\ f <= N /\ f # N + 1 /\ i <= N /\ i + c <= N
       /\ M >= c + w + b + 2 /\ 2 \in 1 .. M /\ o + 2 = i /\ e \in 1 .. M /\ o + e = f
       /\ \A k \in (1 + c) + 1 .. (1 + c) + w : k \in 1 .. M /\ o + k \in i + c .. f - 1
       /\ (b = 0 => c + w + b + 2 = e) /\ (1 + c) + w + 1 = e
       /\ (w = 0 <=> f = i + c) /\ (w > 0 <=> f > i + c)
  <2>1. Placed(o, N, M, i, w, f, e, c, b)
    BY <1>1, <1>6, <1>7, <1>8, <1>9, Zenon DEF Placed
  <2>2. QED
    BY <2>1, PlacesInEnd, SMTT(40) DEF Inside
<1>11. q[2] = p[i] /\ q[e] = p[f] /\ \A k \in (1 + c) + 1 .. (1 + c) + w : q[k] = p[o + k]
  <2>1. \A k \in 1 .. M : q[k] = p[o + k]
    BY <1>1 DEF Ends
  <2>2. QED
    BY <1>10, <2>1
<1>12. bang <=> w > 0 /\ q[e] = "!"
  <2>1. DigitsAt(p, i) <=> w > 0
    BY <1>1, <1>3, <1>4, <1>10 DEF DigitsAt
  <2>2. QED
    BY <1>1, <1>3, <1>10, <1>11, <2>1 DEF BangAt
<1>13. Len(q) >= c + w + b + 2
  BY <1>1, <1>10
<1>14. side # "" => q[2] = side
  BY <1>4, <1>11 DEF NoSide
<1>15. \A k \in (1 + c) + 1 .. (1 + c) + w : isdigit(q[k])
  BY <1>4, <1>10, <1>11, ZenonT(40) DEF isdigit
<1>16. bang => w > 0 /\ q[(1 + c) + w + 1] = "!"
  BY <1>10, <1>12
<1>17. ~bang => ~isdigit(q[c + w + b + 2])
  BY <1>4, <1>6, <1>10, <1>11 DEF isdigit
<1>18. side = "" /\ w = 0 => q[2] \notin {"-", "="}
  BY <1>1, <1>10, <1>11 DEF SideAt
<1>19. w > 0 /\ ~bang => q[c + w + b + 2] # "!"
  BY <1>6, <1>10, <1>12
<1>20. Spelled(q, side, w, bang, c + w + b, 1 + c)
  BY <1>13, <1>14, <1>15, <1>16, <1>17, <1>18, <1>19 DEF Spelled
<1>21. QED
  BY <1>1, <1>4, <1>5, <1>10, <1>20

(* What the grammar makes of a flag is what handle_padspec_ makes of it.   *)
LEMMA MeaningIsRead ==
    ASSUME NEW q, NEW p, NEW o \in Nat, Ends(q, p, o), NEW s \in SpecParts(q),
           NEW spec, spec = handle_padspec_(p, o + 2)
    PROVE  /\ ~(spec.it > Len(p)) /\ spec.it \in 1 .. Len(p)
           /\ Meaning(q, s).flag = p[spec.it] /\ Meaning(q, s).pad = spec.pad
           /\ Len(Meaning(q, s).rest) = Len(p) - spec.it
<1>1. /\ s \in [side : {"", "-", "="}, width : 0 .. Len(q), bang : BOOLEAN]
      /\ Spelled(q, s.side, s.width, s.bang, One(s.side # "") + s.width + One(s.bang), 1 + One(s.side # ""))
  BY SpecPartsAre
<1>2. PICK N \in Nat, M \in Nat : N = Len(p) /\ M = Len(q) /\ M = N - o
  <2>1. Len(p) \in Nat /\ Len(q) \in Nat /\ Len(q) = Len(p) - o
    BY DEF Ends
  <2>2. QED
    BY <2>1
<1>3. PICK side \in Sides : side = s.side
  BY <1>1 DEF Sides
<1>4. PICK w \in Nat : w = s.width
  <2>1. s.width \in 0 .. M
    BY <1>1, <1>2
  <2>2. \A x \in 0 .. M : x \in Nat
    BY SMT
  <2>3. QED
    BY <2>1, <2>2
<1>5. PICK bang \in BOOLEAN : bang = s.bang
  BY <1>1
<1>6. PICK c \in 0 .. 1 : c = Marks(side) /\ c = One(s.side # "")
  BY <1>3, MarksAre
<1>7. PICK b \in 0 .. 1 : b = One(bang)
  BY OneIs
<1>8. PICK i \in Nat : i = o + 2
  <2>1. o + 2 \in Nat
    BY SMT
  <2>2. QED
    BY <2>1
<1>9. Spelled(q, side, w, bang, c + w + b, 1 + c)
  BY <1>1, <1>3, <1>4, <1>5, <1>6, <1>7
<1>10. /\ SideAt(p, i) = side /\ FirstAt(p, i) = i + c /\ AfterAt(p, i) = i + c + w
       /\ (DigitsAt(p, i) <=> w > 0) /\ (BangAt(p, i) <=> bang) /\ FlagAt(p, i) = i + c + w + b
       /\ i + c + w + b <= Len(p)
  <2>1. Reading(i, o, side, w, bang, c, b)
    BY <1>6, <1>7, <1>8 DEF Reading
  <2>2. QED
    BY <1>9, <2>1, SpelledIsRead
<1>11. PICK d \in Nat, n \in Nat, it \in Nat : d = 1 + c /\ n = d + w + b /\ it = i + c + w + b
  <2>1. 1 + c \in Nat /\ 1 + c + w + b \in Nat /\ i + c + w + b \in Nat
    BY SMT
  <2>2. QED
    BY <2>1
<1>12. /\ spec.it = it /\ it <= N
       /\ spec.pad = IF w > 0 THEN padding_info(Width(p, i + c, i + c + w), Where(side), bang) ELSE NoPad
  <2>1. spec = [it  |-> FlagAt(p, i),
                pad |-> IF DigitsAt(p, i)
                        THEN padding_info(Width(p, FirstAt(p, i), AfterAt(p, i)), Where(SideAt(p, i)), BangAt(p, i))
                        ELSE NoPad]
    BY <1>8, SpecIs
  <2>2. BangAt(p, i) = bang
    BY <1>10 DEF BangAt
  <2>3. QED
    BY <1>2, <1>10, <1>11, <2>1, <2>2
<1>13. Meaning(q, s) =
          [flag |-> q[n + 1], rest |-> SubSeq(q, n + 2, Len(q)),
           pad  |-> IF w = 0 THEN NoPad
                    ELSE padding_info(Width(q, d + 1, d + w + 1), Where(side), bang)]
  <2>1. d = 1 + One(s.side # "") /\ n = d + s.width + One(s.bang)
    BY <1>4, <1>5, <1>6, <1>7, <1>11
  <2>2. QED
    BY <1>3, <1>4, <1>5, <2>1, MeaningIs, ZenonT(40)
<1>14. /\ it \in 1 .. N /\ ~(it > N) /\ n + 1 \in 1 .. M /\ o + (n + 1) = it
       /\ n + 2 \in Int /\ M - (n + 2) + 1 = N - it /\ (~(n + 2 <= M) => N - it = 0)
       /\ d + 1 \in Nat /\ d + w + 1 \in Nat /\ d + 1 <= d + w + 1 /\ o + (d + 1) = i + c /\ o + (d + w + 1) = i + c + w
       /\ (w > 0 <=> w # 0)
  BY <1>2, <1>8, <1>11, <1>12, SMT
<1>15. \A k \in 1 .. M : q[k] = p[o + k] /\ q[k] \in Characters
  <2>1. \A k \in 1 .. M : q[k] = p[o + k]
    BY <1>2 DEF Ends
  <2>2. q \in Seq(Characters)
    BY DEF Ends
  <2>3. QED
    BY <1>2, <2>1, <2>2, ElementOfSeq
<1>16. q[n + 1] = p[it]
  BY <1>14, <1>15
<1>17. Len(SubSeq(q, n + 2, Len(q))) = N - it
  <2>1. \A k \in n + 2 .. M : k \in 1 .. M
    BY SMT
  <2>2. \A k \in n + 2 .. M : q[k] \in Characters
    BY <1>15, <2>1
  <2>3. Len(SubSeq(q, n + 2, M)) = IF n + 2 <= M THEN M - (n + 2) + 1 ELSE 0
    BY <1>14, <2>2, SubSeqProperties
  <2>4. QED
    BY <1>2, <1>14, <2>3
<1>18. Width(q, d + 1, d + w + 1) = Width(p, i + c, i + c + w)
  <2>1. \A k \in d + 1 .. d + w + 1 - 1 : k \in 1 .. M /\ k \in (1 + c) + 1 .. (1 + c) + w
    BY <1>2, <1>8, <1>11, <1>12, SMT
  <2>2. \A k \in (1 + c) + 1 .. (1 + c) + w : q[k] \in Range(DigitChars)
    BY <1>9 DEF Spelled, isdigit
  <2>3. \A k \in d + 1 .. d + w + 1 - 1 : q[k] = p[o + k] /\ q[k] \in Range(DigitChars)
    BY <1>15, <2>1, <2>2
  <2>4. PICK x \in Nat, y \in Nat : x = d + 1 /\ y = d + w + 1 /\ x <= y
    BY <1>14
  <2>5. \A k \in x .. y - 1 : q[k] = p[o + k] /\ q[k] \in Range(DigitChars)
    BY <2>3, <2>4
  <2>6. Width(q, x, y) = Width(p, o + x, o + y)
    <3>1. x \in Nat /\ y \in Nat /\ x <= y /\ o \in Nat
      BY <2>4
    <3>2. QED
      BY <2>5, <3>1, WidthMoves
  <2>7. QED
    BY <1>14, <2>4, <2>6
<1>19. PICK x : x = Meaning(q, s)
  OBVIOUS
<1>20. x.flag = p[it] /\ Len(x.rest) = N - it
  BY <1>13, <1>16, <1>17, <1>19
<1>21. x.pad = spec.pad
  <2>1. x.pad = IF w = 0 THEN NoPad ELSE padding_info(Width(q, d + 1, d + w + 1), Where(side), bang)
    BY <1>13, <1>19
  <2>2. CASE w = 0
    BY <1>12, <1>14, <2>1, <2>2
  <2>3. CASE w # 0
    BY <1>12, <1>14, <1>18, <2>1, <2>3
  <2>4. QED
    BY <2>2, <2>3
<1>22. spec.it = it /\ it \in 1 .. Len(p) /\ ~(it > Len(p))
  BY <1>2, <1>12, <1>14
<1>23. QED
  BY <1>2, <1>19, <1>20, <1>21, <1>22

LEMMA ReadHasMeaning ==
    ASSUME NEW q, NEW p, NEW o \in Nat, Ends(q, p, o), NEW spec, spec = handle_padspec_(p, o + 2),
           ~(spec.it > Len(p))
    PROVE  SpecParts(q) # {}
<1>1. PICK i \in Nat : i = o + 2
  <2>1. o + 2 \in Nat
    BY SMT
  <2>2. QED
    BY <2>1
<1>2. p \in Seq(Characters) /\ i \in 1 .. Len(p) + 1 /\ Len(p) \in Nat
  <2>1. p \in Seq(Characters) /\ o + 1 <= Len(p)
    BY DEF Ends
  <2>2. PICK N \in Nat : N = Len(p)
    BY <2>1
  <2>3. o + 2 \in 1 .. N + 1
    BY <2>1, <2>2, SMT
  <2>4. QED
    BY <1>1, <2>1, <2>2, <2>3
<1>3. PICK w \in Nat : AfterAt(p, i) = FirstAt(p, i) + w
  <2>1. PICK g \in 1 .. Len(p) + 1 : g = FirstAt(p, i) /\ AfterAt(p, i) \in g .. Len(p) + 1
    BY <1>2, SpecPlaces
  <2>2. \A x \in g .. Len(p) + 1 : x - g \in Nat /\ x = g + (x - g)
    BY <1>2, SMT
  <2>3. QED
    BY <2>1, <2>2
<1>4. PICK side, bang : side = SideAt(p, i) /\ bang = BangAt(p, i)
  OBVIOUS
<1>5. PICK c, b : c = Marks(side) /\ b = One(bang)
  OBVIOUS
<1>6. FlagAt(p, i) <= Len(p)
  <2>1. spec.it = FlagAt(p, i)
    BY <1>1, SpecIs
  <2>2. spec.it \in i .. Len(p) + 1
    BY <1>1, <1>2, PadSpecRead
  <2>3. \A x \in i .. Len(p) + 1 : ~(x > Len(p)) => x <= Len(p)
    BY <1>2, SMT
  <2>4. QED
    BY <2>1, <2>2, <2>3
<1>7. /\ side \in Sides /\ w \in 0 .. Len(q) /\ bang \in BOOLEAN
      /\ Spelled(q, side, w, bang, c + w + b, 1 + c)
  BY <1>1, <1>3, <1>4, <1>5, <1>6, ReadIsSpelled
<1>8. c = One(side # "")
  BY <1>5, MarksAre
<1>9. PICK s : s = [side |-> side, width |-> w, bang |-> bang]
  OBVIOUS
<1>10. s \in [side : {"", "-", "="}, width : 0 .. Len(q), bang : BOOLEAN]
  BY <1>7, <1>9 DEF Sides
<1>11. s.side = side /\ s.width = w /\ s.bang = bang
  BY <1>9
<1>12. Spelled(q, s.side, s.width, s.bang, One(s.side # "") + s.width + One(s.bang), 1 + One(s.side # ""))
  BY <1>5, <1>7, <1>8, <1>11
<1>13. QED
  BY <1>10, <1>12, SpecPartsAre

(* The last n characters of p, and what the grammar makes of them when g   *)
(* is what it makes of fewer.                                              *)
LastOf(p, n) == SubSeq(p, Len(p) - n + 1, Len(p))
Means(p, g, n) ==
    LET q == LastOf(p, n)
    IN  IF n = 0 THEN <<>>
        ELSE IF q[1] # "%" THEN <<Literal(<<q[1]>>)>> \o g[n - 1]
        ELSE IF SpecParts(q) = {} THEN <<>>
        ELSE LET s == CHOOSE s \in SpecParts(q) : TRUE
                 x == Meaning(q, s)
             IN  Singles(handle_flag_(x.flag, x.pad)) \o g[Len(x.rest)]

LEMMA LastEnds ==
    ASSUME NEW p \in Seq(Characters), NEW n \in 1 .. Len(p), NEW o, o = Len(p) - n
    PROVE  o \in Nat /\ Ends(LastOf(p, n), p, o) /\ LastOf(p, n)[1] = p[o + 1]
<1>1. PICK N \in Nat : N = Len(p)
  OBVIOUS
<1>2. /\ o \in Nat /\ o + 1 <= N /\ N - n + 1 = o + 1 /\ o + 1 \in Int /\ N \in Int
      /\ N - (o + 1) + 1 = N - o /\ 1 \in 1 .. N - o
      /\ \A k \in o + 1 .. N : k \in 1 .. N
      /\ \A k \in 1 .. N - o : (o + 1) + k - 1 = o + k
  BY <1>1, SMT
<1>3. \A k \in o + 1 .. N : p[k] \in Characters
  BY <1>1, <1>2, ElementOfSeq
<1>4. PICK a \in Int : a = o + 1
  BY <1>2
<1>5. PICK q : q = SubSeq(p, a, N)
  OBVIOUS
<1>6. /\ q \in Seq(Characters) /\ Len(q) = IF a <= N THEN N - a + 1 ELSE 0
      /\ \A k \in 1 .. N - a + 1 : q[k] = p[a + k - 1]
  BY <1>2, <1>3, <1>4, <1>5, SubSeqProperties
<1>7. Len(q) = N - o /\ \A k \in 1 .. N - o : q[k] = p[o + k]
  BY <1>2, <1>4, <1>6, SMTT(40)
<1>8. LastOf(p, n) = q
  BY <1>1, <1>2, <1>4, <1>5 DEF LastOf
<1>9. Ends(q, p, o)
  BY <1>1, <1>2, <1>6, <1>7 DEF Ends
<1>10. QED
  BY <1>2, <1>7, <1>8, <1>9

(* The grammar means what compile_pattern_ makes of every end of a pattern.*)
LEMMA MeansCompiled ==
    ASSUME NEW p \in Seq(Characters), NEW f, Compiles(f, p), NEW n \in 0 .. Len(p), NEW g,
           \A m \in 0 .. n - 1 : g[m] = Singles(f[(Len(p) - m) + 1])
    PROVE  Means(p, g, n) = Singles(f[(Len(p) - n) + 1])
<1>1. PICK N \in Nat : N = Len(p)
  OBVIOUS
<1>2. CASE n = 0
  <2>1. (N - n) + 1 = N + 1 /\ N + 1 \in 1 .. N + 1 /\ N + 1 > N
    BY <1>2, SMT
  <2>2. f[N + 1] = From(p, f, N + 1)
    BY <1>1, <2>1 DEF Compiles
  <2>3. f[N + 1] = <<>>
    BY <1>1, <2>1, <2>2 DEF From
  <2>4. QED
    BY <1>1, <1>2, <2>1, <2>3, SinglesEmpty DEF Means
<1>3. CASE n # 0
  <2>1. PICK i, o, q : i = (N - n) + 1 /\ o = N - n /\ q = LastOf(p, n)
    OBVIOUS
  <2>2. n \in 1 .. N /\ i \in 1 .. N /\ o + 1 = i /\ o + 2 = i + 1 /\ n - 1 \in 0 .. n - 1 /\ (N - (n - 1)) + 1 = i + 1
    BY <1>1, <1>3, <2>1, SMT
  <2>3. o \in Nat /\ Ends(q, p, o) /\ q[1] = p[i]
    BY <1>1, <2>1, <2>2, LastEnds
  <2>4. CASE p[i] # "%"
    <3>1. Means(p, g, n) = <<Literal(<<p[i]>>)>> \o g[n - 1]
      BY <1>3, <2>1, <2>3, <2>4 DEF Means
    <3>2. g[n - 1] = Singles(f[i + 1])
      BY <1>1, <2>2
    <3>3. Singles(f[i]) = <<Literal(<<p[i]>>)>> \o Singles(f[i + 1])
      BY <1>1, <2>2, <2>4, LiteralPart
    <3>4. QED
      BY <1>1, <2>1, <3>1, <3>2, <3>3
  <2>5. CASE p[i] = "%"
    <3>1. PICK spec : spec = handle_padspec_(p, i + 1)
      OBVIOUS
    <3>2. /\ spec.it > N => Singles(f[i]) = <<>>
          /\ ~(spec.it > N) =>
                Singles(f[i]) = Singles(handle_flag_(p[spec.it], spec.pad)) \o Singles(f[spec.it + 1])
      <4>1. i \in 1 .. Len(p)
        BY <1>1, <2>2
      <4>2. /\ spec.it > Len(p) => Singles(f[i]) = <<>>
            /\ ~(spec.it > Len(p)) =>
                  Singles(f[i]) = Singles(handle_flag_(p[spec.it], spec.pad)) \o Singles(f[spec.it + 1])
        BY <2>5, <3>1, <4>1, FlagPart, ZenonT(40)
      <4>3. QED
        BY <1>1, <4>2
    <3>3. \A s \in SpecParts(q) :
             /\ ~(spec.it > N) /\ spec.it \in 1 .. N
             /\ Meaning(q, s).flag = p[spec.it] /\ Meaning(q, s).pad = spec.pad
             /\ Len(Meaning(q, s).rest) = N - spec.it
      BY <1>1, <2>2, <2>3, <3>1, MeaningIsRead
    <3>4. CASE spec.it > N
      <4>1. SpecParts(q) = {}
        BY <3>3, <3>4
      <4>2. Means(p, g, n) = <<>>
        BY <1>3, <2>1, <2>3, <2>5, <4>1 DEF Means
      <4>3. QED
        BY <1>1, <2>1, <3>2, <3>4, <4>2
    <3>5. CASE ~(spec.it > N)
      <4>1. SpecParts(q) # {}
        BY <1>1, <2>2, <2>3, <3>1, <3>5, ReadHasMeaning
      <4>2. PICK s \in SpecParts(q) : s = CHOOSE t \in SpecParts(q) : TRUE
        BY <4>1
      <4>3. PICK x : x = Meaning(q, s)
        OBVIOUS
      <4>4. Means(p, g, n) = Singles(handle_flag_(x.flag, x.pad)) \o g[Len(x.rest)]
        BY <1>3, <2>1, <2>3, <2>5, <4>1, <4>2, <4>3 DEF Means
      <4>5. PICK it \in 1 .. N : it = spec.it
        BY <3>3, <4>2
      <4>6. x.flag = p[it] /\ x.pad = spec.pad /\ Len(x.rest) = N - it
        BY <3>3, <4>2, <4>3, <4>5
      <4>7. it \in i + 1 .. N + 1
        <5>1. i + 1 \in 1 .. Len(p) + 1
          BY <1>1, <2>2, SMT
        <5>2. QED
          BY <1>1, <3>1, <4>5, <5>1, PadSpecRead
      <4>8. N - it \in 0 .. n - 1 /\ (N - (N - it)) + 1 = it + 1
        BY <1>1, <2>1, <2>2, <4>7, SMT
      <4>9. g[N - it] = Singles(f[it + 1])
        BY <1>1, <4>8
      <4>10. QED
        BY <1>1, <2>1, <3>2, <3>5, <4>4, <4>5, <4>6, <4>9
    <3>6. QED
      BY <3>4, <3>5
  <2>6. QED
    BY <2>4, <2>5
<1>4. QED
  BY <1>2, <1>3

(* Only the flag, the padding and the text of a formatter are its meaning. *)
LEMMA SameSingles ==
    ASSUME NEW p \in Seq(Characters), NEW fs, Compiled(fs, p)
    PROVE  Singles(fs) = Singles(compile_pattern_(p))
<1>1. PICK cs : cs = compile_pattern_(p)
  OBVIOUS
<1>2. /\ cs \in Seq(Unused) /\ Len(fs) = Len(cs) /\ DOMAIN fs = 1 .. Len(cs)
      /\ \A i \in 1 .. Len(cs) : /\ cs[i] \in Unused /\ fs[i].flag = cs[i].flag
                                 /\ fs[i].chars = cs[i].chars
  BY <1>1, CompiledParts
<1>3. fs = [i \in 1 .. Len(cs) |-> [cs[i] EXCEPT !.st = fs[i].st]]
  BY <1>1, Zenon DEF Compiled
<1>4. ASSUME NEW i \in 1 .. Len(cs) PROVE SingleOf(fs[i]) = SingleOf(cs[i])
  <2>1. PICK c, st : c = cs[i] /\ st = fs[i].st
    OBVIOUS
  <2>2. fs[i] = [c EXCEPT !.st = st]
    BY <1>3, <2>1
  <2>3. c = [flag |-> c.flag, pad |-> c.pad, chars |-> c.chars, st |-> c.st]
    BY <1>2, <2>1 DEF Unused
  <2>4. [[c EXCEPT !.st = st] EXCEPT !.st = Fresh] = [c EXCEPT !.st = Fresh]
    BY <2>3
  <2>5. [fs[i] EXCEPT !.st = Fresh] = [c EXCEPT !.st = Fresh]
    BY <2>2, <2>4
  <2>6. fs[i].flag = c.flag /\ fs[i].chars = c.chars
    BY <1>2, <2>1
  <2>7. QED
    BY <2>1, <2>5, <2>6 DEF SingleOf
<1>5. DOMAIN cs = 1 .. Len(cs)
  BY <1>2, LenProperties
<1>6. Separated(fs) = Separated(cs)
  BY <1>2, <1>4, <1>5 DEF Separated
<1>7. \A gs : Singles(gs) = FlattenSeq(Separated(gs))
  BY DEF Singles, Separated, SingleOf
<1>8. QED
  BY <1>1, <1>6, <1>7

LEMMA CompiledMeans ==
    ASSUME pattern \in Seq(Characters), Compiled(formatters, pattern)
    PROVE  CompiledByGrammar
<1> DEFINE Unfolded(g) ==
               [n \in 0 .. Len(pattern) |->
                  LET p == SubSeq(pattern, Len(pattern) - n + 1, Len(pattern))
                  IN  IF n = 0 THEN <<>>
                      ELSE IF p[1] # "%" THEN <<Literal(<<p[1]>>)>> \o g[n - 1]
                      ELSE IF SpecParts(p) = {} THEN <<>>
                      ELSE LET s == CHOOSE s \in SpecParts(p) : TRUE
                               x == Meaning(p, s)
                           IN  Singles(handle_flag_(x.flag, x.pad)) \o g[Len(x.rest)]]
           meaning == CHOOSE g : g = Unfolded(g)
<1>1. PICK p \in Seq(Characters) : p = pattern
  OBVIOUS
<1>2. \A g : Unfolded(g) = [n \in 0 .. Len(p) |-> Means(p, g, n)]
  BY <1>1 DEF Means, LastOf
<1>3. CompiledByGrammar <=> (last.count = 0 => Singles(formatters) = meaning[Len(pattern)])
  BY DEF CompiledByGrammar
<1> HIDE DEF Unfolded
<1>4. PICK f : Compiles(f, p) /\ compile_pattern_(p) = f[1]
  BY CompiledFrom
<1>5. PICK N \in Nat : N = Len(p)
  OBVIOUS
<1>6. PICK h : h = [n \in 0 .. N |-> Singles(f[(N - n) + 1])]
  OBVIOUS
<1>7. \A n \in 0 .. N : \A m \in 0 .. n - 1 : m \in 0 .. N
  BY SMT
<1>8. \A n \in 0 .. N : Means(p, h, n) = h[n]
  <2>1. TAKE n \in 0 .. N
  <2>2. \A m \in 0 .. n - 1 : h[m] = Singles(f[(Len(p) - m) + 1])
    BY <1>5, <1>6, <1>7
  <2>3. Means(p, h, n) = Singles(f[(Len(p) - n) + 1])
    BY <1>4, <1>5, <2>2, MeansCompiled
  <2>4. QED
    BY <1>5, <1>6, <2>3
<1>9. h = Unfolded(h)
  BY <1>2, <1>5, <1>6, <1>8
<1>10. meaning = Unfolded(meaning)
  BY <1>9
<1>11. PICK g : g = meaning
  OBVIOUS
<1>12. g = [n \in 0 .. N |-> Means(p, g, n)]
  BY <1>2, <1>5, <1>10, <1>11
<1> HIDE DEF meaning
<1>13. \A n \in 0 .. N : g[n] = h[n]
  <2> DEFINE S == {n \in 0 .. N : g[n] # h[n]}
  <2> SUFFICES ASSUME \E n \in 0 .. N : g[n] # h[n] PROVE FALSE
    OBVIOUS
  <2>1. PICK n \in S : \A m \in S : ~(m < n)
    <3>1. S # {} /\ S \subseteq Nat
      BY SMT
    <3>2. QED
      BY <3>1, LeastElement
  <2>2. \A m \in 0 .. n - 1 : m \in 0 .. N /\ m < n
    BY <2>1, SMT
  <2>3. \A m \in 0 .. n - 1 : g[m] = Singles(f[(Len(p) - m) + 1])
    BY <1>5, <1>6, <2>1, <2>2
  <2>4. Means(p, g, n) = Singles(f[(Len(p) - n) + 1])
    BY <1>4, <1>5, <2>1, <2>3, MeansCompiled
  <2>5. QED
    BY <1>5, <1>6, <1>12, <2>1, <2>4
<1>14. g[N] = Singles(compile_pattern_(p))
  <2>1. N \in 0 .. N /\ (N - N) + 1 = 1
    BY SMT
  <2>2. QED
    BY <1>4, <1>6, <1>13, <2>1
<1>15. Singles(formatters) = Singles(compile_pattern_(p))
  BY <1>1, SameSingles
<1>16. QED
  BY <1>1, <1>5, <1>3, <1>11, <1>14, <1>15

(* A pattern means what its grammar says: it splits in exactly one way     *)
(* into characters and flags, and the formatters that compile_pattern_     *)
(* makes are those, in order.                                              *)
THEOREM PatternsMeanWhatTheySay == Spec => []CompiledByGrammar
<1>1. Init => CacheInv /\ TimeCacheInvisible
  BY CacheInvInit DEF Init, Formatted, TimeCacheInvisible
<1>2. CacheInv => CompiledByGrammar
  BY CompiledMeans DEF CacheInv, Typed
<1>3. QED
  BY <1>1, <1>2, CacheInvStep, PTL DEF Spec
=============================================================================
