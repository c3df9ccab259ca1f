------------------------ MODULE AsyncLogging_proofs ------------------------
(***************************************************************************)
(* The thread pool for any number of clients, workers, loggers, sinks and  *)
(* calls: ~thread_pool loses no terminate message and leaves no message    *)
(* behind; with one worker the sinks see each client's messages in order   *)
(* and a flush covers what its client logged before.                       *)
(***************************************************************************)
EXTENDS AsyncLogging, SequenceTheorems, FiniteSetTheorems, FunctionTheorems, TLAPS

Message == [type : {"log", "flush", "terminate"}, from : Threads, n : Nat, level : Nat]

CallIds == Clients \X Nat

Ending == {"post_terminate", "join"}

Busy == {"sink_it", "flush"}

(* The type invariant: what the clients and the pool share, the workers'   *)
(* part, and the histories.                                                *)
ClientsOK == /\ q \in Seq(Message) /\ Len(q) <= Capacity
             /\ holders \subseteq Threads
             /\ pc \in [Threads -> Policies \cup Ending \cup {"idle", "release"}]
             /\ msg \in [Threads -> Message]
             /\ terminates \in Nat
             /\ pool \in {"alive", "destroying", "gone"}
             /\ sent \in [Clients -> Seq(Message)]
             /\ lost \subseteq CallIds /\ dropped \subseteq CallIds /\ refused \subseteq CallIds
WorkersOK == /\ wpc \in [Workers -> Busy \cup {"absent", "dequeue", "stopped"}]
             /\ wmsg \in [Workers -> Message]
             /\ wsink \in [Workers -> Sinks]
             /\ written \in [Sinks -> Seq(CallIds)]
             /\ flushed \in [Sinks -> Nat]
             /\ failed \in [Sinks -> SUBSET CallIds]
             /\ flush_done \in [Sinks -> SUBSET CallIds]
             /\ throws \in Nat
TypeOK == ClientsOK /\ WorkersOK

(* The n-th call of a client sent the message <<c, n>>, and a call in      *)
(* progress posts the last one.                                            *)
SentOK ==
    /\ \A c \in Clients : \A n \in 1 .. Len(sent[c]) :
          sent[c][n].from = c /\ sent[c][n].n = n /\ sent[c][n].type # "terminate"
    /\ \A t \in Threads : pc[t] \in Policies =>
          /\ t \in Clients /\ Len(sent[t]) > 0 /\ msg[t] = sent[t][Len(sent[t])]

(* How many of its messages client c has posted.                           *)
Posted(c) == IF pc[c] \in Policies THEN Len(sent[c]) - 1 ELSE Len(sent[c])

IsPosted(call) == call[1] \in Clients /\ call[2] \in 1 .. Posted(call[1])

(* What is in the queue, with a worker or in a sink was posted.            *)
PostedOK ==
    /\ \A i \in 1 .. Len(q) : q[i].type # "terminate" => IsPosted(Call(q[i]))
    /\ \A w \in Workers : wpc[w] \in Busy =>
          wmsg[w].type # "terminate" /\ IsPosted(Call(wmsg[w]))
    /\ \A s \in Sinks : /\ \A i \in 1 .. Len(written[s]) : IsPosted(written[s][i])
                        /\ \A call \in flush_done[s] : IsPosted(call)

(* The pool is destroyed once, by one thread, after every call is over.    *)
Lifetime ==
    /\ pool = "alive" <=> holders # {}
    /\ \A t \in Threads : pc[t] \in Policies \cup {"release"} => t \in holders
    /\ \A t \in Threads : pc[t] \in Ending => pool = "destroying"
    /\ \A t, u \in Threads : pc[t] \in Ending /\ pc[u] \in Ending => t = u
    /\ PoolThreads # {}

(* Terminate messages come after all others, one for each worker.          *)
TerminatesLast ==
    /\ pool = "alive" => /\ \A i \in 1 .. Len(q) : q[i].type # "terminate"
                         /\ terminates = 0 /\ Stopped = {}
    /\ \A i, j \in 1 .. Len(q) : i < j /\ q[i].type = "terminate" => q[j].type = "terminate"
    /\ Stopped # {} => \A i \in 1 .. Len(q) : q[i].type = "terminate"
TerminatesCounted ==
    /\ \A t \in Threads : /\ pc[t] = "post_terminate" => terminates < Cardinality(PoolThreads)
                          /\ pc[t] = "join" => terminates = Cardinality(PoolThreads)
    /\ NoTerminateLost
AllStopped == pool = "gone" => q = <<>> /\ \A w \in Workers : wpc[w] \in {"absent", "stopped"}

(* A message that a sink is due is on its way: with its client, in the     *)
(* queue, or with a worker that has not yet come to that sink.             *)
OnItsWay(m, s) ==
    \/ \E t \in Threads : pc[t] \in Policies /\ msg[t] = m
    \/ \E i \in 1 .. Len(q) : q[i] = m
    \/ \E w \in Workers : wpc[w] = "sink_it" /\ wmsg[w] = m /\ wsink[w] <= s
NothingForgotten ==
    \A c \in Clients : \A n \in 1 .. Len(sent[c]) : \A s \in Sinks :
        Due(s, c, n) => Offered(s, <<c, n>>) \/ OnItsWay(sent[c][n], s)

Before(call1, call2) == call1[1] = call2[1] => call1[2] < call2[2]

(* The queue keeps the order in which a client posted; a single worker     *)
(* keeps it from the queue to the sinks.                                   *)
QueueInOrder ==
    \A i, j \in 1 .. Len(q) :
        i < j /\ q[i].type # "terminate" /\ q[j].type # "terminate" => Before(Call(q[i]), Call(q[j]))
WorkerInOrder ==
    \A w \in Workers : PoolThreads = {w} =>
        /\ wpc[w] \in Busy => \A j \in 1 .. Len(q) :
               q[j].type # "terminate" => Before(Call(wmsg[w]), Call(q[j]))
        /\ \A s \in Sinks : \A i \in 1 .. Len(written[s]) :
               /\ \A j \in 1 .. Len(written[s]) : i < j => Before(written[s][i], written[s][j])
               /\ \A j \in 1 .. Len(q) : 
                      q[j].type # "terminate" => Before(written[s][i], Call(q[j]))
               /\ wpc[w] = "sink_it" /\ wsink[w] <= s => Before(written[s][i], Call(wmsg[w]))

(* With a single worker a completed flush has covered what came before.    *)
Covered(s, call) ==
    \A n \in 1 .. call[2] : (Due(s, call[1], n) /\ <<call[1], n>> \notin failed[s])
                                => \E i \in 1 .. flushed[s] : written[s][i] = <<call[1], n>>
FlushesCover ==
    /\ \A s \in Sinks : flushed[s] <= Len(written[s])
    /\ \A w \in Workers : PoolThreads = {w} =>
          \A s \in Sinks : \A call \in flush_done[s] : Covered(s, call)

(* The inductive invariant.                                                *)
Life == Lifetime /\ TerminatesLast /\ TerminatesCounted /\ AllStopped
Flow == SentOK /\ PostedOK /\ NothingForgotten /\ QueueInOrder /\ WorkerInOrder /\ FlushesCover
Inv == TypeOK /\ Life /\ Flow
-----------------------------------------------------------------------------
(* What the operations of the queue do to its places.                      *)

(* m was put at the end, after k messages were taken from the front.       *)
PushedAfter(k, m) ==
    /\ Len(q') = Len(q) + 1 - k
    /\ \A i \in 1 .. Len(q') : \/ i + k \in 1 .. Len(q) /\ q'[i] = q[i + k]
                               \/ i = Len(q') /\ q'[i] = m
    /\ \A i \in 1 .. Len(q) : i > k => i - k \in 1 .. Len(q') /\ q'[i - k] = q[i]
    /\ Len(q') \in 1 .. Len(q') /\ q'[Len(q')] = m

Popped ==
    /\ Len(q) > 0 /\ Len(q') = Len(q) - 1
    /\ \A i \in 1 .. Len(q') : i + 1 \in 1 .. Len(q) /\ q'[i] = q[i + 1]
    /\ \A i \in 1 .. Len(q) : i > 1 => i - 1 \in 1 .. Len(q') /\ q'[i - 1] = q[i]

LEMMA AppendPlaces ==
    ASSUME q \in Seq(Message), NEW m \in Message, q' = Append(q, m), HasRoom(q, Capacity),
           Len(q) <= Capacity
    PROVE  q' \in Seq(Message) /\ Len(q') <= Capacity /\ PushedAfter(0, m)
<1>1. Len(q) \in Nat
  BY LenProperties
<1>2. /\ q' \in Seq(Message) /\ Len(q') = Len(q) + 1 /\ q'[Len(q) + 1] = m
      /\ \A i \in 1 .. Len(q) : q'[i] = q[i]
  BY AppendProperties
<1>3. QED
  BY <1>1, <1>2, PoolAssumption, SMT DEF PushedAfter, HasRoom

LEMMA OverrunPlaces ==
    ASSUME q \in Seq(Message), NEW m \in Message, q' = Tail(Append(q, m)), ~HasRoom(q, Capacity),
           Len(q) <= Capacity
    PROVE  /\ q' \in Seq(Message) /\ Len(q') <= Capacity /\ PushedAfter(1, m)
           /\ Len(q) > 0 /\ Head(q) = q[1]
<1>1. Len(q) \in Nat /\ Len(q) > 0 /\ q # <<>>
  BY LenProperties, EmptySeq, PoolAssumption, SMT DEF HasRoom
<1>2. PICK a : a = Append(q, m)
  OBVIOUS
<1>3. /\ a \in Seq(Message) /\ Len(a) = Len(q) + 1 /\ a[Len(q) + 1] = m
      /\ \A i \in 1 .. Len(q) : a[i] = q[i]
  BY <1>2, AppendProperties
<1>4. a # <<>>
  BY <1>1, <1>3, EmptySeq, SMT
<1>5. /\ q' \in Seq(Message) /\ Len(q') = Len(a) - 1
      /\ \A i \in 1 .. Len(q') : q'[i] = a[i + 1]
  BY <1>2, <1>3, <1>4, HeadTailProperties
<1>6. Len(q') = Len(q)
  BY <1>1, <1>3, <1>5, SMT
<1>7. \A i \in 1 .. Len(q) : \/ i + 1 \in 1 .. Len(q) /\ q'[i] = q[i + 1]
                             \/ i = Len(q) /\ q'[i] = m
  BY <1>1, <1>3, <1>5, <1>6, SMT
<1>8. \A i \in 1 .. Len(q) : i > 1 => i - 1 \in 1 .. Len(q') /\ q'[i - 1] = q[i]
  <2> SUFFICES ASSUME NEW i \in 1 .. Len(q), i > 1
               PROVE  i - 1 \in 1 .. Len(q') /\ q'[i - 1] = q[i]
    OBVIOUS
  <2>1. i - 1 \in 1 .. Len(q') /\ (i - 1) + 1 = i
    BY <1>1, <1>6, SMT
  <2>2. QED
    BY <1>3, <1>5, <2>1
<1>9. Len(q') \in 1 .. Len(q') /\ q'[Len(q')] = m
  BY <1>1, <1>3, <1>5, <1>6, SMT
<1>10. PushedAfter(1, m)
  BY <1>1, <1>6, <1>7, <1>8, <1>9, SMT DEF PushedAfter
<1>11. QED
  BY <1>1, <1>5, <1>6, <1>10, SMT

LEMMA PopPlaces ==
    ASSUME q \in Seq(Message), q # <<>>, q' = Tail(q), Len(q) <= Capacity
    PROVE  q' \in Seq(Message) /\ Len(q') <= Capacity /\ Popped /\ Head(q) = q[1]
           /\ q[1] \in Message
<1>1. Len(q) \in Nat /\ Len(q) > 0
  BY LenProperties, EmptySeq, SMT
<1>2. /\ q' \in Seq(Message) /\ Len(q') = Len(q) - 1
      /\ \A i \in 1 .. Len(q') : q'[i] = q[i + 1]
  BY HeadTailProperties
<1>3. \A i \in 1 .. Len(q') : i + 1 \in 1 .. Len(q) /\ q'[i] = q[i + 1]
  BY <1>1, <1>2, SMT
<1>4. \A i \in 1 .. Len(q) : i > 1 => i - 1 \in 1 .. Len(q') /\ q'[i - 1] = q[i]
  <2> SUFFICES ASSUME NEW i \in 1 .. Len(q), i > 1
               PROVE  i - 1 \in 1 .. Len(q') /\ q'[i - 1] = q[i]
    OBVIOUS
  <2>1. i - 1 \in 1 .. Len(q') /\ (i - 1) + 1 = i
    BY <1>1, <1>2, SMT
  <2>2. QED
    BY <1>2, <2>1
<1>5. Popped
  BY <1>1, <1>2, <1>3, <1>4 DEF Popped
<1>6. Head(q) = q[1] /\ q[1] \in Message
  BY <1>1, ElementOfSeq, SMT
<1>7. QED
  BY <1>1, <1>2, <1>5, <1>6, PoolAssumption, SMT

-----------------------------------------------------------------------------
(* Counting the terminate messages and the stopped workers.                *)
Terms == {i \in 1 .. Len(q) : q[i].type = "terminate"}

LEMMA TermsFinite ==
    ASSUME q \in Seq(Message)
    PROVE  /\ IsFiniteSet(Terms) /\ Cardinality(Terms) \in Nat
           /\ Terms = {i \in DOMAIN q : q[i].type = "terminate"}
<1>1. Len(q) \in Nat /\ DOMAIN q = 1 .. Len(q)
  BY LenProperties
<1>2. IsFiniteSet(1 .. Len(q))
  BY <1>1, FS_Interval, SMT
<1>3. IsFiniteSet(Terms)
  BY <1>2, FS_Subset DEF Terms
<1>4. QED
  BY <1>1, <1>3, FS_CardinalityType DEF Terms

LEMMA StoppedFinite ==
    /\ IsFiniteSet(Stopped) /\ Cardinality(Stopped) \in Nat
    /\ IsFiniteSet(PoolThreads) /\ Cardinality(PoolThreads) \in Nat
<1>1. IsFiniteSet(Stopped) /\ IsFiniteSet(PoolThreads)
  BY PoolAssumption, FS_Subset DEF Stopped, PoolThreads
<1>2. QED
  BY <1>1, FS_CardinalityType

(* Moving a set of positions one place down keeps its size.                *)
LEMMA ShiftedCardinality ==
    ASSUME NEW S \in SUBSET Int, IsFiniteSet(S), NEW T,
           T = {i - 1 : i \in S}
    PROVE  Cardinality(T) = Cardinality(S)
<1> DEFINE f == [i \in S |-> i - 1]
<1>1. f \in [S -> T]
  OBVIOUS
<1>2. \A i, j \in S : f[i] = f[j] => i = j
  BY SMT
<1>3. \A y \in T : \E i \in S : f[i] = y
  OBVIOUS
<1>4. f \in Bijection(S, T)
  BY <1>1, <1>2, <1>3, Fun_IsBij
<1>5. QED
  BY <1>4, FS_Bijection DEF ExistsBijection

(* A pop takes the first of the terminate messages, if it takes one.       *)
LEMMA TermsAfterPop ==
    ASSUME q \in Seq(Message), q' \in Seq(Message), Popped
    PROVE  Cardinality(Terms') = IF q[1].type = "terminate" THEN Cardinality(Terms) - 1
                                                            ELSE Cardinality(Terms)
<1> DEFINE rest == Terms \ {1}
<1>1. Len(q) \in Nat
  BY LenProperties
<1>2. Terms' = {i - 1 : i \in rest}
  <2>1. ASSUME NEW i \in Terms' PROVE i \in {j - 1 : j \in rest}
    <3>1. i \in 1 .. Len(q') /\ q'[i].type = "terminate"
      BY <2>1 DEF Terms
    <3>2. i + 1 \in 1 .. Len(q) /\ q[i + 1].type = "terminate" /\ i + 1 # 1 /\ (i + 1) - 1 = i
      BY <1>1, <3>1, SMT DEF Popped
    <3>3. i + 1 \in rest
      BY <3>2 DEF Terms
    <3>4. QED
      BY <3>2, <3>3
  <2>2. ASSUME NEW j \in rest PROVE j - 1 \in Terms'
    <3>1. j \in 1 .. Len(q) /\ j > 1 /\ q[j].type = "terminate"
      BY <1>1, SMT DEF Terms
    <3>2. QED
      BY <3>1 DEF Popped, Terms
  <2>3. QED
    BY <2>1, <2>2
<1>3. IsFiniteSet(rest) /\ Cardinality(rest) = IF 1 \in Terms THEN Cardinality(Terms) - 1
                                                             ELSE Cardinality(Terms)
  BY TermsFinite, FS_RemoveElement
<1>4. rest \subseteq Int
  BY <1>1, SMT DEF Terms
<1>5. Cardinality(Terms') = Cardinality(rest)
  BY <1>2, <1>3, <1>4, ShiftedCardinality
<1>6. 1 \in Terms <=> q[1].type = "terminate"
  BY <1>1, SMT DEF Terms, Popped
<1>7. QED
  BY <1>3, <1>5, <1>6

-----------------------------------------------------------------------------
LEMMA MainIsNoClient == Main \in Threads /\ Main \notin Clients /\ Clients \subseteq Threads
BY PoolAssumption DEF Threads

LEMMA PolicyPlaces == Policies \cap (Ending \cup {"idle", "release"}) = {}
BY DEF Policies, Ending

LEMMA SentLength == ASSUME TypeOK, NEW c \in Clients PROVE Len(sent[c]) \in Nat
BY LenProperties DEF TypeOK, ClientsOK

(* Steps that move no message and change no history.                       *)
LEMMA QuietFlow ==
    ASSUME Flow, UNCHANGED <<q, msg, sent, refused, lost, dropped, wpc, wmsg, wsink, written,
                             flushed, failed, flush_done>>,
           \A t \in Threads : pc'[t] \in Policies <=> pc[t] \in Policies
    PROVE  Flow'
<1>1. SentOK'
  BY DEF Flow, SentOK
<1>2. \A c \in Clients : Posted(c)' = Posted(c)
  BY MainIsNoClient DEF Posted
<1>3. \A call : IsPosted(call)' <=> IsPosted(call)
  BY <1>2 DEF IsPosted
<1>4. PostedOK'
  BY <1>3 DEF Flow, PostedOK, Call
<1>5. NothingForgotten'
  <2>1. \A s, c, n : Due(s, c, n)' = Due(s, c, n) /\ Offered(s, <<c, n>>)' = Offered(s, <<c, n>>)
    BY DEF Due, Offered
  <2>2. \A m, s : OnItsWay(m, s)' <=> OnItsWay(m, s)
    BY DEF OnItsWay
  <2>3. QED
    BY <2>1, <2>2 DEF Flow, NothingForgotten
<1>6. PoolThreads' = PoolThreads
  BY DEF PoolThreads
<1>7. QueueInOrder' /\ WorkerInOrder'
  BY <1>6 DEF Flow, QueueInOrder, WorkerInOrder, Before, Call
<1>8. FlushesCover'
  <2>1. \A s, call : Covered(s, call)' <=> Covered(s, call)
    BY DEF Covered, Due
  <2>2. QED
    BY <1>6, <2>1 DEF Flow, FlushesCover
<1>9. QED
  BY <1>1, <1>4, <1>5, <1>7, <1>8 DEF Flow

LEMMA ReleaseKeepsInv ==
    ASSUME Inv, NEW t \in Threads, t \in holders, pc[t] \notin Policies, ReleasePool(t)
    PROVE  Inv'
<1> USE DEF Inv
<1>1. /\ UNCHANGED <<q, msg, terminates, sent, refused, lost, dropped, wpc, wmsg, wsink, written,
                     flushed, failed, flush_done, throws>>
      /\ holders' = holders \ {t}
      /\ \/ /\ holders = {t} /\ pool' = "destroying"
            /\ pc' = [pc EXCEPT ![t] = "post_terminate"]
         \/ holders # {t} /\ pool' = pool /\ pc' = [pc EXCEPT ![t] = "idle"]
  BY DEF ReleasePool, worker_vars
<1>2. TypeOK'
  BY <1>1 DEF TypeOK, ClientsOK, WorkersOK, Ending
<1>3. \A u \in Threads : pc'[u] = IF u = t THEN pc'[t] ELSE pc[u]
  BY <1>1 DEF TypeOK, ClientsOK
<1>4. pc'[t] = IF holders = {t} THEN "post_terminate" ELSE "idle"
  BY <1>1 DEF TypeOK, ClientsOK
<1>5. Flow'
  <2>1. \A u \in Threads : pc'[u] \in Policies <=> pc[u] \in Policies
    BY <1>3, <1>4, PolicyPlaces DEF Ending
  <2>2. QED
    BY <1>1, <2>1, QuietFlow
<1>6. pool = "alive" /\ \A u \in Threads : pc[u] \notin Ending
  BY DEF Life, Lifetime
<1>7. PoolThreads' = PoolThreads /\ Stopped' = Stopped
  BY <1>1 DEF PoolThreads, Stopped
<1>8. Lifetime'
  BY <1>1, <1>3, <1>4, <1>6, <1>7, PolicyPlaces DEF Life, Lifetime, Ending
<1>9. TerminatesLast' /\ AllStopped'
  BY <1>1, <1>6, <1>7 DEF Life, TerminatesLast, AllStopped
<1>10. TerminatesCounted'
  <2>1. terminates = 0 /\ Cardinality(PoolThreads) \in Nat /\ Cardinality(PoolThreads) # 0
    BY <1>6, StoppedFinite, FS_EmptySet DEF Life, Lifetime, TerminatesLast
  <2>2. 0 < Cardinality(PoolThreads)
    BY <2>1, SMT
  <2>3. NoTerminateLost'
    BY <1>1, <1>7 DEF Life, TerminatesCounted, NoTerminateLost
  <2>4. QED
    BY <1>1, <1>3, <1>4, <1>6, <1>7, <2>1, <2>2, <2>3 DEF TerminatesCounted, Ending
<1>11. QED
  BY <1>2, <1>5, <1>8, <1>9, <1>10 DEF Life

(* ~thread_pool returns when every worker has taken its terminate message: *)
(* then nothing is left in the queue.                                      *)
LEMMA JoinKeepsInv ==
    ASSUME Inv, NEW t \in Threads, JoinWorkers(t)
    PROVE  Inv'
<1> USE DEF Inv
<1>1. /\ UNCHANGED <<q, holders, msg, terminates, sent, refused, lost, dropped, wpc, wmsg, wsink,
                     written, flushed, failed, flush_done, throws>>
      /\ pc[t] = "join" /\ pc' = [pc EXCEPT ![t] = "idle"] /\ pool' = "gone"
      /\ \A w \in PoolThreads : wpc[w] = "stopped"
  BY DEF JoinWorkers, worker_vars
<1>2. TypeOK'
  BY <1>1 DEF TypeOK, ClientsOK, WorkersOK
<1>3. \A u \in Threads : pc'[u] = IF u = t THEN "idle" ELSE pc[u]
  BY <1>1 DEF TypeOK, ClientsOK
<1>4. Flow'
  <2>1. \A u \in Threads : pc'[u] \in Policies <=> pc[u] \in Policies
    BY <1>1, <1>3, PolicyPlaces DEF Ending
  <2>2. QED
    BY <1>1, <2>1, QuietFlow
<1>5. PoolThreads' = PoolThreads /\ Stopped' = Stopped
  BY <1>1 DEF PoolThreads, Stopped
<1>6. pool = "destroying" /\ \A u \in Threads : pc[u] \in Ending => u = t
  BY <1>1 DEF Life, Lifetime, Ending
<1>7. Lifetime'
  BY <1>1, <1>3, <1>5, <1>6, PolicyPlaces DEF Life, Lifetime, Ending
<1>8. TerminatesLast'
  BY <1>1, <1>5 DEF Life, TerminatesLast
<1>9. TerminatesCounted'
  BY <1>1, <1>3, <1>5 DEF Life, TerminatesCounted, NoTerminateLost
<1>10. AllStopped'
  <2>1. Stopped = PoolThreads /\ Stopped # {}
    BY <1>1 DEF Life, Lifetime, Stopped, PoolThreads
  <2>2. Cardinality(Terms) = 0
    <3>1. terminates = Cardinality(Terms) + Cardinality(Stopped)
      BY TermsFinite DEF Life, TerminatesCounted, NoTerminateLost, TypeOK, ClientsOK
    <3>2. terminates = Cardinality(PoolThreads)
      BY <1>1 DEF Life, TerminatesCounted
    <3>3. Cardinality(Terms) \in Nat /\ Cardinality(Stopped) \in Nat
      BY TermsFinite, StoppedFinite DEF TypeOK, ClientsOK
    <3>4. QED
      BY <2>1, <3>1, <3>2, <3>3, SMT
  <2>3. Terms = {}
    BY <2>2, TermsFinite, FS_EmptySet DEF TypeOK, ClientsOK
  <2>4. \A i \in 1 .. Len(q) : FALSE
    BY <2>1, <2>3 DEF Life, TerminatesLast, Terms
  <2>5. q = <<>>
    <3>1. Len(q) \in Nat /\ (q # <<>> => Len(q) # 0)
      BY LenProperties, EmptySeq, SMT DEF TypeOK, ClientsOK
    <3>2. Len(q) = 0
      BY <2>4, <3>1, SMT
    <3>3. QED
      BY <3>1, <3>2
  <2>6. \A w \in Workers : wpc[w] \in {"absent", "stopped"}
    BY <1>1 DEF PoolThreads
  <2>7. QED
    BY <1>1, <2>5, <2>6 DEF AllStopped
<1>11. QED
  BY <1>2, <1>4, <1>7, <1>8, <1>9, <1>10 DEF Life

(* A call that finds the pool takes its message on; one that does not      *)
(* reports it.                                                             *)
LEMMA LogCallKeepsInv ==
    ASSUME Inv, NEW c \in Clients, NEW type \in {"log", "flush"}, NEW level \in Nat,
           NEW logger \in Loggers, LogCall(c, type, level, logger)
    PROVE  Inv'
<1> USE DEF Inv
<1> DEFINE m == [type |-> type, from |-> c, n |-> Len(sent[c]) + 1, level |-> level]
<1>1. /\ UNCHANGED <<q, wpc, wmsg, wsink, written, flushed, failed, flush_done, throws, lost,
                     dropped, terminates, pool>>
      /\ pc[c] = "idle" /\ sent' = [sent EXCEPT ![c] = Append(@, m)]
      /\ \/ /\ holders # {} /\ holders' = holders \cup {c} /\ msg' = [msg EXCEPT ![c] = m]
            /\ pc' = [pc EXCEPT ![c] = overflow_policy[logger]] /\ refused' = refused
         \/ /\ refused' = refused \cup {Call(m)} /\ UNCHANGED <<holders, msg, pc>>
  BY DEF LogCall, lock_pool, worker_vars
<1>2. Len(sent[c]) \in Nat /\ overflow_policy[logger] \in Policies /\ c \in Threads
  BY SentLength, PoolAssumption, MainIsNoClient
<1>3. /\ m \in Message /\ m.from = c /\ m.n = Len(sent[c]) + 1 /\ m.type # "terminate"
      /\ Call(m) = <<c, Len(sent[c]) + 1>>
  BY <1>2, SMT DEF Message, Call
<1>4. HIDE DEF m
<1>5. /\ sent' \in [Clients -> Seq(Message)]
      /\ Len(sent'[c]) = Len(sent[c]) + 1 /\ sent'[c][Len(sent[c]) + 1] = m
      /\ \A n \in 1 .. Len(sent[c]) : sent'[c][n] = sent[c][n]
      /\ \A d \in Clients : d # c => sent'[d] = sent[d]
  <2>1. sent[c] \in Seq(Message) /\ sent'[c] = Append(sent[c], m)
    BY <1>1 DEF TypeOK, ClientsOK
  <2>2. /\ Append(sent[c], m) \in Seq(Message) /\ Len(Append(sent[c], m)) = Len(sent[c]) + 1
        /\ Append(sent[c], m)[Len(sent[c]) + 1] = m
        /\ \A n \in 1 .. Len(sent[c]) : Append(sent[c], m)[n] = sent[c][n]
    BY <1>3, <2>1, AppendProperties
  <2>3. QED
    BY <1>1, <2>1, <2>2 DEF TypeOK, ClientsOK
<1>6. Call(m) \in CallIds
  BY <1>2, <1>3, SMT DEF CallIds
<1>7. TypeOK'
  <2>1. WorkersOK'
    BY <1>1 DEF TypeOK, WorkersOK
  <2>2. /\ q' \in Seq(Message) /\ Len(q') <= Capacity /\ terminates' \in Nat
        /\ pool' \in {"alive", "destroying", "gone"}
        /\ lost' \subseteq CallIds /\ dropped' \subseteq CallIds
    BY <1>1 DEF TypeOK, ClientsOK
  <2>3. holders' \subseteq Threads /\ refused' \subseteq CallIds
    BY <1>1, <1>2, <1>6 DEF TypeOK, ClientsOK
  <2>4. msg' \in [Threads -> Message]
    BY <1>1, <1>2, <1>3 DEF TypeOK, ClientsOK
  <2>5. pc' \in [Threads -> Policies \cup Ending \cup {"idle", "release"}]
    BY <1>1, <1>2 DEF TypeOK, ClientsOK
  <2>6. QED
    BY <1>5, <2>1, <2>2, <2>3, <2>4, <2>5 DEF TypeOK, ClientsOK
<1>8. /\ \A u \in Threads : u # c => pc'[u] = pc[u] /\ msg'[u] = msg[u]
      /\ \/ pc'[c] \in Policies /\ msg'[c] = m /\ c \in holders' /\ pool = "alive"
            /\ refused' = refused
         \/ pc'[c] = "idle" /\ <<c, Len(sent[c]) + 1>> \in refused'
  BY <1>1, <1>2, <1>3 DEF TypeOK, ClientsOK, Life, Lifetime
<1>9. pc[c] \notin Policies
  BY <1>1, PolicyPlaces
<1>10. SentOK'
  <2>1. \A d \in Clients : \A n \in 1 .. Len(sent'[d]) :
           sent'[d][n].from = d /\ sent'[d][n].n = n /\ sent'[d][n].type # "terminate"
    <3> SUFFICES ASSUME NEW d \in Clients, NEW n \in 1 .. Len(sent'[d])
                 PROVE  /\ sent'[d][n].from = d /\ sent'[d][n].n = n
                        /\ sent'[d][n].type # "terminate"
      OBVIOUS
    <3>1. CASE d # c
      BY <1>5, <3>1 DEF Flow, SentOK
    <3>2. CASE d = c /\ n = Len(sent[c]) + 1
      BY <1>3, <1>5, <3>2
    <3>3. CASE d = c /\ n # Len(sent[c]) + 1
      <4>1. n \in 1 .. Len(sent[c])
        BY <1>2, <1>5, <3>3, SMT
      <4>2. QED
        BY <1>5, <3>3, <4>1 DEF Flow, SentOK
    <3>4. QED
      BY <3>1, <3>2, <3>3
  <2>2. ASSUME NEW u \in Threads, pc'[u] \in Policies
        PROVE  u \in Clients /\ Len(sent'[u]) > 0 /\ msg'[u] = sent'[u][Len(sent'[u])]
    <3>1. CASE u = c
      <4>1. msg'[c] = m
        BY <1>8, <2>2, <3>1, PolicyPlaces
      <4>2. Len(sent[c]) + 1 > 0
        BY <1>2, SMT
      <4>3. QED
        BY <1>5, <3>1, <4>1, <4>2
    <3>2. CASE u # c
      BY <1>5, <1>8, <2>2, <3>2 DEF Flow, SentOK
    <3>3. QED
      BY <3>1, <3>2
  <2>3. QED
    BY <2>1, <2>2 DEF SentOK
<1>11. \A call : IsPosted(call) => IsPosted(call)'
  <2> SUFFICES ASSUME NEW call, IsPosted(call) PROVE IsPosted(call)'
    OBVIOUS
  <2>1. CASE call[1] = c
    BY <1>2, <1>5, <1>9, <2>1, SMT DEF IsPosted, Posted
  <2>2. CASE call[1] # c
    BY <1>5, <1>8, <2>2, MainIsNoClient DEF IsPosted, Posted
  <2>3. QED
    BY <2>1, <2>2
<1>12. PostedOK'
  BY <1>1, <1>11 DEF Flow, PostedOK, Call
<1>13. \A s : \A d \in Clients : \A n \in 1 .. Len(sent[d]) : Due(s, d, n)' => Due(s, d, n)
  BY <1>1, <1>5 DEF Due, should_log
<1>14. NothingForgotten'
  <2> SUFFICES ASSUME NEW d \in Clients, NEW n \in 1 .. Len(sent'[d]), NEW s \in Sinks,
                      Due(s, d, n)'
               PROVE  Offered(s, <<d, n>>)' \/ OnItsWay(sent[d][n], s)'
    BY DEF NothingForgotten
  <2>1. CASE n \in 1 .. Len(sent[d])
    <3>1. sent'[d][n] = sent[d][n]
      BY <1>5, <2>1
    <3>2. Offered(s, <<d, n>>) \/ OnItsWay(sent[d][n], s)
      BY <1>13, <2>1 DEF Flow, NothingForgotten
    <3>3. Offered(s, <<d, n>>) => Offered(s, <<d, n>>)'
      BY <1>1 DEF Offered
    <3>4. OnItsWay(sent[d][n], s) => OnItsWay(sent[d][n], s)'
      BY <1>1, <1>8, <1>9, <3>1 DEF OnItsWay
    <3>5. QED
      BY <3>2, <3>3, <3>4
  <2>2. CASE n \notin 1 .. Len(sent[d])
    <3>1. d = c /\ n = Len(sent[c]) + 1 /\ sent'[d][n] = m
      BY <1>2, <1>5, <2>2, SMT
    <3>2. <<d, n>> \notin refused'
      BY DEF Due
    <3>3. pc'[c] \in Policies /\ msg'[c] = m
      BY <1>8, <3>1, <3>2
    <3>4. QED
      BY <1>2, <3>1, <3>3 DEF OnItsWay
  <2>3. QED
    BY <2>1, <2>2
<1>15. PoolThreads' = PoolThreads /\ Stopped' = Stopped
  BY <1>1 DEF PoolThreads, Stopped
<1>16. QueueInOrder' /\ WorkerInOrder'
  BY <1>1, <1>15 DEF Flow, QueueInOrder, WorkerInOrder, Before, Call
<1>17. FlushesCover'
  <2>1. ASSUME NEW s \in Sinks, NEW call \in flush_done[s], Covered(s, call) 
        PROVE Covered(s, call)'
    <3> SUFFICES ASSUME NEW n \in 1 .. call[2], Due(s, call[1], n)', <<call[1], n>> \notin failed[s]
                 PROVE  \E i \in 1 .. flushed[s] : written[s][i] = <<call[1], n>>
      BY <1>1 DEF Covered
    <3>1. call[1] \in Clients /\ call[2] \in 1 .. Posted(call[1])
      BY DEF Flow, PostedOK, IsPosted
    <3>2. n \in 1 .. Len(sent[call[1]])
      BY <3>1, SentLength, SMT DEF Posted
    <3>3. Due(s, call[1], n)
      BY <1>13, <3>1, <3>2
    <3>4. QED
      BY <2>1, <3>3 DEF Covered
  <2>2. QED
    BY <1>1, <1>15, <2>1 DEF Flow, FlushesCover
<1>18. Lifetime'
  BY <1>1, <1>8, <1>9, <1>15, PolicyPlaces DEF Life, Lifetime
<1>19. TerminatesLast' /\ AllStopped'
  BY <1>1, <1>15 DEF Life, TerminatesLast, AllStopped
<1>20. TerminatesCounted'
  BY <1>1, <1>8, <1>15, PolicyPlaces DEF Life, TerminatesCounted, NoTerminateLost, Ending
<1>21. QED
  BY <1>7, <1>10, <1>12, <1>14, <1>16, <1>17, <1>18, <1>19, <1>20 DEF Life, Flow

(* A message is posted: it goes to the end of the queue, which may push    *)
(* out the oldest one, or it is discarded.                                 *)
LEMMA PostKeepsInv ==
    ASSUME Inv, NEW t \in Threads, post_async_msg(t)
    PROVE  Inv'
<1> USE DEF Inv
<1>1. /\ UNCHANGED <<wpc, wmsg, wsink, written, flushed, failed, flush_done, throws, holders,
                     terminates, pool, sent, refused>>
      /\ pc[t] \in Policies /\ pc' = [pc EXCEPT ![t] = "release"]
      /\ msg' = [msg EXCEPT ![t] = NoMsg]
  BY DEF post_async_msg, worker_vars, Policies
<1>2. /\ t \in Clients /\ Len(sent[t]) > 0 /\ msg[t] = sent[t][Len(sent[t])]
      /\ Len(sent[t]) \in Nat
  BY <1>1, SentLength DEF Flow, SentOK
<1>3. /\ msg[t] \in Message /\ msg[t].type # "terminate" /\ Call(msg[t]) = <<t, Len(sent[t])>>
      /\ Len(sent[t]) \in 1 .. Len(sent[t])
  <2>1. Len(sent[t]) \in 1 .. Len(sent[t])
    BY <1>2, SMT
  <2>2. QED
    BY <1>1, <1>2, <2>1 DEF TypeOK, ClientsOK, Flow, SentOK, Call
<1>4. /\ pool = "alive" /\ terminates = 0 /\ Stopped = {}
      /\ \A i \in 1 .. Len(q) : q[i].type # "terminate" /\ IsPosted(Call(q[i]))
  BY <1>1 DEF Life, Lifetime, TerminatesLast, Flow, PostedOK
<1>5. /\ q' \in Seq(Message) /\ Len(q') <= Capacity /\ lost' \subseteq CallIds
      /\ dropped' \subseteq CallIds /\ lost \subseteq lost' /\ dropped \subseteq dropped'
      /\ \/ PushedAfter(0, msg[t])
         \/ PushedAfter(1, msg[t]) /\ Call(q[1]) \in lost'
         \/ q' = q /\ Call(msg[t]) \in dropped'
  <2>0. /\ q \in Seq(Message) /\ Len(q) <= Capacity /\ Len(q) \in Nat
        /\ lost \subseteq CallIds /\ dropped \subseteq CallIds
    BY LenProperties DEF TypeOK, ClientsOK
  <2>1. CASE HasRoom(q, Capacity) /\ q' = Append(q, msg[t]) /\ UNCHANGED <<lost, dropped>>
    BY <1>3, <2>0, <2>1, AppendPlaces
  <2>2. CASE /\ ~HasRoom(q, Capacity) /\ q' = Tail(Append(q, msg[t]))
             /\ lost' = lost \cup {Call(Head(q))} /\ dropped' = dropped
    <3>1. /\ q' \in Seq(Message) /\ Len(q') <= Capacity /\ PushedAfter(1, msg[t])
          /\ Len(q) > 0 /\ Head(q) = q[1]
      BY <1>3, <2>0, <2>2, OverrunPlaces
    <3>2. 1 \in 1 .. Len(q)
      BY <2>0, <3>1, SMT
    <3>3. q[1] \in Message /\ IsPosted(Call(q[1]))
      BY <1>4, <2>0, <3>2, ElementOfSeq
    <3>4. Call(q[1]) \in CallIds
      BY <3>3 DEF CallIds, Call, IsPosted, Message
    <3>5. QED
      BY <2>0, <2>2, <3>1, <3>4
  <2>3. CASE q' = q /\ dropped' = dropped \cup {Call(msg[t])} /\ lost' = lost
    <3>1. Call(msg[t]) \in CallIds
      BY <1>2, <1>3 DEF CallIds
    <3>2. QED
      BY <2>0, <2>3, <3>1
  <2>4. QED
    BY <2>1, <2>2, <2>3 DEF post_async_msg, PushItems
<1>6. TypeOK'
  <2>1. WorkersOK'
    BY <1>1 DEF TypeOK, WorkersOK
  <2>2. msg' \in [Threads -> Message]
    BY <1>1, MainIsNoClient, SMT DEF TypeOK, ClientsOK, NoMsg, Terminate, Message
  <2>3. QED
    BY <1>1, <1>5, <2>1, <2>2 DEF TypeOK, ClientsOK
<1>7. /\ \A u \in Threads : u # t => pc'[u] = pc[u] /\ msg'[u] = msg[u]
      /\ pc'[t] = "release" /\ pc'[t] \notin Policies /\ pc'[t] \notin Ending
  BY <1>1, PolicyPlaces DEF TypeOK, ClientsOK, Ending
<1>8. \A i \in 1 .. Len(q') : q'[i] = msg[t] \/ \E j \in 1 .. Len(q) : q'[i] = q[j]
  BY <1>5 DEF PushedAfter
<1>9. SentOK'
  BY <1>1, <1>7 DEF Flow, SentOK
<1>10. \A call : IsPosted(call) => IsPosted(call)'
  <2> SUFFICES ASSUME NEW call, IsPosted(call) PROVE IsPosted(call)'
    OBVIOUS
  <2>1. CASE call[1] = t
    BY <1>1, <1>2, <1>7, <2>1, SMT DEF IsPosted, Posted
  <2>2. CASE call[1] # t
    BY <1>1, <1>7, <2>2, MainIsNoClient DEF IsPosted, Posted
  <2>3. QED
    BY <2>1, <2>2
<1>11. PICK m : m = msg[t]
  OBVIOUS
<1>12. \A call : call = <<t, Len(sent[t])>> => IsPosted(call)'
  BY <1>1, <1>2, <1>3, <1>7 DEF IsPosted, Posted
<1>13. \A call : IsPosted(call) => Before(call, Call(m))
  <2> SUFFICES ASSUME NEW call, IsPosted(call), call[1] = t PROVE call[2] < Len(sent[t])
    BY <1>3, <1>11 DEF Before
  <2>1. QED
    BY <1>1, <1>2, SMT DEF IsPosted, Posted
<1>14. PostedOK'
  <2>1. ASSUME NEW i \in 1 .. Len(q'), NEW call, call = Call(q[i])'
        PROVE  IsPosted(call)'
    <3>0. call = <<q'[i].from, q'[i].n>>
      BY <2>1 DEF Call
    <3>1. CASE q'[i] = m
      BY <1>3, <1>11, <1>12, <3>0, <3>1 DEF Call
    <3>2. CASE \E j \in 1 .. Len(q) : q'[i] = q[j]
      BY <1>4, <1>10, <3>0, <3>2 DEF Call
    <3>3. QED
      BY <1>8, <1>11, <3>1, <3>2
  <2>2. QED
    BY <1>1, <1>10, <2>1 DEF Flow, PostedOK, Call
<1>15. \A s : \A d \in Clients : \A n : Due(s, d, n)' => Due(s, d, n)
  BY <1>1, <1>5 DEF Due
<1>16. NothingForgotten'
  <2> SUFFICES ASSUME NEW d \in Clients, NEW n \in 1 .. Len(sent[d]), NEW s \in Sinks,
                      Due(s, d, n)'
               PROVE  Offered(s, <<d, n>>)' \/ OnItsWay(sent[d][n], s)'
    BY <1>1 DEF NothingForgotten
  <2>1. Offered(s, <<d, n>>) \/ OnItsWay(sent[d][n], s)
    BY <1>15 DEF Flow, NothingForgotten
  <2>2. Offered(s, <<d, n>>) => Offered(s, <<d, n>>)'
    BY <1>1 DEF Offered
  <2>3. Call(sent[d][n]) = <<d, n>> /\ <<d, n>> \notin lost' /\ <<d, n>> \notin dropped'
    BY DEF Flow, SentOK, Call, Due
  <2>4. ASSUME NEW u \in Threads, pc[u] \in Policies, msg[u] = sent[d][n]
        PROVE  OnItsWay(sent[d][n], s)'
    <3>1. CASE u # t
      BY <1>1, <1>7, <2>4, <3>1 DEF OnItsWay
    <3>2. CASE u = t
      <4>1. q' # q \/ Call(m) \notin dropped'
        BY <1>11, <2>3, <2>4, <3>2
      <4>2. Len(q') \in 1 .. Len(q') /\ q'[Len(q')] = msg[t]
        BY <1>5, <1>11, <2>3, <2>4, <3>2 DEF PushedAfter
      <4>3. QED
        BY <1>1, <2>4, <3>2, <4>2 DEF OnItsWay
    <3>3. QED
      BY <3>1, <3>2
  <2>5. ASSUME NEW i \in 1 .. Len(q), q[i] = sent[d][n]
        PROVE  OnItsWay(sent[d][n], s)'
    <3>1. \E j \in 1 .. Len(q') : q'[j] = q[i]
      <4>0. Len(q) \in Nat
        BY LenProperties DEF TypeOK, ClientsOK
      <4>1. CASE PushedAfter(0, msg[t])
        BY <4>0, <4>1, SMT DEF PushedAfter
      <4>2. CASE PushedAfter(1, msg[t]) /\ Call(q[1]) \in lost'
        <5>1. i # 1
          BY <2>3, <2>5, <4>2
        <5>2. i > 1
          BY <4>0, <5>1, SMT
        <5>3. QED
          BY <4>2, <5>2 DEF PushedAfter
      <4>3. QED
        BY <1>5, <4>1, <4>2
    <3>2. QED
      BY <1>1, <2>5, <3>1 DEF OnItsWay
  <2>6. ASSUME NEW w \in Workers, wpc[w] = "sink_it", wmsg[w] = sent[d][n], wsink[w] <= s
        PROVE  OnItsWay(sent[d][n], s)'
    BY <1>1, <2>6 DEF OnItsWay
  <2>7. QED
    BY <2>1, <2>2, <2>4, <2>5, <2>6 DEF OnItsWay
<1>17. PoolThreads' = PoolThreads /\ Stopped' = Stopped
  BY <1>1 DEF PoolThreads, Stopped
<1>18. QueueInOrder'
  <2> SUFFICES ASSUME NEW i \in 1 .. Len(q'), NEW j \in 1 .. Len(q'), i < j
               PROVE  Before(Call(q'[i]), Call(q'[j]))
    BY DEF QueueInOrder, Before, Call
  <2>0. Len(q) \in Nat
    BY LenProperties DEF TypeOK, ClientsOK
  <2>1. ASSUME NEW k \in {0, 1}, PushedAfter(k, m)
        PROVE  Before(Call(q'[i]), Call(q'[j]))
    <3>1. Len(q') \in Nat /\ i # Len(q')
      BY <2>0, <2>1, SMT DEF PushedAfter
    <3>2. i + k \in 1 .. Len(q) /\ q'[i] = q[i + k]
      BY <2>1, <3>1 DEF PushedAfter
    <3>3. CASE j = Len(q') /\ q'[j] = m
      BY <1>4, <1>13, <3>2, <3>3
    <3>4. CASE j + k \in 1 .. Len(q) /\ q'[j] = q[j + k]
      <4>1. i + k < j + k
        BY <3>1, SMT
      <4>2. Before(Call(q[i + k]), Call(q[j + k]))
        BY <1>4, <3>2, <3>4, <4>1 DEF Flow, QueueInOrder
      <4>3. QED
        BY <3>2, <3>4, <4>2
    <3>5. QED
      BY <2>1, <3>3, <3>4 DEF PushedAfter
  <2>2. CASE q' = q
    BY <1>4, <2>2 DEF Flow, QueueInOrder
  <2>3. QED
    BY <1>5, <1>11, <2>1, <2>2
<1>19. WorkerInOrder'
  <2> SUFFICES ASSUME NEW w \in Workers, PoolThreads = {w}
               PROVE  /\ wpc[w] \in Busy => \A j \in 1 .. Len(q') :
                            Before(Call(wmsg[w]), Call(q'[j]))
                      /\ \A s \in Sinks : \A i \in 1 .. Len(written[s]) :
                           \A j \in 1 .. Len(q') : Before(written[s][i], Call(q'[j]))
    <3> HIDE DEF Inv
    <3>1. WorkerInOrder
      BY DEF Inv, Flow
    <3>2. QED
      BY <1>1, <1>17, <3>1 DEF WorkerInOrder, Before, Call
  <2>1. ASSUME NEW j \in 1 .. Len(q'), NEW call, IsPosted(call),
               \A i \in 1 .. Len(q) : Before(call, Call(q[i]))
        PROVE  Before(call, Call(q'[j]))
    BY <1>8, <1>11, <1>13, <2>1
  <2>2. wpc[w] \in Busy => \A j \in 1 .. Len(q) : Before(Call(wmsg[w]), Call(q[j]))
    BY <1>4 DEF Flow, WorkerInOrder
  <2>3. wpc[w] \in Busy => IsPosted(Call(wmsg[w]))
    BY DEF Flow, PostedOK
  <2>4. \A s \in Sinks : \A i \in 1 .. Len(written[s]) :
           IsPosted(written[s][i]) /\ \A j \in 1 .. Len(q) : Before(written[s][i], Call(q[j]))
    BY <1>4 DEF Flow, WorkerInOrder, PostedOK
  <2>5. QED
    BY <2>1, <2>2, <2>3, <2>4
<1>20. FlushesCover'
  <2>1. ASSUME NEW s \in Sinks, NEW call \in flush_done[s], Covered(s, call)
        PROVE  Covered(s, call)'
    <3>1. call[1] \in Clients
      BY DEF Flow, PostedOK, IsPosted
    <3>2. QED
      BY <1>1, <1>15, <2>1, <3>1 DEF Covered
  <2>2. QED
    BY <1>1, <1>17, <2>1 DEF Flow, FlushesCover
<1>21. Lifetime'
  BY <1>1, <1>7, <1>17, PolicyPlaces DEF Life, Lifetime
<1>22. \A i \in 1 .. Len(q') : q'[i].type # "terminate"
  BY <1>3, <1>4, <1>8
<1>23. TerminatesLast' /\ AllStopped'
  BY <1>1, <1>4, <1>17, <1>22 DEF TerminatesLast, AllStopped
<1>24. TerminatesCounted'
  <2>1. Terms' = Terms
    BY <1>4, <1>22 DEF Terms
  <2>2. NoTerminateLost'
    <3>1. terminates = Cardinality(Terms) + Cardinality(Stopped)
      BY TermsFinite DEF Life, TerminatesCounted, NoTerminateLost, TypeOK, ClientsOK
    <3>2. Terms' = {i \in DOMAIN q' : q'[i].type = "terminate"}
      <4>1. DOMAIN q' = 1 .. Len(q')
        BY <1>5, LenProperties
      <4>2. QED
        BY <4>1 DEF Terms
    <3>3. QED
      BY <1>1, <1>17, <2>1, <3>1, <3>2 DEF NoTerminateLost
  <2>3. QED
    BY <1>1, <1>7, <1>17, <2>2, PolicyPlaces DEF Life, TerminatesCounted, Ending
<1>25. QED
  BY <1>6, <1>9, <1>14, <1>16, <1>18, <1>19, <1>20, <1>21, <1>23, <1>24 DEF Life, Flow

(* ~thread_pool posts a terminate message, after all the others.           *)
LEMMA PostTerminateKeepsInv ==
    ASSUME Inv, NEW t \in Threads, PostTerminate(t)
    PROVE  Inv'
<1> USE DEF Inv
<1>1. /\ UNCHANGED <<wpc, wmsg, wsink, written, flushed, failed, flush_done, throws, holders,
                     msg, pool, sent, refused, lost, dropped>>
      /\ pc[t] = "post_terminate" /\ HasRoom(q, Capacity) /\ q' = Append(q, Terminate)
      /\ terminates' = terminates + 1
      /\ pc' = [pc EXCEPT ![t] = IF terminates + 1 = Cardinality(PoolThreads) THEN "join" ELSE @]
  BY DEF PostTerminate, worker_vars
<1>2. /\ pool = "destroying" /\ \A u \in Threads : pc[u] \notin Policies /\ (pc[u] \in Ending => u = t)
      /\ holders = {}
  BY <1>1 DEF Life, Lifetime, Ending
<1>3. Terminate \in Message /\ Terminate.type = "terminate"
  BY MainIsNoClient, SMT DEF Terminate, Message
<1>4. /\ q \in Seq(Message) /\ Len(q) <= Capacity /\ terminates \in Nat /\ Len(q) \in Nat
      /\ q' \in Seq(Message) /\ Len(q') <= Capacity /\ PushedAfter(0, Terminate)
  BY <1>1, <1>3, AppendPlaces, LenProperties DEF TypeOK, ClientsOK
<1>5. /\ Len(q') = Len(q) + 1 /\ q'[Len(q) + 1].type = "terminate"
      /\ \A i \in 1 .. Len(q) : i \in 1 .. Len(q') /\ q'[i] = q[i]
      /\ \A i \in 1 .. Len(q') : i \in 1 .. Len(q) \/ i = Len(q) + 1
      /\ Len(q) + 1 \notin 1 .. Len(q) /\ Len(q) + 1 \in 1 .. Len(q')
  BY <1>3, <1>4, SMT DEF PushedAfter
<1>6. /\ \A u \in Threads : u # t => pc'[u] = pc[u]
      /\ pc'[t] = IF terminates + 1 = Cardinality(PoolThreads) THEN "join" ELSE "post_terminate"
      /\ \A u \in Threads : pc'[u] \notin Policies
  BY <1>1, <1>2, PolicyPlaces DEF TypeOK, ClientsOK, Ending
<1>7. TypeOK'
  <2>1. WorkersOK'
    BY <1>1 DEF TypeOK, WorkersOK
  <2>2. pc' \in [Threads -> Policies \cup Ending \cup {"idle", "release"}]
    BY <1>1 DEF TypeOK, ClientsOK, Ending
  <2>3. terminates' \in Nat
    BY <1>1, <1>4, SMT
  <2>4. QED
    BY <1>1, <1>4, <2>1, <2>2, <2>3 DEF TypeOK, ClientsOK
<1>8. PoolThreads' = PoolThreads /\ Stopped' = Stopped
  BY <1>1 DEF PoolThreads, Stopped
<1>9. SentOK'
  BY <1>1, <1>6 DEF Flow, SentOK
<1>10. \A call : IsPosted(call) <=> IsPosted(call)'
  <2>1. \A c \in Clients : Posted(c)' = Posted(c)
    BY <1>1, <1>2, <1>6, MainIsNoClient DEF Posted
  <2>2. QED
    BY <2>1 DEF IsPosted
<1>11. PostedOK'
  <2>1. ASSUME NEW i \in 1 .. Len(q'), q'[i].type # "terminate", NEW call, call = Call(q[i])'
        PROVE  IsPosted(call)'
    <3>1. i \in 1 .. Len(q) /\ q'[i] = q[i]
      BY <1>5, <2>1
    <3>2. QED
      BY <1>10, <2>1, <3>1 DEF Flow, PostedOK, Call
  <2>2. QED
    BY <1>1, <1>10, <2>1 DEF Flow, PostedOK, Call
<1>12. NothingForgotten'
  <2>1. \A s, c, n : Due(s, c, n)' = Due(s, c, n) /\ Offered(s, <<c, n>>)' = Offered(s, <<c, n>>)
    BY <1>1 DEF Due, Offered
  <2>2. \A m, s : OnItsWay(m, s) => OnItsWay(m, s)'
    BY <1>1, <1>2, <1>5 DEF OnItsWay
  <2>3. QED
    BY <1>1, <2>1, <2>2 DEF Flow, NothingForgotten
<1>13. QueueInOrder'
  BY <1>5 DEF Flow, QueueInOrder, Before, Call
<1>14. WorkerInOrder'
  <2>1. ASSUME NEW j \in 1 .. Len(q'), q'[j].type # "terminate"
        PROVE  j \in 1 .. Len(q) /\ q'[j] = q[j]
    BY <1>5, <2>1
  <2>2. ASSUME NEW w \in Workers, PoolThreads = {w}, wpc[w] \in Busy,
               NEW j \in 1 .. Len(q'), q'[j].type # "terminate"
        PROVE  Before(Call(wmsg[w]), Call(q'[j]))
    BY <2>1, <2>2 DEF Flow, WorkerInOrder
  <2>3. ASSUME NEW w \in Workers, PoolThreads = {w}, NEW s \in Sinks, NEW i \in 1 .. Len(written[s]),
               NEW j \in 1 .. Len(q'), q'[j].type # "terminate"
        PROVE  Before(written[s][i], Call(q'[j]))
    BY <2>1, <2>3 DEF Flow, WorkerInOrder
  <2>4. ASSUME NEW w \in Workers, PoolThreads = {w}, NEW s \in Sinks, NEW i \in 1 .. Len(written[s])
        PROVE  /\ \A j \in 1 .. Len(written[s]) : i < j => Before(written[s][i], written[s][j])
               /\ wpc[w] = "sink_it" /\ wsink[w] <= s => Before(written[s][i], Call(wmsg[w]))
    BY <2>4 DEF Flow, WorkerInOrder
  <2>5. /\ PoolThreads' = PoolThreads /\ wpc' = wpc /\ wmsg' = wmsg
        /\ wsink' = wsink /\ written' = written
    BY <1>1, <1>8
  <2>6. QED
    BY <2>2, <2>3, <2>4, <2>5 DEF WorkerInOrder, Before, Call
<1>15. FlushesCover'
  <2>1. \A s, call : Covered(s, call)' <=> Covered(s, call)
    BY <1>1 DEF Covered, Due
  <2>2. QED
    BY <1>1, <1>8, <2>1 DEF Flow, FlushesCover
<1>16. Lifetime'
  BY <1>1, <1>2, <1>6, <1>8 DEF Life, Lifetime, Ending
<1>17. TerminatesLast'
  <2>1. ASSUME NEW i \in 1 .. Len(q'), NEW j \in 1 .. Len(q'), i < j, q'[i].type = "terminate"
        PROVE  q'[j].type = "terminate"
    <3>1. CASE j = Len(q) + 1
      BY <1>5, <3>1
    <3>2. CASE j \in 1 .. Len(q)
      <4>1. i \in 1 .. Len(q)
        BY <1>4, <1>5, <2>1, <3>2, SMT
      <4>2. QED
        BY <1>5, <2>1, <3>2, <4>1 DEF Life, TerminatesLast
    <3>3. QED
      BY <1>5, <3>1, <3>2
  <2>2. Stopped # {} => \A i \in 1 .. Len(q') : q'[i].type = "terminate"
    BY <1>5 DEF Life, TerminatesLast
  <2>3. QED
    BY <1>1, <1>2, <1>8, <2>1, <2>2 DEF TerminatesLast
<1>18. TerminatesCounted'
  <2>1. Terms' = Terms \cup {Len(q) + 1} /\ Len(q) + 1 \notin Terms
    BY <1>5 DEF Terms
  <2>2. Cardinality(Terms') = Cardinality(Terms) + 1
    BY <1>4, <2>1, TermsFinite, FS_AddElement
  <2>3. /\ terminates = Cardinality(Terms) + Cardinality(Stopped)
        /\ Cardinality(Terms) \in Nat /\ Cardinality(Stopped) \in Nat
    BY <1>4, TermsFinite, StoppedFinite DEF Life, TerminatesCounted, NoTerminateLost
  <2>4. terminates' = Cardinality(Terms') + Cardinality(Stopped')
    BY <1>1, <1>8, <2>2, <2>3, SMT
  <2>5. Terms' = {i \in DOMAIN q' : q'[i].type = "terminate"}
    <3>1. DOMAIN q' = 1 .. Len(q')
      BY <1>4, LenProperties
    <3>2. QED
      BY <3>1 DEF Terms
  <2>6. NoTerminateLost'
    BY <2>4, <2>5 DEF NoTerminateLost
  <2>7. terminates + 1 = Cardinality(PoolThreads) \/ terminates + 1 < Cardinality(PoolThreads)
    <3>1. terminates < Cardinality(PoolThreads)
      BY <1>1 DEF Life, TerminatesCounted
    <3>2. QED
      BY <1>4, <3>1, StoppedFinite, SMT
  <2>8. \A u \in Threads : u # t => pc'[u] # "post_terminate" /\ pc'[u] # "join"
    BY <1>2, <1>6 DEF Ending
  <2>9. QED
    BY <1>1, <1>6, <1>8, <2>6, <2>7, <2>8 DEF TerminatesCounted
<1>19. AllStopped'
  BY <1>1, <1>2 DEF AllStopped
<1>20. QED
  BY <1>7, <1>9, <1>11, <1>12, <1>13, <1>14, <1>15, <1>16, <1>17, <1>18, <1>19 DEF Life, Flow

(* A worker takes the oldest message; on a terminate message it stops.     *)
LEMMA ProcessKeepsInv ==
    ASSUME Inv, NEW w \in Workers, process_next_msg(w)
    PROVE  Inv'
<1> USE DEF Inv
<1>1. /\ UNCHANGED <<written, flushed, failed, flush_done, throws, holders, pc, msg, terminates,
                     pool, sent, refused, lost, dropped>>
      /\ wpc[w] = "dequeue" /\ q # <<>> /\ q' = Tail(q)
      /\ wmsg' = [wmsg EXCEPT ![w] = Head(q)] /\ wsink' = [wsink EXCEPT ![w] = 1]
      /\ wpc' = [wpc EXCEPT ![w] = CASE Head(q).type = "log"       -> "sink_it"
                                     [] Head(q).type = "flush"     -> "flush"
                                     [] Head(q).type = "terminate" -> "stopped"]
  BY DEF process_next_msg, client_vars
<1>2. /\ q \in Seq(Message) /\ Len(q) \in Nat /\ q' \in Seq(Message) /\ Len(q') <= Capacity
      /\ Popped /\ Head(q) = q[1] /\ q[1] \in Message
  BY <1>1, PopPlaces, LenProperties DEF TypeOK, ClientsOK
<1>3. /\ 1 \in 1 .. Len(q)
      /\ \A i \in 1 .. Len(q') : i + 1 \in 1 .. Len(q) /\ 1 < i + 1 /\ q'[i] = q[i + 1]
      /\ \A i \in 1 .. Len(q) : i > 1 => i - 1 \in 1 .. Len(q') /\ q'[i - 1] = q[i]
  BY <1>2, SMT DEF Popped
<1>4. q[1].type \in {"log", "flush", "terminate"}
  BY <1>2 DEF Message
<1>5. /\ wmsg'[w] = q[1] /\ wsink'[w] = 1
      /\ q[1].type = "log" => wpc'[w] = "sink_it"
      /\ q[1].type = "flush" => wpc'[w] = "flush"
      /\ q[1].type = "terminate" => wpc'[w] = "stopped"
      /\ \A v \in Workers : v # w => /\ wpc'[v] = wpc[v] /\ wmsg'[v] = wmsg[v]
                                     /\ wsink'[v] = wsink[v]
  BY <1>1, <1>2, <1>4 DEF TypeOK, WorkersOK
<1>6. TypeOK'
  <2>1. ClientsOK'
    BY <1>1, <1>2 DEF TypeOK, ClientsOK
  <2>2. 1 \in Sinks
    BY PoolAssumption, SMT DEF Sinks
  <2>3. wsink' \in [Workers -> Sinks] /\ wmsg' \in [Workers -> Message]
    BY <1>1, <1>2, <2>2 DEF TypeOK, WorkersOK
  <2>4. wpc' \in [Workers -> Busy \cup {"absent", "dequeue", "stopped"}]
    BY <1>1, <1>4, <1>5 DEF TypeOK, WorkersOK, Busy
  <2>5. QED
    BY <1>1, <2>1, <2>3, <2>4 DEF TypeOK, WorkersOK
<1>7. /\ PoolThreads' = PoolThreads /\ w \in PoolThreads /\ w \notin Stopped
      /\ Stopped' = IF q[1].type = "terminate" THEN Stopped \cup {w} ELSE Stopped
  BY <1>1, <1>4, <1>5 DEF PoolThreads, Stopped
<1>8. pool # "gone"
  BY <1>1 DEF Life, AllStopped
<1>9. Lifetime' /\ AllStopped'
  BY <1>1, <1>7, <1>8 DEF Life, Lifetime, AllStopped
<1>10. TerminatesLast'
  <2>1. pool = "alive" => /\ \A i \in 1 .. Len(q') : q'[i].type # "terminate"
                          /\ terminates = 0 /\ Stopped' = {}
    BY <1>3, <1>7 DEF Life, TerminatesLast
  <2>2. ASSUME NEW i \in 1 .. Len(q'), NEW j \in 1 .. Len(q'), i < j, q'[i].type = "terminate"
        PROVE  q'[j].type = "terminate"
    <3>1. i + 1 < j + 1
      BY <1>2, <2>2, SMT DEF Popped
    <3>2. QED
      BY <1>3, <2>2, <3>1 DEF Life, TerminatesLast
  <2>3. ASSUME Stopped' # {}, NEW i \in 1 .. Len(q') PROVE q'[i].type = "terminate"
    <3>1. CASE q[1].type = "terminate"
      BY <1>3, <3>1 DEF Life, TerminatesLast
    <3>2. CASE q[1].type # "terminate"
      BY <1>3, <1>7, <2>3, <3>2 DEF Life, TerminatesLast
    <3>3. QED
      BY <3>1, <3>2
  <2>4. QED
    BY <1>1, <2>1, <2>2, <2>3 DEF TerminatesLast
<1>11. TerminatesCounted'
  <2>1. /\ terminates = Cardinality(Terms) + Cardinality(Stopped)
        /\ Cardinality(Terms) \in Nat /\ Cardinality(Stopped) \in Nat
    BY <1>2, TermsFinite, StoppedFinite DEF Life, TerminatesCounted, NoTerminateLost
  <2>2. Cardinality(Terms') = IF q[1].type = "terminate" THEN Cardinality(Terms) - 1
                                                         ELSE Cardinality(Terms)
    BY <1>2, TermsAfterPop
  <2>3. Cardinality(Stopped') = IF q[1].type = "terminate" THEN Cardinality(Stopped) + 1
                                                           ELSE Cardinality(Stopped)
    BY <1>7, StoppedFinite, FS_AddElement
  <2>4. terminates' = Cardinality(Terms') + Cardinality(Stopped')
    BY <1>1, <2>1, <2>2, <2>3, SMT
  <2>5. Terms' = {i \in DOMAIN q' : q'[i].type = "terminate"}
    <3>1. DOMAIN q' = 1 .. Len(q')
      BY <1>2, LenProperties
    <3>2. QED
      BY <3>1 DEF Terms
  <2>6. QED
    BY <1>1, <1>7, <2>4, <2>5 DEF Life, TerminatesCounted, NoTerminateLost
<1>12. SentOK'
  BY <1>1 DEF Flow, SentOK
<1>13. \A call : IsPosted(call) <=> IsPosted(call)'
  BY <1>1 DEF IsPosted, Posted
<1>14. PostedOK'
  <2>1. \A i \in 1 .. Len(q') : q'[i].type # "terminate" => IsPosted(Call(q[i + 1]))
    BY <1>3 DEF Flow, PostedOK
  <2>2. ASSUME NEW v \in Workers, wpc'[v] \in Busy, NEW call, call = Call(wmsg[v])'
        PROVE  wmsg'[v].type # "terminate" /\ IsPosted(call)
    <3>1. CASE v = w
      <4>1. q[1].type # "terminate"
        BY <1>5, <2>2, <3>1 DEF Busy
      <4>2. QED
        BY <1>3, <1>5, <2>2, <3>1, <4>1 DEF Flow, PostedOK, Call
    <3>2. CASE v # w
      BY <1>5, <2>2, <3>2 DEF Flow, PostedOK, Call
    <3>3. QED
      BY <3>1, <3>2
  <2>3. QED
    BY <1>1, <1>3, <1>13, <2>1, <2>2 DEF Flow, PostedOK, Call
<1>15. NothingForgotten'
  <2> SUFFICES ASSUME NEW d \in Clients, NEW n \in 1 .. Len(sent[d]), NEW s \in Sinks,
                      Due(s, d, n)
               PROVE  Offered(s, <<d, n>>)' \/ OnItsWay(sent[d][n], s)'
    BY <1>1 DEF NothingForgotten, Due
  <2>1. Offered(s, <<d, n>>) \/ OnItsWay(sent[d][n], s)
    BY DEF Flow, NothingForgotten
  <2>2. Offered(s, <<d, n>>) => Offered(s, <<d, n>>)'
    BY <1>1 DEF Offered
  <2>3. sent[d][n].type = "log" /\ 1 <= s
    BY PoolAssumption, SMT DEF Due, Sinks
  <2>4. ASSUME NEW u \in Threads, pc[u] \in Policies, msg[u] = sent[d][n]
        PROVE  OnItsWay(sent[d][n], s)'
    BY <1>1, <2>4 DEF OnItsWay
  <2>5. ASSUME NEW i \in 1 .. Len(q), q[i] = sent[d][n]
        PROVE  OnItsWay(sent[d][n], s)'
    <3>1. CASE i = 1
      <4>1. wpc'[w] = "sink_it" /\ wmsg'[w] = sent'[d][n] /\ wsink'[w] <= s
        BY <1>1, <1>5, <2>3, <2>5, <3>1
      <4>2. QED
        BY <4>1 DEF OnItsWay
    <3>2. CASE i # 1
      <4>1. i > 1
        BY <1>2, <3>2, SMT
      <4>2. QED
        BY <1>1, <1>3, <2>5, <4>1 DEF OnItsWay
    <3>3. QED
      BY <3>1, <3>2
  <2>6. ASSUME NEW v \in Workers, wpc[v] = "sink_it", wmsg[v] = sent[d][n], wsink[v] <= s
        PROVE  OnItsWay(sent[d][n], s)'
    BY <1>1, <1>5, <2>6 DEF OnItsWay
  <2>7. QED
    BY <2>1, <2>2, <2>4, <2>5, <2>6 DEF OnItsWay
<1>16. QueueInOrder'
  <2> SUFFICES ASSUME NEW i \in 1 .. Len(q'), NEW j \in 1 .. Len(q'), i < j,
                      q'[i].type # "terminate", q'[j].type # "terminate"
               PROVE  Before(Call(q'[i]), Call(q'[j]))
    BY DEF QueueInOrder, Before, Call
  <2>1. i + 1 < j + 1
    BY <1>2, SMT DEF Popped
  <2>2. QED
    BY <1>3, <2>1 DEF Flow, QueueInOrder
<1>17. WorkerInOrder'
  <2> SUFFICES ASSUME PoolThreads = {w}
               PROVE  /\ wpc'[w] \in Busy => \A j \in 1 .. Len(q') :
                            q'[j].type # "terminate" => Before(Call(wmsg'[w]), Call(q'[j]))
                      /\ \A s \in Sinks : \A i \in 1 .. Len(written[s]) :
                           /\ \A j \in 1 .. Len(q') :
                                 q'[j].type # "terminate" => Before(written[s][i], Call(q'[j]))
                           /\ wpc'[w] = "sink_it" => Before(written[s][i], Call(wmsg'[w]))
    <3> HIDE DEF Inv
    <3>1. \A v \in Workers : PoolThreads' = {v} => v = w /\ PoolThreads = {w}
      BY <1>7
    <3>2. PoolThreads = {w} => \A s \in Sinks : \A i, j \in 1 .. Len(written[s]) :
             i < j => Before(written[s][i], written[s][j])
      BY DEF Inv, Flow, WorkerInOrder
    <3>3. \A s : written'[s] = written[s]
      BY <1>1
    <3>4. PoolThreads = {w} =>
             /\ wpc'[w] \in Busy => \A j \in 1 .. Len(q') :
                   q'[j].type # "terminate" => Before(Call(wmsg[w]), Call(q[j]))'
             /\ \A s \in Sinks : \A i \in 1 .. Len(written'[s]) :
                   /\ \A j \in 1 .. Len(written'[s]) :
                         i < j => Before(written[s][i], written[s][j])'
                   /\ \A j \in 1 .. Len(q') :
                         q'[j].type # "terminate" => Before(written[s][i], Call(q[j]))'
                   /\ wpc'[w] = "sink_it" /\ wsink'[w] <= s
                         => Before(written[s][i], Call(wmsg[w]))'
      BY <3>2, <3>3 DEF Before, Call
    <3>5. QED
      BY <3>1, <3>4 DEF WorkerInOrder
  <2>1. wpc'[w] \in Busy => q[1].type # "terminate"
    BY <1>5 DEF Busy
  <2>2. wpc'[w] \in Busy => \A j \in 1 .. Len(q') :
            q'[j].type # "terminate" => Before(Call(wmsg'[w]), Call(q'[j]))
    BY <1>3, <1>5, <2>1 DEF Flow, QueueInOrder
  <2>3. ASSUME NEW s \in Sinks, NEW i \in 1 .. Len(written[s])
        PROVE  /\ \A j \in 1 .. Len(q') :
                     q'[j].type # "terminate" => Before(written[s][i], Call(q'[j]))
               /\ wpc'[w] = "sink_it" => Before(written[s][i], Call(wmsg'[w]))
    <3>1. \A j \in 1 .. Len(q) : q[j].type # "terminate" => Before(written[s][i], Call(q[j]))
      BY DEF Flow, WorkerInOrder
    <3>2. QED
      BY <1>3, <1>5, <2>1, <3>1 DEF Busy
  <2>4. QED
    BY <2>2, <2>3
<1>18. FlushesCover'
  <2>1. \A s, call : Covered(s, call)' <=> Covered(s, call)
    BY <1>1 DEF Covered, Due
  <2>2. QED
    BY <1>1, <1>7, <2>1 DEF Flow, FlushesCover
<1>19. QED
  BY <1>6, <1>9, <1>10, <1>11, <1>12, <1>14, <1>15, <1>16, <1>17, <1>18 DEF Life, Flow

(* The end of a turn of either loop over the sinks.                        *)
SinkDone(w) ==
    /\ \A v \in Workers : v # w => /\ wpc'[v] = wpc[v] /\ wmsg'[v] = wmsg[v]
                                   /\ wsink'[v] = wsink[v]
    /\ wpc'[w] \in Busy \cup {"dequeue"}
    /\ wpc'[w] \in Busy => wmsg'[w] = wmsg[w]
    /\ wpc'[w] = "sink_it" => wpc[w] = "sink_it" /\ wsink'[w] = wsink[w] + 1
    /\ wpc[w] = "sink_it" => \A s \in Sinks :
          s > wsink[w] => wpc'[w] = "sink_it" /\ wsink'[w] <= s

LEMMA NextSinkMoves ==
    ASSUME TypeOK, NEW w \in Workers, wpc[w] \in Busy, NextSink(w)
    PROVE  /\ wpc' \in [Workers -> Busy \cup {"absent", "dequeue", "stopped"}]
           /\ wmsg' \in [Workers -> Message] /\ wsink' \in [Workers -> Sinks]
           /\ SinkDone(w)
<1>1. /\ wpc \in [Workers -> Busy \cup {"absent", "dequeue", "stopped"}]
      /\ wmsg \in [Workers -> Message] /\ wsink \in [Workers -> Sinks]
  BY DEF TypeOK, WorkersOK
<1>2. NumSinks \in Nat /\ NumSinks > 0 /\ wsink[w] \in 1 .. NumSinks
  BY <1>1, PoolAssumption, SMT DEF Sinks
<1>3. CASE wsink[w] < NumSinks
  <2>1. wsink' = [wsink EXCEPT ![w] = @ + 1] /\ wpc' = wpc /\ wmsg' = wmsg
    BY <1>3 DEF NextSink
  <2>2. wsink[w] + 1 \in Sinks
    BY <1>2, <1>3, SMT DEF Sinks
  <2>3. wsink' \in [Workers -> Sinks] /\ wsink'[w] = wsink[w] + 1
    BY <1>1, <2>1, <2>2
  <2>4. \A s \in Sinks : s > wsink[w] => wsink[w] + 1 <= s
    BY <1>2, SMT DEF Sinks
  <2>5. QED
    BY <1>1, <2>1, <2>3, <2>4 DEF SinkDone
<1>4. CASE ~(wsink[w] < NumSinks)
  <2>1. /\ wsink' = [wsink EXCEPT ![w] = 1]
        /\ \/ wpc' = [wpc EXCEPT ![w] = "flush"] /\ wmsg' = wmsg
           \/ wpc' = [wpc EXCEPT ![w] = "dequeue"] /\ wmsg' = [wmsg EXCEPT ![w] = NoMsg]
    BY <1>4 DEF NextSink
  <2>2. 1 \in Sinks /\ \A s \in Sinks : ~(s > wsink[w])
    BY <1>2, <1>4, SMT DEF Sinks
  <2>3. NoMsg \in Message
    BY MainIsNoClient, SMT DEF NoMsg, Terminate, Message
  <2>4. wsink' \in [Workers -> Sinks] /\ wmsg' \in [Workers -> Message]
    BY <1>1, <2>1, <2>2, <2>3
  <2>5. /\ wpc' \in [Workers -> Busy \cup {"absent", "dequeue", "stopped"}]
        /\ wpc'[w] = "flush" \/ wpc'[w] = "dequeue"
        /\ wpc'[w] = "flush" => wmsg' = wmsg
    BY <1>1, <2>1 DEF Busy
  <2>6. QED
    BY <1>1, <2>1, <2>2, <2>4, <2>5 DEF SinkDone, Busy
<1>5. QED
  BY <1>3, <1>4

(* Working on a message changes nothing that the clients see.              *)
LEMMA WorkKeepsLife ==
    ASSUME Inv, NEW w \in Workers, wpc[w] \in Busy, SinkDone(w),
           UNCHANGED <<q, holders, pc, msg, terminates, pool, sent, refused, lost, dropped>>
    PROVE  /\ Life' /\ ClientsOK' /\ SentOK' /\ QueueInOrder'
           /\ PoolThreads' = PoolThreads /\ w \in PoolThreads
           /\ \A call : IsPosted(call) <=> IsPosted(call)'
           /\ \A v \in Workers : wpc'[v] \in Busy =>
                 /\ wmsg'[v] = wmsg[v]
                 /\ wmsg[v].type # "terminate" /\ IsPosted(Call(wmsg[v]))
<1> USE DEF Inv
<1>1. PoolThreads' = PoolThreads /\ w \in PoolThreads /\ Stopped' = Stopped
  BY DEF SinkDone, PoolThreads, Stopped, Busy
<1>2. pool # "gone"
  BY DEF Life, AllStopped, Busy
<1>3. Lifetime' /\ TerminatesLast' /\ AllStopped'
  BY <1>1, <1>2 DEF Life, Lifetime, TerminatesLast, AllStopped
<1>4. TerminatesCounted'
  BY <1>1 DEF Life, TerminatesCounted, NoTerminateLost
<1>5. ClientsOK' /\ SentOK' /\ QueueInOrder'
  BY DEF TypeOK, ClientsOK, Flow, SentOK, QueueInOrder, Before, Call
<1>6. \A call : IsPosted(call) <=> IsPosted(call)'
  BY DEF IsPosted, Posted
<1>7. \A v \in Workers : wpc'[v] \in Busy =>
         /\ wmsg'[v] = wmsg[v]
         /\ wmsg[v].type # "terminate" /\ IsPosted(Call(wmsg[v]))
  BY DEF SinkDone, Flow, PostedOK
<1>8. QED
  BY <1>1, <1>3, <1>4, <1>5, <1>6, <1>7 DEF Life

(* A sink logs the message, throws, or does not want it.                   *)
LEMMA SinkItKeepsInv ==
    ASSUME Inv, NEW w \in Workers, backend_sink_it(w)
    PROVE  Inv'
<1> USE DEF Inv
<1>1. /\ UNCHANGED <<q, holders, pc, msg, terminates, pool, sent, refused, lost, dropped,
                     flushed, flush_done>>
      /\ wpc[w] = "sink_it" /\ NextSink(w)
      /\ \/ /\ written' = [written EXCEPT ![wsink[w]] = Append(@, Call(wmsg[w]))]
            /\ UNCHANGED <<failed, throws>>
         \/ /\ throws' = throws + 1 /\ written' = written
            /\ failed' = [failed EXCEPT ![wsink[w]] = @ \cup {Call(wmsg[w])}]
         \/ ~should_log(wsink[w], wmsg[w].level) /\ UNCHANGED <<written, failed, throws>>
  BY DEF backend_sink_it, client_vars, Throws
<1>2. wpc[w] \in Busy
  BY <1>1 DEF Busy
<1>3. /\ wpc' \in [Workers -> Busy \cup {"absent", "dequeue", "stopped"}]
      /\ wmsg' \in [Workers -> Message] /\ wsink' \in [Workers -> Sinks]
      /\ SinkDone(w)
  BY <1>1, <1>2, NextSinkMoves
<1>4. /\ Life' /\ ClientsOK' /\ SentOK' /\ QueueInOrder'
      /\ PoolThreads' = PoolThreads /\ w \in PoolThreads
      /\ \A call : IsPosted(call) <=> IsPosted(call)'
      /\ \A v \in Workers : wpc'[v] \in Busy =>
            /\ wmsg'[v] = wmsg[v]
            /\ wmsg[v].type # "terminate" /\ IsPosted(Call(wmsg[v]))
  BY <1>1, <1>2, <1>3, WorkKeepsLife
<1>5. PICK s0 \in Sinks, call0 \in CallIds :
         /\ s0 = wsink[w] /\ call0 = Call(wmsg[w]) /\ IsPosted(call0)
  <2>1. IsPosted(Call(wmsg[w])) /\ wmsg[w] \in Message /\ wsink[w] \in Sinks
    BY <1>2 DEF Flow, PostedOK, TypeOK, WorkersOK
  <2>2. Call(wmsg[w]) \in CallIds
    BY <2>1 DEF IsPosted, Call, CallIds, Message
  <2>3. QED
    BY <2>1, <2>2
<1>6. \A s \in Sinks : written[s] \in Seq(CallIds) /\ Len(written[s]) \in Nat
  BY LenProperties DEF TypeOK, WorkersOK
<1>7. /\ written' \in [Sinks -> Seq(CallIds)] /\ failed' \in [Sinks -> SUBSET CallIds]
      /\ throws' \in Nat
      /\ \A s \in Sinks : failed[s] \subseteq failed'[s]
      /\ \A s \in Sinks : s # s0 => written'[s] = written[s]
      /\ \/ written'[s0] = Append(written[s0], call0)
         \/ written'[s0] = written[s0] /\ call0 \in failed'[s0]
         \/ written'[s0] = written[s0] /\ ~should_log(s0, wmsg[w].level)
  <2>1. /\ written \in [Sinks -> Seq(CallIds)] /\ failed \in [Sinks -> SUBSET CallIds]
        /\ throws \in Nat
    BY DEF TypeOK, WorkersOK
  <2>2. CASE /\ written' = [written EXCEPT ![s0] = Append(@, call0)]
             /\ UNCHANGED <<failed, throws>>
    <3>1. Append(written[s0], call0) \in Seq(CallIds)
      BY <1>6, AppendProperties
    <3>2. QED
      BY <2>1, <2>2, <3>1
  <2>3. CASE /\ throws' = throws + 1 /\ written' = written
             /\ failed' = [failed EXCEPT ![s0] = @ \cup {call0}]
    <3>1. failed[s0] \cup {call0} \in SUBSET CallIds /\ throws' \in Nat
      BY <2>1, <2>3, SMT
    <3>2. failed' \in [Sinks -> SUBSET CallIds] /\ call0 \in failed'[s0]
      BY <2>1, <2>3, <3>1
    <3>3. \A s \in Sinks : failed[s] \subseteq failed'[s]
      BY <2>1, <2>3
    <3>4. QED
      BY <2>1, <2>3, <3>1, <3>2, <3>3
  <2>4. CASE ~should_log(s0, wmsg[w].level) /\ UNCHANGED <<written, failed, throws>>
    BY <2>1, <2>4
  <2>5. QED
    BY <1>1, <1>5, <2>2, <2>3, <2>4
<1>8. TypeOK'
  BY <1>1, <1>3, <1>4, <1>7 DEF TypeOK, WorkersOK
<1>9. /\ \A s \in Sinks : \A i \in 1 .. Len(written'[s]) :
            \/ i \in 1 .. Len(written[s]) /\ written'[s][i] = written[s][i]
            \/ s = s0 /\ i = Len(written[s]) + 1 /\ written'[s][i] = call0
      /\ \A s \in Sinks : \A i \in 1 .. Len(written[s]) :
            i \in 1 .. Len(written'[s]) /\ written'[s][i] = written[s][i]
      /\ \A s \in Sinks : Len(written[s]) <= Len(written'[s])
  <2> SUFFICES ASSUME NEW s \in Sinks
               PROVE  /\ \A i \in 1 .. Len(written'[s]) :
                            \/ i \in 1 .. Len(written[s]) /\ written'[s][i] = written[s][i]
                            \/ s = s0 /\ i = Len(written[s]) + 1 /\ written'[s][i] = call0
                      /\ \A i \in 1 .. Len(written[s]) :
                            i \in 1 .. Len(written'[s]) /\ written'[s][i] = written[s][i]
                      /\ Len(written[s]) <= Len(written'[s])
    OBVIOUS
  <2>1. CASE written'[s] = written[s]
    BY <1>6, <2>1, SMT
  <2>2. CASE s = s0 /\ written'[s] = Append(written[s], call0)
    <3>1. /\ Len(written'[s]) = Len(written[s]) + 1 /\ written'[s][Len(written[s]) + 1] = call0
          /\ \A i \in 1 .. Len(written[s]) : written'[s][i] = written[s][i]
      BY <1>6, <2>2, AppendProperties
    <3>2. QED
      BY <1>6, <2>2, <3>1, SMT
  <2>3. QED
    BY <1>7, <2>1, <2>2
<1>10. PostedOK'
  <2>1. \A s \in Sinks : \A i \in 1 .. Len(written'[s]) : IsPosted(written[s][i])'
    <3> SUFFICES ASSUME NEW s \in Sinks, NEW i \in 1 .. Len(written'[s]),
                        NEW call, call = written'[s][i]
                 PROVE  IsPosted(call)
      BY <1>4 DEF IsPosted
    <3>1. QED
      BY <1>5, <1>9 DEF Flow, PostedOK
  <2>2. QED
    BY <1>1, <1>4, <2>1 DEF Flow, PostedOK, Call
<1>11. NothingForgotten'
  <2> SUFFICES ASSUME NEW d \in Clients, NEW n \in 1 .. Len(sent[d]), NEW s \in Sinks,
                      Due(s, d, n)
               PROVE  Offered(s, <<d, n>>)' \/ OnItsWay(sent[d][n], s)'
    BY <1>1 DEF NothingForgotten, Due
  <2>1. Offered(s, <<d, n>>) \/ OnItsWay(sent[d][n], s)
    BY DEF Flow, NothingForgotten
  <2>2. /\ DOMAIN written[s] = 1 .. Len(written[s]) /\ DOMAIN written'[s] = 1 .. Len(written'[s])
    BY <1>6, <1>7, LenProperties
  <2>3. Offered(s, <<d, n>>) => Offered(s, <<d, n>>)'
    BY <1>7, <1>9, <2>2 DEF Offered
  <2>4. ASSUME NEW u \in Threads, pc[u] \in Policies, msg[u] = sent[d][n]
        PROVE  OnItsWay(sent[d][n], s)'
    BY <1>1, <2>4 DEF OnItsWay
  <2>5. ASSUME NEW i \in 1 .. Len(q), q[i] = sent[d][n]
        PROVE  OnItsWay(sent[d][n], s)'
    BY <1>1, <2>5 DEF OnItsWay
  <2>6. ASSUME NEW v \in Workers, wpc[v] = "sink_it", wmsg[v] = sent[d][n], wsink[v] <= s
        PROVE  Offered(s, <<d, n>>)' \/ OnItsWay(sent[d][n], s)'
    <3>1. CASE v # w
      BY <1>1, <1>3, <2>6, <3>1 DEF OnItsWay, SinkDone
    <3>2. CASE v = w /\ s = s0
      <4>1. call0 = <<d, n>> /\ should_log(s0, wmsg[w].level)
        BY <1>5, <2>6, <3>2 DEF Flow, SentOK, Call, Due
      <4>2. CASE written'[s0] = Append(written[s0], call0)
        <5>1. /\ Len(written'[s0]) = Len(written[s0]) + 1
              /\ written'[s0][Len(written[s0]) + 1] = call0
          BY <1>6, <4>2, AppendProperties
        <5>2. Len(written[s0]) + 1 \in 1 .. Len(written'[s0])
          BY <1>6, <5>1, SMT
        <5>3. QED
          BY <2>2, <3>2, <4>1, <5>1, <5>2 DEF Offered
      <4>3. CASE call0 \in failed'[s0]
        BY <3>2, <4>1, <4>3 DEF Offered
      <4>4. QED
        BY <1>7, <4>1, <4>2, <4>3
    <3>3. CASE v = w /\ s # s0
      <4>1. s > wsink[w]
        BY <1>5, <2>6, <3>3, SMT DEF Sinks
      <4>2. wpc'[w] = "sink_it" /\ wsink'[w] <= s
        BY <1>1, <1>3, <4>1 DEF SinkDone
      <4>3. wmsg'[w] = sent'[d][n]
        BY <1>1, <1>4, <2>6, <3>3, <4>2 DEF Busy
      <4>4. QED
        BY <4>2, <4>3 DEF OnItsWay
    <3>4. QED
      BY <3>1, <3>2, <3>3
  <2>7. QED
    BY <2>1, <2>3, <2>4, <2>5, <2>6 DEF OnItsWay
<1>12. WorkerInOrder'
  <2> SUFFICES ASSUME PoolThreads = {w}
               PROVE  /\ wpc'[w] \in Busy => \A j \in 1 .. Len(q) :
                            q[j].type # "terminate" => Before(Call(wmsg[w]), Call(q[j]))
                      /\ \A s \in Sinks : \A i \in 1 .. Len(written'[s]) :
                           /\ \A j \in 1 .. Len(written'[s]) :
                                 i < j => Before(written'[s][i], written'[s][j])
                           /\ \A j \in 1 .. Len(q) :
                                 q[j].type # "terminate" => Before(written'[s][i], Call(q[j]))
                           /\ wpc'[w] = "sink_it" /\ wsink'[w] <= s
                                 => Before(written'[s][i], Call(wmsg[w]))
    <3> HIDE DEF Inv
    <3>1. \A v \in Workers : PoolThreads' = {v} => v = w /\ PoolThreads = {w}
      BY <1>4
    <3>2. wpc'[w] \in Busy => wmsg'[w] = wmsg[w]
      BY <1>4
    <3>3. PoolThreads = {w} =>
             /\ wpc'[w] \in Busy => \A j \in 1 .. Len(q') :
                   q'[j].type # "terminate" => Before(Call(wmsg[w]), Call(q[j]))'
             /\ \A s \in Sinks : \A i \in 1 .. Len(written'[s]) :
                   /\ \A j \in 1 .. Len(written'[s]) :
                         i < j => Before(written[s][i], written[s][j])'
                   /\ \A j \in 1 .. Len(q') :
                         q'[j].type # "terminate" => Before(written[s][i], Call(q[j]))'
                   /\ wpc'[w] = "sink_it" /\ wsink'[w] <= s
                         => Before(written[s][i], Call(wmsg[w]))'
      BY <1>1, <3>2 DEF Before, Call, Busy
    <3>4. QED
      BY <3>1, <3>3 DEF WorkerInOrder
  <2>1. /\ \A j \in 1 .. Len(q) : q[j].type # "terminate" => Before(call0, Call(q[j]))
        /\ \A s \in Sinks : \A i \in 1 .. Len(written[s]) :
              /\ \A j \in 1 .. Len(written[s]) : i < j => Before(written[s][i], written[s][j])
              /\ \A j \in 1 .. Len(q) :
                    q[j].type # "terminate" => Before(written[s][i], Call(q[j]))
              /\ wsink[w] <= s => Before(written[s][i], call0)
    BY <1>1, <1>2, <1>5 DEF Flow, WorkerInOrder
  <2>2. ASSUME NEW s \in Sinks, NEW i \in 1 .. Len(written'[s]),
               NEW j \in 1 .. Len(written'[s]), i < j
        PROVE  Before(written'[s][i], written'[s][j])
    <3>1. i \in 1 .. Len(written[s]) /\ written'[s][i] = written[s][i]
      BY <1>6, <1>9, <2>2, SMT
    <3>2. CASE j \in 1 .. Len(written[s]) /\ written'[s][j] = written[s][j]
      BY <2>1, <2>2, <3>1, <3>2
    <3>3. CASE s = s0 /\ written'[s][j] = call0
      <4>1. wsink[w] <= s
        BY <1>5, <3>3, SMT DEF Sinks
      <4>2. QED
        BY <2>1, <3>1, <3>3, <4>1
    <3>4. QED
      BY <1>9, <3>2, <3>3
  <2>3. ASSUME NEW s \in Sinks, NEW i \in 1 .. Len(written'[s]),
               NEW j \in 1 .. Len(q), q[j].type # "terminate"
        PROVE  Before(written'[s][i], Call(q[j]))
    BY <1>9, <2>1, <2>3
  <2>4. ASSUME NEW s \in Sinks, NEW i \in 1 .. Len(written'[s]),
               wpc'[w] = "sink_it", wsink'[w] <= s
        PROVE  Before(written'[s][i], Call(wmsg[w]))
    <3>1. wsink'[w] = wsink[w] + 1
      BY <1>3, <2>4 DEF SinkDone
    <3>2. s # s0 /\ wsink[w] <= s
      BY <1>5, <2>4, <3>1, SMT DEF Sinks
    <3>3. QED
      BY <1>5, <1>7, <2>1, <3>2
  <2>5. QED
    BY <1>5, <2>1, <2>2, <2>3, <2>4
<1>13. FlushesCover'
  <2>1. \A s \in Sinks : flushed[s] \in Nat /\ flushed[s] <= Len(written[s])
    BY DEF Flow, FlushesCover, TypeOK, WorkersOK
  <2>2. ASSUME NEW s \in Sinks, NEW call \in flush_done[s], Covered(s, call)
        PROVE  Covered(s, call)'
    <3> SUFFICES ASSUME NEW n \in 1 .. call[2], Due(s, call[1], n),
                        <<call[1], n>> \notin failed'[s]
                 PROVE  \E i \in 1 .. flushed[s] : written'[s][i] = <<call[1], n>>
      BY <1>1 DEF Covered, Due
    <3>1. <<call[1], n>> \notin failed[s]
      BY <1>7
    <3>2. PICK i \in 1 .. flushed[s] : written[s][i] = <<call[1], n>>
      BY <2>2, <3>1 DEF Covered
    <3>3. i \in 1 .. Len(written[s])
      BY <1>6, <2>1, SMT
    <3>4. QED
      BY <1>9, <3>2, <3>3
  <2>3. \A s \in Sinks : flushed[s] <= Len(written'[s])
    <3> SUFFICES ASSUME NEW s \in Sinks PROVE flushed[s] <= Len(written'[s])
      OBVIOUS
    <3>1. Len(written'[s]) \in Nat
      BY <1>7, LenProperties
    <3>2. QED
      BY <1>6, <1>9, <2>1, <3>1, SMT
  <2>4. QED
    BY <1>1, <1>4, <2>2, <2>3 DEF Flow, FlushesCover
<1>14. QED
  BY <1>4, <1>8, <1>10, <1>11, <1>12, <1>13 DEF Flow

(* A sink flushes, or throws: with one worker, what its client logged      *)
(* before was offered to the sink by then.                                 *)
LEMMA FlushKeepsInv ==
    ASSUME Inv, NEW w \in Workers, backend_flush(w)
    PROVE  Inv'
<1> USE DEF Inv
<1>1. /\ UNCHANGED <<q, holders, pc, msg, terminates, pool, sent, refused, lost, dropped,
                     written, failed>>
      /\ wpc[w] = "flush" /\ NextSink(w)
      /\ \/ /\ flushed' = [flushed EXCEPT ![wsink[w]] = Len(written[wsink[w]])]
            /\ flush_done' = [flush_done EXCEPT ![wsink[w]] = @ \cup {Call(wmsg[w])}]
            /\ throws' = throws
         \/ throws' = throws + 1 /\ UNCHANGED <<flushed, flush_done>>
  BY DEF backend_flush, client_vars, Throws
<1>2. wpc[w] \in Busy
  BY <1>1 DEF Busy
<1>3. /\ wpc' \in [Workers -> Busy \cup {"absent", "dequeue", "stopped"}]
      /\ wmsg' \in [Workers -> Message] /\ wsink' \in [Workers -> Sinks]
      /\ SinkDone(w)
  BY <1>1, <1>2, NextSinkMoves
<1>4. /\ Life' /\ ClientsOK' /\ SentOK' /\ QueueInOrder'
      /\ PoolThreads' = PoolThreads /\ w \in PoolThreads
      /\ \A call : IsPosted(call) <=> IsPosted(call)'
      /\ \A v \in Workers : wpc'[v] \in Busy =>
            /\ wmsg'[v] = wmsg[v]
            /\ wmsg[v].type # "terminate" /\ IsPosted(Call(wmsg[v]))
  BY <1>1, <1>2, <1>3, WorkKeepsLife
<1>5. PICK s0 \in Sinks, call0 \in CallIds :
         /\ s0 = wsink[w] /\ call0 = Call(wmsg[w]) /\ IsPosted(call0)
  <2>1. IsPosted(Call(wmsg[w])) /\ wmsg[w] \in Message /\ wsink[w] \in Sinks
    BY <1>2 DEF Flow, PostedOK, TypeOK, WorkersOK
  <2>2. Call(wmsg[w]) \in CallIds
    BY <2>1 DEF IsPosted, Call, CallIds, Message
  <2>3. QED
    BY <2>1, <2>2
<1>6. \A s \in Sinks : /\ written[s] \in Seq(CallIds) /\ Len(written[s]) \in Nat
                       /\ DOMAIN written[s] = 1 .. Len(written[s])
                       /\ flushed[s] \in Nat /\ flushed[s] <= Len(written[s])
  BY LenProperties DEF TypeOK, WorkersOK, Flow, FlushesCover
<1>7. /\ flushed' \in [Sinks -> Nat] /\ flush_done' \in [Sinks -> SUBSET CallIds]
      /\ throws' \in Nat
      /\ \A s \in Sinks : \/ flushed'[s] = flushed[s] /\ flush_done'[s] = flush_done[s]
                          \/ /\ s = s0 /\ flushed'[s] = Len(written[s])
                             /\ flush_done'[s] = flush_done[s] \cup {call0}
  <2>1. /\ flushed \in [Sinks -> Nat] /\ flush_done \in [Sinks -> SUBSET CallIds]
        /\ throws \in Nat
    BY DEF TypeOK, WorkersOK
  <2>2. CASE /\ flushed' = [flushed EXCEPT ![s0] = Len(written[s0])]
             /\ flush_done' = [flush_done EXCEPT ![s0] = @ \cup {call0}]
             /\ throws' = throws
    <3>1. flush_done[s0] \cup {call0} \in SUBSET CallIds
      BY <2>1
    <3>2. QED
      BY <1>6, <2>1, <2>2, <3>1
  <2>3. CASE throws' = throws + 1 /\ UNCHANGED <<flushed, flush_done>>
    <3>1. throws' \in Nat
      BY <2>1, <2>3, SMT
    <3>2. QED
      BY <2>1, <2>3, <3>1
  <2>4. QED
    BY <1>1, <1>5, <2>2, <2>3
<1>8. TypeOK'
  BY <1>1, <1>3, <1>4, <1>7 DEF TypeOK, WorkersOK
<1>9. PostedOK'
  <2>1. \A s \in Sinks : \A call \in flush_done'[s] : IsPosted(call)'
    BY <1>4, <1>5, <1>7 DEF Flow, PostedOK
  <2>2. QED
    BY <1>1, <1>4, <2>1 DEF Flow, PostedOK, Call
<1>10. NothingForgotten'
  <2>1. \A s, c, n : Due(s, c, n)' = Due(s, c, n) /\ Offered(s, <<c, n>>)' = Offered(s, <<c, n>>)
    BY <1>1 DEF Due, Offered
  <2>2. \A m, s : OnItsWay(m, s) => OnItsWay(m, s)'
    BY <1>1, <1>3 DEF OnItsWay, SinkDone
  <2>3. QED
    BY <1>1, <2>1, <2>2 DEF Flow, NothingForgotten
<1>11. WorkerInOrder'
  <2>1. \A v \in Workers : PoolThreads' = {v} => v = w /\ PoolThreads = {w}
    BY <1>4
  <2>2. wpc'[w] # "sink_it" /\ (wpc'[w] \in Busy => wmsg'[w] = wmsg[w])
    BY <1>1, <1>3, <1>4 DEF SinkDone
  <2>3. PoolThreads = {w} =>
           /\ wpc'[w] \in Busy => \A j \in 1 .. Len(q') :
                 q'[j].type # "terminate" => Before(Call(wmsg[w]), Call(q[j]))'
           /\ \A s \in Sinks : \A i \in 1 .. Len(written'[s]) :
                 /\ \A j \in 1 .. Len(written'[s]) :
                       i < j => Before(written[s][i], written[s][j])'
                 /\ \A j \in 1 .. Len(q') :
                       q'[j].type # "terminate" => Before(written[s][i], Call(q[j]))'
    BY <1>1, <1>2, <2>2 DEF Before, Call, Flow, WorkerInOrder
  <2>4. QED
    BY <2>1, <2>2, <2>3 DEF WorkerInOrder
<1>12. ASSUME PoolThreads = {w}, NEW s \in Sinks, NEW n \in 1 .. call0[2],
              Due(s, call0[1], n), <<call0[1], n>> \notin failed[s]
       PROVE  \E i \in 1 .. Len(written[s]) : written[s][i] = <<call0[1], n>>
  <2>1. PICK c \in Clients : c = call0[1] /\ call0[2] \in 1 .. Posted(c)
    BY <1>5 DEF IsPosted
  <2>2. Len(sent[c]) \in Nat /\ call0[2] \in 1 .. Len(sent[c])
    BY <2>1, SentLength, SMT DEF Posted
  <2>3. n \in 1 .. Len(sent[c]) /\ n <= call0[2]
    BY <2>2, SMT
  <2>4. Call(sent[c][n]) = <<c, n>> /\ sent[c][n].type # "terminate"
    BY <2>3 DEF Flow, SentOK, Call
  <2>5. ASSUME NEW u \in Threads, pc[u] \in Policies, msg[u] = sent[c][n] PROVE FALSE
    <3>1. /\ u \in Clients /\ Len(sent[u]) > 0 /\ Len(sent[u]) \in Nat
          /\ msg[u] = sent[u][Len(sent[u])]
      BY <2>5, SentLength DEF Flow, SentOK
    <3>2. Len(sent[u]) \in 1 .. Len(sent[u])
      BY <3>1, SMT
    <3>3. Call(msg[u]) = <<u, Len(sent[u])>>
      BY <3>1, <3>2 DEF Flow, SentOK, Call
    <3>4. u = c /\ n = Len(sent[c])
      BY <2>4, <2>5, <3>3
    <3>5. Posted(c) = Len(sent[c]) - 1
      BY <2>5, <3>4 DEF Posted
    <3>6. QED
      BY <2>1, <2>2, <2>3, <3>4, <3>5, SMT
  <2>6. ASSUME NEW i \in 1 .. Len(q), q[i] = sent[c][n] PROVE FALSE
    <3>1. Before(call0, Call(q[i]))
      BY <1>2, <1>5, <1>12, <2>4, <2>6 DEF Flow, WorkerInOrder
    <3>2. call0[2] < n
      BY <2>1, <2>4, <2>6, <3>1 DEF Before
    <3>3. QED
      BY <2>2, <2>3, <3>2, SMT
  <2>7. ASSUME NEW v \in Workers, wpc[v] = "sink_it" PROVE FALSE
    <3>1. v \in PoolThreads
      BY <2>7 DEF PoolThreads
    <3>2. QED
      BY <1>1, <1>12, <2>7, <3>1
  <2>8. ~OnItsWay(sent[c][n], s)
    BY <2>5, <2>6, <2>7 DEF OnItsWay
  <2>9. Offered(s, <<c, n>>)
    BY <1>12, <2>1, <2>3, <2>8 DEF Flow, NothingForgotten
  <2>10. QED
    BY <1>6, <1>12, <2>1, <2>9 DEF Offered
<1>13. FlushesCover'
  <2>1. \A s \in Sinks : flushed[s] <= flushed'[s] /\ flushed'[s] <= Len(written[s])
    <3> SUFFICES ASSUME NEW s \in Sinks
                 PROVE  flushed[s] <= flushed'[s] /\ flushed'[s] <= Len(written[s])
      OBVIOUS
    <3>1. QED
      BY <1>6, <1>7, SMT
  <2>2. \A s, c, n : Due(s, c, n)' = Due(s, c, n)
    BY <1>1 DEF Due
  <2>3. ASSUME NEW s \in Sinks, NEW call \in flush_done[s], Covered(s, call)
        PROVE  Covered(s, call)'
    <3> SUFFICES ASSUME NEW n \in 1 .. call[2], Due(s, call[1], n),
                        <<call[1], n>> \notin failed[s]
                 PROVE  \E i \in 1 .. flushed'[s] : written[s][i] = <<call[1], n>>
      BY <1>1, <2>2 DEF Covered
    <3>1. PICK i \in 1 .. flushed[s] : written[s][i] = <<call[1], n>>
      BY <2>3 DEF Covered
    <3>2. i \in 1 .. flushed'[s]
      <4>1. flushed'[s] \in Nat /\ flushed[s] \in Nat /\ flushed[s] <= flushed'[s]
        BY <1>6, <1>7, <2>1
      <4>2. QED
        BY <4>1, SMT
    <3>3. QED
      BY <3>1, <3>2
  <2>4. ASSUME PoolThreads = {w}, NEW s \in Sinks, flushed'[s] = Len(written[s])
        PROVE  Covered(s, call0)'
    BY <1>1, <1>12, <2>2, <2>4 DEF Covered
  <2>5. ASSUME PoolThreads = {w}, NEW s \in Sinks, NEW call \in flush_done'[s]
        PROVE  Covered(s, call)'
    <3>1. CASE call \in flush_done[s]
      BY <2>3, <2>5, <3>1 DEF Flow, FlushesCover
    <3>2. CASE call \notin flush_done[s]
      BY <1>7, <2>4, <2>5, <3>2
    <3>3. QED
      BY <3>1, <3>2
  <2>6. \A v \in Workers : PoolThreads' = {v} => PoolThreads = {w}
    BY <1>4
  <2>7. \A s \in Sinks : flushed'[s] <= Len(written'[s])
    BY <1>1, <2>1
  <2>8. QED
    BY <2>5, <2>6, <2>7 DEF FlushesCover
<1>14. QED
  BY <1>4, <1>8, <1>9, <1>10, <1>11, <1>13 DEF Flow

-----------------------------------------------------------------------------
LEMMA InitInv == Init => Inv
<1> SUFFICES ASSUME Init PROVE Inv
  OBVIOUS
<1> USE DEF Init
<1>1. q = <<>> /\ q \in Seq(Message) /\ Len(q) = 0
  BY EmptySeq
<1>2. \A i \in 1 .. Len(q) : FALSE
  BY <1>1, SMT
<1>3. \A c \in Clients : sent[c] = <<>> /\ sent[c] \in Seq(Message) /\ Len(sent[c]) = 0
  BY EmptySeq
<1>4. \A s \in Sinks : written[s] = <<>> /\ written[s] \in Seq(CallIds) /\ Len(written[s]) = 0
  BY EmptySeq
<1>5. /\ \A t \in Threads : pc[t] = "idle" /\ pc[t] \notin Policies \cup {"release"} \cup Ending
      /\ \A w \in Workers : wpc[w] \in {"absent", "dequeue"} /\ wpc[w] \notin Busy
  BY PolicyPlaces DEF Ending, Policies, Busy
<1>6. TypeOK
  <2>1. 1 \in Sinks /\ 0 <= Capacity
    BY PoolAssumption, SMT DEF Sinks
  <2>2. NoMsg \in Message
    BY MainIsNoClient, SMT DEF NoMsg, Terminate, Message
  <2>3. ClientsOK
    <3>1. sent \in [Clients -> Seq(Message)] /\ msg \in [Threads -> Message]
      BY <1>3, <2>2
    <3>2. pc \in [Threads -> Policies \cup Ending \cup {"idle", "release"}]
      OBVIOUS
    <3>3. QED
      BY <1>1, <2>1, <3>1, <3>2, MainIsNoClient DEF ClientsOK
  <2>4. WorkersOK
    <3>1. written \in [Sinks -> Seq(CallIds)]
      BY <1>4
    <3>2. wpc \in [Workers -> Busy \cup {"absent", "dequeue", "stopped"}]
      OBVIOUS
    <3>3. QED
      BY <2>1, <2>2, <3>1, <3>2 DEF WorkersOK
  <2>5. QED
    BY <2>3, <2>4 DEF TypeOK
<1>7. Stopped = {} /\ PoolThreads # {}
  BY <1>5 DEF Stopped, PoolThreads
<1>8. Terms = {} /\ Terms = {i \in DOMAIN q : q[i].type = "terminate"}
  BY <1>1, <1>2, TermsFinite DEF Terms
<1>9. NoTerminateLost
  <2>1. Cardinality(Terms) = 0 /\ Cardinality(Stopped) = 0
    BY <1>7, <1>8, FS_EmptySet
  <2>2. QED
    BY <1>8, <2>1, SMT DEF NoTerminateLost
<1>10. Life
  <2>1. Lifetime
    BY <1>5, <1>7 DEF Lifetime
  <2>2. TerminatesLast
    BY <1>2, <1>7 DEF TerminatesLast
  <2>3. TerminatesCounted
    BY <1>5, <1>9 DEF TerminatesCounted
  <2>4. QED
    BY <2>1, <2>2, <2>3 DEF Life, AllStopped
<1>11. /\ \A c \in Clients : \A n \in 1 .. Len(sent[c]) : FALSE
       /\ \A s \in Sinks : \A i \in 1 .. Len(written[s]) : FALSE
  BY <1>3, <1>4, SMT
<1>12. SentOK /\ PostedOK /\ NothingForgotten
  BY <1>2, <1>5, <1>11 DEF SentOK, PostedOK, NothingForgotten
<1>13. QueueInOrder /\ WorkerInOrder
  BY <1>2, <1>5, <1>11 DEF QueueInOrder, WorkerInOrder
<1>14. FlushesCover
  <2>1. \A s \in Sinks : flushed[s] <= Len(written[s])
    BY <1>4, SMT
  <2>2. QED
    BY <2>1 DEF FlushesCover
<1>15. QED
  BY <1>6, <1>10, <1>12, <1>13, <1>14 DEF Inv, Flow

LEMMA StutterKeepsInv == ASSUME Inv, UNCHANGED vars PROVE Inv'
<1>1. UNCHANGED <<q, holders, pc, msg, terminates, pool, sent, refused, wpc, wmsg, wsink, written,
                  flushed, failed, flush_done, throws, lost, dropped>>
  BY DEF vars, client_vars, worker_vars
<1>2. Flow'
  BY <1>1, QuietFlow DEF Inv
<1>3. TypeOK'
  BY <1>1 DEF Inv, TypeOK, ClientsOK, WorkersOK
<1>4. Life'
  <2>1. PoolThreads' = PoolThreads /\ Stopped' = Stopped
    BY <1>1 DEF PoolThreads, Stopped
  <2>2. QED
    BY <1>1, <2>1 DEF Inv, Life, Lifetime, TerminatesLast, TerminatesCounted, NoTerminateLost,
                      AllStopped
<1>5. QED
  BY <1>2, <1>3, <1>4 DEF Inv

LEMMA NextKeepsInv == ASSUME Inv, [Next]_vars PROVE Inv'
<1>1. ASSUME NEW c \in Clients, NEW logger \in Loggers, NEW level \in Levels,
             LogCall(c, "log", level, logger)
      PROVE  Inv'
  <2>1. level \in Nat
    BY PoolAssumption
  <2>2. QED
    BY <1>1, <2>1, LogCallKeepsInv
<1>2. ASSUME NEW c \in Clients, NEW logger \in Loggers, LogCall(c, "flush", 0, logger)
      PROVE  Inv'
  BY <1>2, LogCallKeepsInv
<1>3. ASSUME NEW t \in Threads, CallStep(t) PROVE Inv'
  <2>1. CASE post_async_msg(t)
    BY <2>1, PostKeepsInv
  <2>2. CASE EndCall(t)
    <3>1. pc[t] = "release" /\ ReleasePool(t)
      BY <2>2 DEF EndCall
    <3>2. t \in holders /\ pc[t] \notin Policies
      BY <3>1, PolicyPlaces DEF Inv, Life, Lifetime
    <3>3. QED
      BY <3>1, <3>2, ReleaseKeepsInv
  <2>3. CASE PostTerminate(t)
    BY <2>3, PostTerminateKeepsInv
  <2>4. CASE JoinWorkers(t)
    BY <2>4, JoinKeepsInv
  <2>5. QED
    BY <1>3, <2>1, <2>2, <2>3, <2>4 DEF CallStep
<1>4. CASE ResetPool
  <2>1. Main \in Threads /\ pc[Main] \notin Policies
    BY MainIsNoClient DEF Inv, Flow, SentOK
  <2>2. QED
    BY <1>4, <2>1, ReleaseKeepsInv DEF ResetPool
<1>5. ASSUME NEW w \in Workers, WorkerStep(w) PROVE Inv'
  BY <1>5, ProcessKeepsInv, SinkItKeepsInv, FlushKeepsInv DEF WorkerStep
<1>6. CASE UNCHANGED vars
  BY <1>6, StutterKeepsInv
<1>7. QED
  BY <1>1, <1>2, <1>3, <1>4, <1>5, <1>6 DEF Next, Finished

LEMMA Invariance == Spec => []Inv
<1>1. Inv /\ [Next]_vars => Inv'
  BY NextKeepsInv
<1>2. QED
  BY <1>1, InitInv, PTL DEF Spec

(* The pool's variables keep their types: the queue never holds more than  *)
(* q_max_items messages, whatever the policies and the shutdown do.        *)
THEOREM TypeCorrect == Spec => []TypeOK
<1>1. Inv => TypeOK
  BY DEF Inv
<1>2. QED
  BY <1>1, Invariance, PTL

(* ~thread_pool cannot wait for ever in join because an overrun dropped a  *)
(* terminate message: every one it posted is in the queue or has stopped a *)
(* worker, for any mix of policies and any number of workers.              *)
THEOREM TerminatesKept == Spec => []NoTerminateLost
<1>1. Inv => NoTerminateLost
  BY DEF Inv, Life, TerminatesCounted
<1>2. QED
  BY <1>1, Invariance, PTL

(* When ~thread_pool has returned the queue is empty and each call's       *)
(* message was overrun, discarded or refused, or offered to every sink     *)
(* that logs its level, however often sinks threw.                         *)
THEOREM DestructionDrains == Spec => []DrainedOnDestruction
<1>1. Inv => DrainedOnDestruction
  <2> SUFFICES ASSUME Inv, pool = "gone"
               PROVE  /\ q = <<>>
                      /\ \A c \in Clients : \A n \in DOMAIN sent[c] :
                            \A s \in Sinks : Due(s, c, n) => Offered(s, <<c, n>>)
    BY DEF DrainedOnDestruction
  <2>1. q = <<>> /\ \A w \in Workers : wpc[w] # "sink_it"
    BY DEF Inv, Life, AllStopped
  <2>2. \A t \in Threads : pc[t] \notin Policies
    BY DEF Inv, Life, Lifetime
  <2>3. \A i \in 1 .. Len(q) : FALSE
    <3>1. Len(q) = 0
      BY <2>1, EmptySeq
    <3>2. QED
      BY <3>1, SMT
  <2>4. \A m, s : ~OnItsWay(m, s)
    BY <2>1, <2>2, <2>3 DEF OnItsWay
  <2>5. \A c \in Clients : DOMAIN sent[c] = 1 .. Len(sent[c])
    BY LenProperties DEF Inv, TypeOK, ClientsOK
  <2>6. QED
    BY <2>1, <2>4, <2>5 DEF Inv, Flow, NothingForgotten
<1>2. QED
  BY <1>1, Invariance, PTL

LEMMA OneWorker ==
    ASSUME Cardinality(PoolThreads) = 1
    PROVE  \E w \in Workers : PoolThreads = {w}
<1>1. \E w : PoolThreads = {w}
  BY StoppedFinite, FS_Singleton
<1>2. QED
  BY <1>1 DEF PoolThreads

(* With a pool of one thread every sink receives the messages of a client  *)
(* in the order of its calls, whatever was overrun or discarded.           *)
THEOREM OneWorkerKeepsOrder == Spec => []OrderPerClient
<1>1. Inv => OrderPerClient
  <2> SUFFICES ASSUME Inv, Cardinality(PoolThreads) = 1, NEW s \in Sinks,
                      NEW i \in DOMAIN written[s], NEW j \in DOMAIN written[s],
                      i < j, written[s][i][1] = written[s][j][1]
               PROVE  written[s][i][2] < written[s][j][2]
    BY DEF OrderPerClient
  <2>1. PICK w \in Workers : PoolThreads = {w}
    BY OneWorker
  <2>2. DOMAIN written[s] = 1 .. Len(written[s])
    BY LenProperties DEF Inv, TypeOK, WorkersOK
  <2>3. Before(written[s][i], written[s][j])
    BY <2>1, <2>2 DEF Inv, Flow, WorkerInOrder
  <2>4. QED
    BY <2>3 DEF Before
<1>2. QED
  BY <1>1, Invariance, PTL

(* With a pool of one thread a flush that a sink completed covers every    *)
(* earlier message of the client that asked for it, unless the sink threw  *)
(* on the message.                                                         *)
THEOREM FlushCovers == Spec => []FlushCoversEarlierCalls
<1>1. Inv => FlushCoversEarlierCalls
  BY OneWorker DEF FlushCoversEarlierCalls, Inv, Flow, FlushesCover, Covered
<1>2. QED
  BY <1>1, Invariance, PTL
=============================================================================
