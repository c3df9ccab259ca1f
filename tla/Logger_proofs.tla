--------------------------- MODULE Logger_proofs ---------------------------
(***************************************************************************)
(* The logger for any number of threads and messages: the backtrace keeps  *)
(* what it was given, the duplicate filter accounts for what it kept back, *)
(* and a tcp connection never goes on after a message torn by an error.    *)
(***************************************************************************)
EXTENDS Logger, SequenceTheorems, TLAPS

Texts == Payloads \cup {NoPayload, "start", "end"}

Message == [id : Nat, payload : Texts, level : 0 .. 6, time : Nat]

CallRecord == [pc  : {"idle", "log_", "sink", "flush", "trace", "foreach_pop", "pop_front"},
               msg : Message,
               in  : {"log", "dump_start", "dump_msg", "dump_end", "flush"},
               sink : {1, 2}, log_enabled : BOOLEAN, traceback_enabled : BOOLEAN]

TracerFifo == [cap : {DisabledCap, TraceSize}, items : Seq(Message), overruns : Nat]

(* The types of the logger's and the tracer's variables, of the filter's   *)
(* and of the tcp sink's.                                                  *)
TypeOK == /\ enabled \in BOOLEAN /\ messages \in TracerFifo
          /\ tracer_mutex \in Threads \cup {Nobody}
          /\ clock \in Nat /\ made \in Nat
          /\ call \in [Threads -> CallRecord]
DupOK == /\ dup \in [time : Nat, payload : Texts, skip : Nat, level : 0 .. 6]
         /\ duplicates \in Nat /\ reported \in Nat /\ sub_threw \in Nat
TcpOK == socket \in {Open, Closed}

(* A call on its way to the tracer.                                        *)
Traceable(c) == c.in = "log" /\ c.pc # "idle"

(* Where a call may be, and what it then holds.                            *)
LocalOK(c) ==
    /\ c.pc = "foreach_pop" => c.in \in {"dump_start", "dump_msg"}
    /\ c.pc \in {"log_", "trace"} => c.in = "log"
    /\ c.pc = "pop_front" => c.in = "dump_msg" /\ c.msg.id \in dumped
    /\ c.in = "dump_msg" => c.pc \in {"sink", "flush", "pop_front", "foreach_pop"}
    /\ c.in = "dump_msg" /\ c.pc # "foreach_pop" =>
          Len(messages.items) > 0 /\ c.msg = messages.items[1]
    /\ Traceable(c) => c.msg.id \in 1 .. made /\ c.msg.id \notin traced

(* The tracer's mutex is held by the dump in progress, and every message   *)
(* has an id of its own.                                                   *)
CallsOK ==
    /\ \A t \in Threads : LocalOK(call[t]) /\ (call[t].in = "dump_msg" <=> tracer_mutex = t)
    /\ \A t, u \in Threads :
          t # u /\ Traceable(call[t]) /\ Traceable(call[u]) => call[t].msg.id # call[u].msg.id
ItemsOK ==
    /\ \A i, j \in 1 .. Len(messages.items) :
          messages.items[i].id = messages.items[j].id => i = j
    /\ traced \subseteq 1 .. made

(* The inductive invariant.                                                *)
Kept == CallsOK /\ ItemsOK /\ BacktraceKept
Inv == TypeOK /\ Kept
-----------------------------------------------------------------------------
LEMMA IdsPlaces ==
    ASSUME NEW s \in Seq(Message)
    PROVE  \A x : x \in Ids(s) <=> \E i \in 1 .. Len(s) : x = s[i].id
<1>1. DOMAIN s = 1 .. Len(s)
  BY LenProperties
<1>2. QED
  BY <1>1 DEF Ids, Range

LEMMA BecomeMoves ==
    ASSUME TypeOK, NEW t \in Threads, NEW c \in CallRecord, Become(t, c)
    PROVE  /\ call' \in [Threads -> CallRecord] /\ call'[t] = c
           /\ \A u \in Threads : u # t => call'[u] = call[u]
BY DEF TypeOK, Become

(* A thread goes on without touching the tracer's messages.                *)
LEMMA MoveKeepsKept ==
    ASSUME Inv, NEW t \in Threads, NEW c \in CallRecord, Become(t, c),
           messages' = messages, erased' = erased, traced' = traced, dumped' = dumped,
           made' = made \/ made' = made + 1,
           call[t].pc # "pop_front", c.pc # "pop_front",
           c.pc = "foreach_pop" => c.in \in {"dump_start", "dump_msg"},
           c.pc \in {"log_", "trace"} => c.in = "log",
           c.in = "dump_msg" => c.pc \in {"sink", "flush", "foreach_pop"},
           c.in = "dump_msg" /\ c.pc # "foreach_pop" =>
               Len(messages.items) > 0 /\ c.msg = messages.items[1],
           c.in = "dump_msg" <=> tracer_mutex' = t,
           \A u \in Threads : u # t => (tracer_mutex' = u <=> tracer_mutex = u),
           Traceable(c) => \/ Traceable(call[t]) /\ c.msg = call[t].msg
                           \/ c.msg.id = made + 1 /\ made' = made + 1
    PROVE  Kept'
<1> USE DEF Inv
<1>1. /\ call' \in [Threads -> CallRecord] /\ call'[t] = c
      /\ \A u \in Threads : u # t => call'[u] = call[u]
  BY BecomeMoves
<1>2. made \in Nat /\ \A x \in 1 .. made : x \in 1 .. made' /\ x # made + 1
  BY SMT DEF TypeOK
<1>3. made + 1 \notin traced /\ (made' = made + 1 => made + 1 \in 1 .. made')
  BY <1>2, SMT DEF Kept, ItemsOK
<1>4. LocalOK(c)'
  <2>1. c.pc = "pop_front" => c.in = "dump_msg" /\ c.msg.id \in dumped'
    OBVIOUS
  <2>2. Traceable(c) => c.msg.id \in 1 .. made' /\ c.msg.id \notin traced'
    BY <1>2, <1>3 DEF Kept, CallsOK, LocalOK
  <2>3. QED
    BY <2>1, <2>2 DEF LocalOK, Traceable
<1>5. ASSUME NEW u \in Threads, u # t PROVE LocalOK(call[u])'
  <2>1. LocalOK(call[u]) /\ call'[u] = call[u]
    BY <1>1, <1>5 DEF Kept, CallsOK
  <2>2. QED
    BY <1>2, <2>1 DEF LocalOK, Traceable
<1>6. \A u, v \in Threads : u # v /\ Traceable(call'[u]) /\ Traceable(call'[v])
         => call'[u].msg.id # call'[v].msg.id
  <2>1. \A u \in Threads : u # t /\ Traceable(call[u]) /\ Traceable(c) => call[u].msg.id # c.msg.id
    BY <1>2 DEF Kept, CallsOK, LocalOK
  <2>2. QED
    BY <1>1, <2>1 DEF Kept, CallsOK
<1>7. CallsOK'
  <2>1. LocalOK(call[t])'
    BY <1>1, <1>4 DEF LocalOK, Traceable
  <2>2. \A u \in Threads : LocalOK(call[u])' /\ (call'[u].in = "dump_msg" <=> tracer_mutex' = u)
    BY <1>1, <1>5, <2>1 DEF Kept, CallsOK
  <2>3. QED
    BY <1>6, <2>2 DEF CallsOK, Traceable
<1>8. ItemsOK'
  BY <1>2 DEF Kept, ItemsOK
<1>9. Held' = Held
  BY <1>1 DEF Held, At
<1>10. BacktraceKept'
  BY <1>9 DEF Kept, BacktraceKept
<1>11. QED
  BY <1>7, <1>8, <1>10 DEF Kept

LEMMA CallTypes ==
    NoMsg \in Message /\ Idle \in CallRecord /\ Idle.in = "log" /\ Idle.pc = "idle"
<1>1. NoMsg \in Message
  BY SMT DEF NoMsg, Message, Texts
<1>2. Idle \in CallRecord /\ Idle.in = "log" /\ Idle.pc = "idle"
  BY <1>1 DEF Idle, CallRecord
<1>3. QED
  BY <1>1, <1>2

LEMMA NewMsgType ==
    ASSUME TypeOK, NEW text \in Texts, NEW lvl \in 0 .. 6
    PROVE  NewMsg(text, lvl) \in Message /\ NewMsg(text, lvl).id = made + 1
BY SMT DEF NewMsg, Message, TypeOK

LEMMA LevelTypes == Info \in 0 .. 6 /\ Levels \subseteq 0 .. 6
BY LoggerAssumption, SMT DEF Info

LEMMA TypesAfterMove ==
    ASSUME TypeOK, NEW t \in Threads, NEW c \in CallRecord, Become(t, c),
           enabled' = enabled, messages' = messages, clock' = clock,
           tracer_mutex' \in {tracer_mutex, t, Nobody}, made' = made \/ made' = made + 1
    PROVE  TypeOK'
<1>1. call' \in [Threads -> CallRecord]
  BY BecomeMoves
<1>2. made' \in Nat
  BY SMT DEF TypeOK
<1>3. QED
  BY <1>1, <1>2 DEF TypeOK

LEMMA LogKeeps ==
    ASSUME Inv, NEW t \in Threads, NEW payload \in Payloads, NEW lvl \in Levels,
           log(t, payload, lvl)
    PROVE  Inv'
<1> DEFINE c == [Idle EXCEPT !.pc = "log_", !.msg = NewMsg(payload, lvl),
                             !.log_enabled = lvl >= level]
<1>1. /\ At(t, "idle") /\ Become(t, c) /\ made' = made + 1
      /\ UNCHANGED <<level, clock, changes, enabled, messages, tracer_mutex, erased, traced, dumped>>
  BY DEF log, config_vars, tracer_vars
<1>2. /\ NewMsg(payload, lvl) \in Message /\ NewMsg(payload, lvl).id = made + 1
  BY NewMsgType, LevelTypes DEF Inv, Texts
<1>3. (lvl >= level) \in BOOLEAN
  OBVIOUS
<1>4. /\ c \in CallRecord /\ c.pc = "log_" /\ c.in = "log" /\ c.msg.id = made + 1
  BY <1>2, <1>3, CallTypes DEF CallRecord
<1>5. HIDE DEF c
<1>6. Kept'
  BY <1>1, <1>4, MoveKeepsKept DEF At, Kept, CallsOK, LocalOK, Inv
<1>7. TypeOK'
  BY <1>1, <1>4, TypesAfterMove DEF Inv
<1>8. QED
  BY <1>6, <1>7 DEF Inv

LEMMA Log_Keeps ==
    ASSUME Inv, NEW t \in Threads, log_(t)
    PROVE  Inv'
<1> DEFINE next == IF call[t].log_enabled THEN "sink" ELSE "trace"
<1> DEFINE c == [call[t] EXCEPT !.traceback_enabled = enabled, !.pc = next]
<1>1. /\ Become(t, c) \/ Become(t, Idle)
      /\ UNCHANGED <<level, clock, changes, enabled, messages, tracer_mutex, erased, traced, dumped,
                     made>>
  BY DEF log_, config_vars, tracer_vars, At
<1>2. /\ call[t] \in CallRecord /\ enabled \in BOOLEAN /\ call[t].pc = "log_" /\ call[t].in = "log"
      /\ tracer_mutex # t
  BY DEF Inv, TypeOK, Kept, CallsOK, LocalOK, log_, At
<1>3. next \in {"sink", "trace"}
  OBVIOUS
<1>4. /\ c \in CallRecord /\ c.pc \in {"sink", "trace"} /\ c.in = "log"
      /\ c.msg = call[t].msg
  <2> HIDE DEF next
  <2>1. QED
    BY <1>2, <1>3 DEF CallRecord
<1>5. HIDE DEF c
<1>6. CASE Become(t, c)
  <2>1. Kept'
    BY <1>1, <1>2, <1>4, <1>6, MoveKeepsKept DEF Traceable
  <2>2. TypeOK'
    BY <1>1, <1>4, <1>6, TypesAfterMove DEF Inv
  <2>3. QED
    BY <2>1, <2>2 DEF Inv
<1>7. CASE Become(t, Idle)
  <2>1. Kept'
    BY <1>1, <1>2, <1>7, CallTypes, MoveKeepsKept DEF Traceable
  <2>2. TypeOK'
    BY <1>1, <1>7, CallTypes, TypesAfterMove DEF Inv
  <2>3. QED
    BY <2>1, <2>2 DEF Inv
<1>8. QED
  BY <1>1, <1>6, <1>7

LEMMA FlushCallKeeps ==
    ASSUME Inv, NEW t \in Threads, flush(t)
    PROVE  Inv'
<1> DEFINE c == [Idle EXCEPT !.pc = "flush", !.in = "flush"]
<1>1. /\ call[t].pc = "idle" /\ Become(t, c)
      /\ UNCHANGED <<clock, enabled, messages, tracer_mutex, erased, traced, dumped, made>>
  BY DEF flush, tracer_vars, At
<1>2. c \in CallRecord /\ c.pc = "flush" /\ c.in = "flush" /\ tracer_mutex # t
  BY <1>1, CallTypes DEF CallRecord, Inv, Kept, CallsOK, LocalOK
<1>3. HIDE DEF c
<1>4. Kept'
  BY <1>1, <1>2, MoveKeepsKept DEF Traceable
<1>5. TypeOK'
  BY <1>1, <1>2, TypesAfterMove DEF Inv
<1>6. QED
  BY <1>4, <1>5 DEF Inv

LEMMA DumpKeeps ==
    ASSUME Inv, NEW t \in Threads, dump_backtrace_(t)
    PROVE  Inv'
<1> DEFINE c == [Idle EXCEPT !.pc = "sink", !.in = "dump_start", !.msg = NewMsg("start", Info)]
<1>1. /\ call[t].pc = "idle" /\ Become(t, c) /\ made' = made + 1
      /\ UNCHANGED <<clock, enabled, messages, tracer_mutex, erased, traced, dumped>>
  BY DEF dump_backtrace_, tracer_vars, config_vars, At
<1>2. NewMsg("start", Info) \in Message
  BY NewMsgType, LevelTypes DEF Inv, Texts
<1>3. c \in CallRecord /\ c.pc = "sink" /\ c.in = "dump_start" /\ tracer_mutex # t
  BY <1>1, <1>2, CallTypes DEF CallRecord, Inv, Kept, CallsOK, LocalOK
<1>4. HIDE DEF c
<1>5. Kept'
  BY <1>1, <1>3, MoveKeepsKept DEF Traceable
<1>6. TypeOK'
  BY <1>1, <1>3, TypesAfterMove DEF Inv
<1>7. QED
  BY <1>5, <1>6 DEF Inv

(* The next message of a dump, which takes the mutex with the first one,   *)
(* or the marker after the last.                                           *)
LEMMA ForeachPopKeeps ==
    ASSUME Inv, NEW t \in Threads, foreach_pop(t)
    PROVE  Inv'
<1> DEFINE last == [Idle EXCEPT !.pc = "sink", !.in = "dump_end", !.msg = NewMsg("end", Info)]
<1> DEFINE next == [Idle EXCEPT !.pc = "sink", !.in = "dump_msg", !.msg = Head(messages.items)]
<1>1. /\ call[t].pc = "foreach_pop" /\ tracer_mutex \in {Nobody, t}
      /\ \/ /\ messages.items = <<>> /\ tracer_mutex' = Nobody /\ Become(t, last)
         \/ /\ messages.items # <<>> /\ tracer_mutex' = t /\ Become(t, next)
      /\ UNCHANGED <<clock, enabled, messages, erased, traced, dumped, made>>
  BY DEF foreach_pop, config_vars, At
<1>2. Nobody \notin Threads
  BY LoggerAssumption
<1>3. messages.items \in Seq(Message)
  BY DEF Inv, TypeOK, TracerFifo
<1>4. CASE messages.items = <<>> /\ tracer_mutex' = Nobody /\ Become(t, last)
  <2>1. NewMsg("end", Info) \in Message
    BY NewMsgType, LevelTypes DEF Inv, Texts
  <2>2. last \in CallRecord /\ last.pc = "sink" /\ last.in = "dump_end"
    BY <2>1, CallTypes DEF CallRecord
  <2>3. HIDE DEF last
  <2>4. Kept'
    BY <1>1, <1>2, <1>4, <2>2, MoveKeepsKept DEF Traceable
  <2>5. TypeOK'
    BY <1>1, <1>4, <2>2, TypesAfterMove DEF Inv
  <2>6. QED
    BY <2>4, <2>5 DEF Inv
<1>5. CASE messages.items # <<>> /\ tracer_mutex' = t /\ Become(t, next)
  <2>1. /\ Len(messages.items) > 0 /\ Head(messages.items) = messages.items[1]
        /\ messages.items[1] \in Message
    <3>1. Len(messages.items) \in Nat /\ Len(messages.items) # 0
      BY <1>3, <1>5, LenProperties, EmptySeq
    <3>2. 1 \in 1 .. Len(messages.items)
      BY <3>1, SMT
    <3>3. QED
      BY <1>3, <3>1, <3>2, ElementOfSeq, SMT
  <2>2. next \in CallRecord /\ next.pc = "sink" /\ next.in = "dump_msg" /\ next.msg = messages.items[1]
    BY <2>1, CallTypes DEF CallRecord
  <2>3. HIDE DEF next
  <2>4. Kept'
    BY <1>1, <1>2, <1>5, <2>1, <2>2, MoveKeepsKept DEF Traceable
  <2>5. TypeOK'
    BY <1>1, <1>5, <2>2, TypesAfterMove DEF Inv
  <2>6. QED
    BY <2>4, <2>5 DEF Inv
<1>6. QED
  BY <1>1, <1>4, <1>5

LEMMA AfterLoopPlaces ==
    ASSUME NEW c \in CallRecord, c.pc \in {"sink", "flush"}
    PROVE  /\ c.in = "log" => AfterLoop(c) \in {"flush", "trace", "idle"}
           /\ c.in = "dump_start" => AfterLoop(c) \in {"flush", "foreach_pop"}
           /\ c.in = "dump_msg" => AfterLoop(c) \in {"flush", "pop_front"}
           /\ c.in \in {"dump_end", "flush"} => AfterLoop(c) \in {"flush", "idle"}
<1>1. c.in \in {"log", "dump_start", "dump_msg", "dump_end", "flush"}
  BY DEF CallRecord
<1>2. /\ c.in = "log" => AfterSinkIt(c) \in {"trace", "idle"}
      /\ c.in = "dump_start" => AfterSinkIt(c) = "foreach_pop"
      /\ c.in = "dump_msg" => AfterSinkIt(c) = "pop_front"
      /\ c.in \in {"dump_end", "flush"} => AfterSinkIt(c) = "idle"
  BY DEF AfterSinkIt
<1>3. AfterLoop(c) \in {"flush", AfterSinkIt(c)}
  BY DEF AfterLoop
<1>4. QED
  BY <1>2, <1>3

(* A message has gone through the sinks: it is shown, and still held.      *)
LEMMA ShownKeepsKept ==
    ASSUME Inv, NEW t \in Threads, NEW c \in CallRecord, Become(t, c),
           messages' = messages, erased' = erased, traced' = traced, made' = made,
           tracer_mutex' = tracer_mutex, dumped' = dumped \cup {c.msg.id},
           call[t].in = "dump_msg", call[t].pc \in {"sink", "flush"},
           c.in = "dump_msg", c.pc = "pop_front", c.msg = call[t].msg
    PROVE  Kept'
<1> USE DEF Inv
<1>1. /\ call' \in [Threads -> CallRecord] /\ call'[t] = c
      /\ \A u \in Threads : u # t => call'[u] = call[u]
  BY BecomeMoves
<1>2. Len(messages.items) > 0 /\ c.msg = messages.items[1]
  BY DEF Kept, CallsOK, LocalOK
<1>3. LocalOK(call[t])'
  BY <1>1, <1>2 DEF LocalOK, Traceable
<1>4. ASSUME NEW u \in Threads, u # t PROVE LocalOK(call[u])'
  <2>1. LocalOK(call[u]) /\ call'[u] = call[u]
    BY <1>1, <1>4 DEF Kept, CallsOK
  <2>2. QED
    BY <2>1 DEF LocalOK, Traceable
<1>5. CallsOK'
  <2>1. \A u \in Threads : LocalOK(call[u])' /\ (call'[u].in = "dump_msg" <=> tracer_mutex' = u)
    BY <1>1, <1>3, <1>4 DEF Kept, CallsOK
  <2>2. ~Traceable(call'[t])
    BY <1>1 DEF Traceable
  <2>3. QED
    BY <1>1, <2>1, <2>2 DEF Kept, CallsOK, Traceable
<1>6. ItemsOK'
  BY DEF Kept, ItemsOK
<1>7. Held' = Held \cup {c.msg.id}
  BY <1>1 DEF Held, At
<1>8. c.msg.id \in Ids(messages.items)
  <2>1. messages.items \in Seq(Message)
    BY DEF TypeOK, TracerFifo
  <2>2. Len(messages.items) \in Nat
    BY <2>1, LenProperties
  <2>3. 1 \in 1 .. Len(messages.items)
    BY <1>2, <2>2, SMT
  <2>4. QED
    BY <1>2, <2>1, <2>3, IdsPlaces
<1>9. BacktraceKept'
  BY <1>7, <1>8 DEF Kept, BacktraceKept
<1>10. QED
  BY <1>5, <1>6, <1>9 DEF Kept

LEMMA LoopStepKeeps ==
    ASSUME Inv, NEW t \in Threads, call[t].pc \in {"sink", "flush"}, NEW outcome,
           LoopStep(t, outcome)
    PROVE  Inv'
<1> USE DEF Inv
<1>1. UNCHANGED <<clock, enabled, messages, erased, traced, made>>
  BY DEF LoopStep, config_vars
<1>2. /\ call[t] \in CallRecord /\ call[t].sink \in {1, 2} /\ Nobody \notin Threads
      /\ call[t].in = "dump_msg" <=> tracer_mutex = t
      /\ LocalOK(call[t])
  BY LoggerAssumption DEF TypeOK, CallRecord, Kept, CallsOK
<1>3. CASE outcome = "unknown"
  <2>1. /\ Become(t, Idle) /\ dumped' = dumped
        /\ tracer_mutex' = IF tracer_mutex = t THEN Nobody ELSE tracer_mutex
    BY <1>3 DEF LoopStep
  <2>2. Kept'
    BY <1>1, <1>2, <2>1, CallTypes, MoveKeepsKept DEF Traceable
  <2>3. TypeOK'
    BY <1>1, <2>1, CallTypes, TypesAfterMove
  <2>4. QED
    BY <2>2, <2>3
<1>4. CASE outcome # "unknown" /\ call[t].sink < Len(Sinks)
  <2> DEFINE c == [call[t] EXCEPT !.sink = @ + 1]
  <2>1. Become(t, c) /\ dumped' = dumped /\ tracer_mutex' = tracer_mutex
    BY <1>4 DEF LoopStep
  <2>2. call[t].sink + 1 \in {1, 2}
    BY <1>2, <1>4, SMT DEF Sinks
  <2>3. c \in CallRecord /\ c.pc = call[t].pc /\ c.in = call[t].in /\ c.msg = call[t].msg
    BY <1>2, <2>2 DEF CallRecord
  <2>4. HIDE DEF c
  <2>5. Kept'
    BY <1>1, <1>2, <2>1, <2>3, MoveKeepsKept DEF Traceable, LocalOK
  <2>6. TypeOK'
    BY <1>1, <2>1, <2>3, TypesAfterMove
  <2>7. QED
    BY <2>5, <2>6
<1>5. CASE outcome # "unknown" /\ ~(call[t].sink < Len(Sinks))
  <2> DEFINE next == AfterLoop(call[t])
  <2> DEFINE c == [call[t] EXCEPT !.pc = next, !.sink = 1]
  <2>1. /\ Become(t, IF next = "idle" THEN Idle ELSE c)
        /\ dumped' = IF next = "pop_front" THEN dumped \cup {call[t].msg.id} ELSE dumped
        /\ tracer_mutex' = tracer_mutex
    BY <1>5 DEF LoopStep, Goto
  <2>2. /\ call[t].in = "log" => next \in {"flush", "trace", "idle"}
        /\ call[t].in = "dump_start" => next \in {"flush", "foreach_pop"}
        /\ call[t].in = "dump_msg" => next \in {"flush", "pop_front"}
        /\ call[t].in \in {"dump_end", "flush"} => next \in {"flush", "idle"}
    BY <1>2, AfterLoopPlaces
  <2>3. HIDE DEF next
  <2>4. next \in {"flush", "trace", "idle", "foreach_pop", "pop_front"}
    BY <1>2, <2>2 DEF CallRecord
  <2>5. c \in CallRecord /\ c.pc = next /\ c.in = call[t].in /\ c.msg = call[t].msg
    BY <1>2, <2>4 DEF CallRecord
  <2>6. HIDE DEF c
  <2>7. CASE next = "idle"
    <3>1. Become(t, Idle) /\ dumped' = dumped /\ call[t].in # "dump_msg"
      BY <2>1, <2>2, <2>7
    <3>2. Kept'
      BY <1>1, <1>2, <2>1, <3>1, CallTypes, MoveKeepsKept DEF Traceable
    <3>3. TypeOK'
      BY <1>1, <2>1, <3>1, CallTypes, TypesAfterMove
    <3>4. QED
      BY <3>2, <3>3
  <2>8. CASE next = "pop_front"
    <3>1. Become(t, c) /\ dumped' = dumped \cup {c.msg.id} /\ call[t].in = "dump_msg"
      BY <1>2, <2>1, <2>2, <2>5, <2>8 DEF CallRecord
    <3>2. Kept'
      BY <1>1, <2>1, <2>5, <2>8, <3>1, ShownKeepsKept
    <3>3. TypeOK'
      BY <1>1, <2>1, <2>5, <3>1, TypesAfterMove
    <3>4. QED
      BY <3>2, <3>3
  <2>9. CASE next \in {"flush", "trace", "foreach_pop"}
    <3>1. Become(t, c) /\ dumped' = dumped
      BY <2>1, <2>9
    <3>2. /\ c.pc = "foreach_pop" => c.in \in {"dump_start", "dump_msg"}
          /\ c.pc \in {"log_", "trace"} => c.in = "log"
          /\ c.in = "dump_msg" => c.pc = "flush"
      BY <1>2, <2>2, <2>5, <2>9 DEF CallRecord
    <3>3. Kept'
      BY <1>1, <1>2, <2>1, <2>5, <2>9, <3>1, <3>2, MoveKeepsKept DEF Traceable, LocalOK
    <3>4. TypeOK'
      BY <1>1, <2>1, <2>5, <3>1, TypesAfterMove
    <3>5. QED
      BY <3>3, <3>4
  <2>10. QED
    BY <2>4, <2>7, <2>8, <2>9
<1>6. QED
  BY <1>3, <1>4, <1>5

(* What a push leaves in the tracer: old messages from the k-th on, then   *)
(* perhaps the new one.                                                    *)
LEMMA PushedPlaces ==
    ASSUME NEW f \in TracerFifo, NEW m \in Message, NEW g, g = Pushed(f, m)
    PROVE  /\ g \in TracerFifo
           /\ \E k \in {0, 1} : \A i \in 1 .. Len(g.items) :
                 \/ i + k \in 1 .. Len(f.items) /\ g.items[i] = f.items[i + k]
                 \/ i = Len(g.items) /\ g.items[i] = m
<1>1. /\ f.items \in Seq(Message) /\ Len(f.items) \in Nat /\ f.overruns \in Nat
      /\ f.cap \in {DisabledCap, TraceSize}
  BY LenProperties DEF TracerFifo
<1>2. PICK a : a = Append(f.items, m)
  OBVIOUS
<1>3. /\ a \in Seq(Message) /\ Len(a) = Len(f.items) + 1 /\ a[Len(f.items) + 1] = m
      /\ \A i \in 1 .. Len(f.items) : a[i] = f.items[i]
  BY <1>1, <1>2, AppendProperties
<1>4. CASE f.cap = DisabledCap
  <2>1. g = f
    BY <1>4 DEF Pushed
  <2>2. \A i \in 1 .. Len(g.items) : i + 0 \in 1 .. Len(f.items) /\ g.items[i] = f.items[i + 0]
    BY <1>1, <2>1, SMT
  <2>3. QED
    BY <2>1, <2>2
<1>5. CASE f.cap # DisabledCap /\ HasRoom(f.items, f.cap)
  <2>1. g.items = a /\ g.cap = f.cap /\ g.overruns = f.overruns + 0
        /\ g = [cap |-> f.cap, items |-> a, overruns |-> f.overruns + 0]
    BY <1>2, <1>5 DEF Pushed, PushItems, PushLoses
  <2>2. g \in TracerFifo
    BY <1>1, <1>3, <2>1, SMT DEF TracerFifo
  <2>3. \A i \in 1 .. Len(a) : \/ i + 0 \in 1 .. Len(f.items) /\ a[i] = f.items[i + 0]
                               \/ i = Len(a) /\ a[i] = m
    BY <1>1, <1>3, SMT
  <2>4. QED
    BY <2>1, <2>2, <2>3
<1>6. CASE f.cap # DisabledCap /\ ~HasRoom(f.items, f.cap)
  <2>1. PICK b : b = Tail(a)
    OBVIOUS
  <2>2. g = [cap |-> f.cap, items |-> b, overruns |-> f.overruns + 1]
    BY <1>2, <1>6, <2>1 DEF Pushed, PushItems, PushLoses
  <2>3. a # <<>>
    BY <1>1, <1>3, EmptySeq, SMT
  <2>4. b \in Seq(Message) /\ Len(b) = Len(a) - 1 /\ \A i \in 1 .. Len(b) : b[i] = a[i + 1]
    BY <1>3, <2>1, <2>3, HeadTailProperties
  <2>5. g \in TracerFifo
    BY <1>1, <2>2, <2>4, SMT DEF TracerFifo
  <2>6. \A i \in 1 .. Len(b) : \/ i + 1 \in 1 .. Len(f.items) /\ b[i] = f.items[i + 1]
                               \/ i = Len(b) /\ b[i] = m
    <3> SUFFICES ASSUME NEW i \in 1 .. Len(b)
                 PROVE  \/ i + 1 \in 1 .. Len(f.items) /\ b[i] = f.items[i + 1]
                        \/ i = Len(b) /\ b[i] = m
      OBVIOUS
    <3>1. Len(b) = Len(f.items)
      BY <1>1, <1>3, <2>4, SMT
    <3>2. i + 1 \in 1 .. Len(f.items) \/ i = Len(f.items)
      BY <1>1, <3>1, SMT
    <3>3. b[i] = a[i + 1]
      BY <2>4
    <3>4. QED
      BY <1>3, <3>1, <3>2, <3>3
  <2>7. QED
    BY <2>2, <2>5, <2>6
<1>7. QED
  BY <1>4, <1>5, <1>6

LEMMA TraceKeeps ==
    ASSUME Inv, NEW t \in Threads, trace(t)
    PROVE  Inv'
<1> USE DEF Inv
<1>1. /\ call[t].pc = "trace" /\ tracer_mutex = Nobody /\ messages' = Pushed(messages, call[t].msg)
      /\ traced' = traced \cup {call[t].msg.id}
      /\ erased' = erased \cup (({call[t].msg.id} \cup Ids(messages.items)) \ Ids(messages'.items))
      /\ Become(t, Idle)
      /\ UNCHANGED <<clock, enabled, tracer_mutex, made, dumped>>
  BY DEF trace, Goto, config_vars, At
<1>2. /\ call' \in [Threads -> CallRecord] /\ call'[t] = Idle
      /\ \A u \in Threads : u # t => call'[u] = call[u]
  BY <1>1, CallTypes, BecomeMoves
<1>3. PICK m : m = call[t].msg
  OBVIOUS
<1>4. /\ m \in Message /\ m.id \in 1 .. made /\ m.id \notin traced /\ call[t].in = "log"
      /\ Traceable(call[t])
  BY <1>1, <1>3 DEF TypeOK, CallRecord, Kept, CallsOK, LocalOK, Traceable
<1>5. \A u \in Threads : call[u].in # "dump_msg"
  BY <1>1, LoggerAssumption DEF Kept, CallsOK
<1>6. PICK k \in {0, 1} : \A i \in 1 .. Len(messages'.items) :
         \/ i + k \in 1 .. Len(messages.items) /\ messages'.items[i] = messages.items[i + k]
         \/ i = Len(messages'.items) /\ messages'.items[i] = m
  BY <1>1, <1>3, <1>4, PushedPlaces DEF TypeOK
<1>7. messages' \in TracerFifo /\ messages'.items \in Seq(Message) /\ messages.items \in Seq(Message)
      /\ Len(messages.items) \in Nat /\ Len(messages'.items) \in Nat
  <2>1. messages' \in TracerFifo
    BY <1>1, <1>3, <1>4, PushedPlaces DEF TypeOK
  <2>2. QED
    BY <2>1, LenProperties DEF TypeOK, TracerFifo
<1>8. Ids(messages.items) \subseteq traced /\ dumped \subseteq traced
  BY DEF Kept, BacktraceKept
<1>9. \A i \in 1 .. Len(messages.items) : messages.items[i].id # m.id
  BY <1>4, <1>7, <1>8, IdsPlaces
<1>10. Ids(messages'.items) \subseteq Ids(messages.items) \cup {m.id}
  BY <1>6, <1>7, IdsPlaces
<1>11. TypeOK'
  BY <1>1, <1>2, <1>7 DEF TypeOK
<1>12. ItemsOK'
  <2>1. ASSUME NEW i \in 1 .. Len(messages'.items), NEW j \in 1 .. Len(messages'.items),
               messages'.items[i].id = messages'.items[j].id
        PROVE  i = j
    <3>1. CASE /\ i + k \in 1 .. Len(messages.items) /\ messages'.items[i] = messages.items[i + k]
               /\ j + k \in 1 .. Len(messages.items) /\ messages'.items[j] = messages.items[j + k]
      <4>1. i + k = j + k
        BY <2>1, <3>1 DEF Kept, ItemsOK
      <4>2. QED
        BY <1>7, <4>1, SMT
    <3>2. CASE i = Len(messages'.items) /\ messages'.items[i] = m
      BY <1>6, <1>9, <2>1, <3>2
    <3>3. CASE j = Len(messages'.items) /\ messages'.items[j] = m
      BY <1>6, <1>9, <2>1, <3>3
    <3>4. QED
      BY <1>6, <3>1, <3>2, <3>3
  <2>2. traced' \subseteq 1 .. made'
    BY <1>1, <1>3, <1>4 DEF Kept, ItemsOK
  <2>3. QED
    BY <2>1, <2>2 DEF ItemsOK
<1>13. CallsOK'
  <2>1. LocalOK(call[t])' /\ ~Traceable(call'[t]) /\ call'[t].in # "dump_msg"
    BY <1>2, CallTypes DEF LocalOK, Traceable
  <2>2. ASSUME NEW u \in Threads, u # t PROVE LocalOK(call[u])'
    <3>1. LocalOK(call[u]) /\ call'[u] = call[u] /\ call[u].in # "dump_msg"
      BY <1>2, <1>5, <2>2 DEF Kept, CallsOK
    <3>2. Traceable(call[u]) => call[u].msg.id # m.id
      BY <1>3, <1>4, <2>2 DEF Kept, CallsOK
    <3>3. QED
      BY <1>1, <1>3, <3>1, <3>2 DEF LocalOK, Traceable
  <2>3. \A u \in Threads : LocalOK(call[u])' /\ (call'[u].in = "dump_msg" <=> tracer_mutex' = u)
    BY <1>1, <1>2, <1>5, <2>1, <2>2, LoggerAssumption
  <2>4. QED
    BY <1>2, <2>1, <2>3 DEF Kept, CallsOK, Traceable
<1>14. Held' = Held
  BY <1>1, <1>2, CallTypes DEF Held, At
<1>15. BacktraceKept'
  <2>1. traced' = erased' \cup dumped' \cup Ids(messages'.items)
    BY <1>1, <1>3, <1>10 DEF Kept, BacktraceKept
  <2>2. Ids(messages'.items) \cap dumped \subseteq Held
    BY <1>4, <1>8, <1>10 DEF Kept, BacktraceKept
  <2>3. QED
    BY <1>1, <1>14, <2>1, <2>2 DEF BacktraceKept, Ids
<1>16. QED
  BY <1>11, <1>12, <1>13, <1>15 DEF Kept

(* foreach_pop drops the message it has shown.                             *)
LEMMA PopFrontKeeps ==
    ASSUME Inv, NEW t \in Threads, pop_front(t)
    PROVE  Inv'
<1> USE DEF Inv
<1> DEFINE c == [call[t] EXCEPT !.pc = "foreach_pop", !.sink = 1]
<1>1. /\ call[t].pc = "pop_front" /\ messages' = [messages EXCEPT !.items = Tail(@)]
      /\ Become(t, c)
      /\ UNCHANGED <<clock, enabled, tracer_mutex, erased, traced, made, dumped>>
  BY DEF pop_front, Goto, config_vars, At
<1>2. /\ call[t] \in CallRecord /\ call[t].in = "dump_msg" /\ tracer_mutex = t
      /\ Len(messages.items) > 0 /\ call[t].msg = messages.items[1] /\ call[t].msg.id \in dumped
  BY <1>1 DEF TypeOK, Kept, CallsOK, LocalOK
<1>3. c \in CallRecord /\ c.pc = "foreach_pop" /\ c.in = "dump_msg"
  BY <1>2 DEF CallRecord
<1>4. HIDE DEF c
<1>5. /\ call' \in [Threads -> CallRecord] /\ call'[t] = c
      /\ \A u \in Threads : u # t => call'[u] = call[u]
  BY <1>1, <1>3, BecomeMoves
<1>6. PICK id : id = call[t].msg.id
  OBVIOUS
<1>7. messages.items \in Seq(Message) /\ Len(messages.items) \in Nat /\ messages.items # <<>>
  <2>1. messages.items \in Seq(Message) /\ Len(messages.items) \in Nat
    BY LenProperties DEF TypeOK, TracerFifo
  <2>2. QED
    BY <1>2, <2>1, EmptySeq, SMT
<1>8. messages'.items = Tail(messages.items) /\ messages' \in [cap : {DisabledCap, TraceSize},
         items : {Tail(messages.items)}, overruns : Nat]
  BY <1>1 DEF TypeOK, TracerFifo
<1>9. /\ messages'.items \in Seq(Message) /\ Len(messages'.items) = Len(messages.items) - 1
      /\ \A i \in 1 .. Len(messages'.items) : messages'.items[i] = messages.items[i + 1]
  BY <1>7, <1>8, HeadTailProperties
<1>10. \A i \in 1 .. Len(messages'.items) : i + 1 \in 1 .. Len(messages.items) /\ i + 1 # 1
  BY <1>7, <1>9, SMT
<1>11. 1 \in 1 .. Len(messages.items)
       /\ \A i \in 1 .. Len(messages.items) : i # 1 =>
             \E j \in 1 .. Len(messages'.items) : messages'.items[j] = messages.items[i]
  <2>1. ASSUME NEW i \in 1 .. Len(messages.items), i # 1
        PROVE  \E j \in 1 .. Len(messages'.items) : messages'.items[j] = messages.items[i]
    <3>1. i - 1 \in 1 .. Len(messages'.items) /\ (i - 1) + 1 = i
      BY <1>7, <1>9, <2>1, SMT
    <3>2. QED
      BY <1>9, <3>1
  <2>2. 1 \in 1 .. Len(messages.items)
    BY <1>2, <1>7, SMT
  <2>3. QED
    BY <2>1, <2>2
<1>12. TypeOK'
  <2>1. messages' \in TracerFifo
    BY <1>8, <1>9 DEF TracerFifo
  <2>2. QED
    BY <1>1, <1>5, <2>1 DEF TypeOK
<1>13. ItemsOK'
  <2>1. ASSUME NEW i \in 1 .. Len(messages'.items), NEW j \in 1 .. Len(messages'.items),
               messages'.items[i].id = messages'.items[j].id
        PROVE  i = j
    <3>1. /\ messages'.items[i] = messages.items[i + 1] /\ messages'.items[j] = messages.items[j + 1]
          /\ i + 1 \in 1 .. Len(messages.items) /\ j + 1 \in 1 .. Len(messages.items)
      BY <1>9, <1>10
    <3>2. messages.items[i + 1].id = messages.items[j + 1].id
      BY <2>1, <3>1
    <3>3. i + 1 = j + 1
      BY <3>1, <3>2 DEF Kept, ItemsOK
    <3>4. QED
      BY <1>7, <1>9, <3>3, SMT
  <2>2. QED
    BY <1>1, <2>1 DEF Kept, ItemsOK
<1>14. \A u \in Threads : u # t => call[u].in # "dump_msg" /\ call[u].pc # "pop_front"
  BY <1>2 DEF Kept, CallsOK, LocalOK
<1>15. CallsOK'
  <2>1. LocalOK(call[t])' /\ ~Traceable(call'[t])
    BY <1>3, <1>5 DEF LocalOK, Traceable
  <2>2. ASSUME NEW u \in Threads, u # t PROVE LocalOK(call[u])'
    <3>1. LocalOK(call[u]) /\ call'[u] = call[u] /\ call[u].in # "dump_msg"
      BY <1>5, <1>14, <2>2 DEF Kept, CallsOK
    <3>2. QED
      BY <1>1, <3>1 DEF LocalOK, Traceable
  <2>3. \A u \in Threads : LocalOK(call[u])' /\ (call'[u].in = "dump_msg" <=> tracer_mutex' = u)
    BY <1>1, <1>2, <1>3, <1>5, <1>14, <2>1, <2>2
  <2>4. QED
    BY <1>5, <2>1, <2>3 DEF Kept, CallsOK, Traceable
<1>16. Ids(messages.items) = Ids(messages'.items) \cup {id} /\ id \notin Ids(messages'.items)
  <2>1. \A x : x \in Ids(messages.items) <=> x \in Ids(messages'.items) \cup {id}
    <3> SUFFICES ASSUME NEW x
                 PROVE  x \in Ids(messages.items) <=> x \in Ids(messages'.items) \cup {id}
      OBVIOUS
    <3>1. x \in Ids(messages.items) <=> \E i \in 1 .. Len(messages.items) : x = messages.items[i].id
      BY <1>7, IdsPlaces
    <3>2. x \in Ids(messages'.items)
             <=> \E i \in 1 .. Len(messages'.items) : x = messages'.items[i].id
      BY <1>9, IdsPlaces
    <3>3. ASSUME x \in Ids(messages.items) PROVE x \in Ids(messages'.items) \cup {id}
      BY <1>2, <1>6, <1>11, <3>1, <3>2, <3>3
    <3>4. ASSUME x \in Ids(messages'.items) PROVE x \in Ids(messages.items)
      BY <1>9, <1>10, <3>1, <3>2, <3>4
    <3>5. ASSUME x = id PROVE x \in Ids(messages.items)
      BY <1>2, <1>6, <1>11, <3>1, <3>5
    <3>6. QED
      BY <3>3, <3>4, <3>5
  <2>2. id \notin Ids(messages'.items)
    <3>1. ASSUME NEW i \in 1 .. Len(messages'.items) PROVE messages'.items[i].id # id
      <4>1. /\ i + 1 \in 1 .. Len(messages.items) /\ i + 1 # 1
            /\ messages'.items[i] = messages.items[i + 1]
        BY <1>9, <1>10
      <4>2. messages.items[i + 1].id # messages.items[1].id
        BY <1>11, <4>1 DEF Kept, ItemsOK
      <4>3. QED
        BY <1>2, <1>6, <4>1, <4>2
    <3>2. QED
      BY <1>9, <3>1, IdsPlaces
  <2>3. QED
    BY <2>1, <2>2
<1>17. Held \subseteq {id}
  BY <1>6, <1>14 DEF Held, At
<1>18. BacktraceKept'
  <2>1. traced' = erased' \cup dumped' \cup Ids(messages'.items)
    BY <1>1, <1>2, <1>6, <1>16 DEF Kept, BacktraceKept
  <2>2. Ids(messages'.items) \cap dumped = {}
    BY <1>16, <1>17 DEF Kept, BacktraceKept
  <2>3. QED
    BY <1>1, <2>1, <2>2 DEF BacktraceKept, Ids
<1>19. QED
  BY <1>12, <1>13, <1>15, <1>18 DEF Kept

(* enable_backtrace clears the tracer while no dump is running.            *)
LEMMA EnableKeeps ==
    ASSUME Inv, enable_backtrace
    PROVE  Inv'
<1> USE DEF Inv
<1>1. /\ tracer_mutex = Nobody /\ enabled' = TRUE /\ messages' = NewFifo(TraceSize)
      /\ erased' = erased \cup Ids(messages.items)
      /\ UNCHANGED <<clock, tracer_mutex, traced, call, made, dumped>>
  BY DEF enable_backtrace, Change
<1>2. /\ messages'.items = <<>> /\ <<>> \in Seq(Message) /\ Len(messages'.items) = 0
      /\ messages' \in TracerFifo
  BY <1>1, EmptySeq, SMT DEF NewFifo, TracerFifo
<1>3. Ids(messages'.items) = {} /\ \A i \in 1 .. Len(messages'.items) : FALSE
  <2>1. \A i \in 1 .. Len(messages'.items) : FALSE
    BY <1>2, SMT
  <2>2. QED
    BY <1>2, <2>1, IdsPlaces
<1>4. TypeOK'
  BY <1>1, <1>2 DEF TypeOK
<1>5. \A u \in Threads : call[u].in # "dump_msg"
  BY <1>1, LoggerAssumption DEF Kept, CallsOK
<1>6. CallsOK'
  <2>1. ASSUME NEW u \in Threads PROVE LocalOK(call[u])'
    <3>1. LocalOK(call[u]) /\ call[u].in # "dump_msg"
      BY <1>5 DEF Kept, CallsOK
    <3>2. QED
      BY <1>1, <3>1 DEF LocalOK, Traceable
  <2>2. QED
    BY <1>1, <2>1 DEF Kept, CallsOK, Traceable
<1>7. ItemsOK'
  BY <1>1, <1>3 DEF Kept, ItemsOK
<1>8. BacktraceKept'
  <2>1. traced' = erased' \cup dumped' \cup Ids(messages'.items)
    BY <1>1, <1>3 DEF Kept, BacktraceKept
  <2>2. QED
    BY <1>3, <2>1 DEF BacktraceKept, Ids
<1>9. QED
  BY <1>4, <1>6, <1>7, <1>8 DEF Kept

LEMMA QuietKeeps ==
    ASSUME Inv, UNCHANGED <<messages, tracer_mutex, erased, traced, call, made, dumped>>,
           enabled' \in BOOLEAN, clock' \in Nat
    PROVE  Inv'
<1>1. TypeOK'
  BY DEF Inv, TypeOK
<1>2. CallsOK' /\ ItemsOK'
  BY DEF Inv, Kept, CallsOK, ItemsOK, LocalOK, Traceable
<1>3. BacktraceKept'
  BY DEF Inv, Kept, BacktraceKept, Held, At, Ids
<1>4. QED
  BY <1>1, <1>2, <1>3 DEF Inv, Kept

LEMMA NextKeepsInv == ASSUME Inv, [Next]_vars PROVE Inv'
<1>1. ASSUME NEW t \in Threads, NEW p \in Payloads, NEW l \in Levels, log(t, p, l) PROVE Inv'
  BY <1>1, LogKeeps
<1>2. ASSUME NEW t \in Threads, sink_it_(t) PROVE Inv'
  <2>1. call[t].pc \in {"sink", "flush"} /\ \E outcome : LoopStep(t, outcome)
    BY <1>2 DEF sink_it_, At
  <2>2. QED
    BY <2>1, LoopStepKeeps
<1>3. ASSUME NEW t \in Threads, flush_(t) PROVE Inv'
  <2>1. call[t].pc \in {"sink", "flush"} /\ \E outcome : LoopStep(t, outcome)
    BY <1>3 DEF flush_, At
  <2>2. QED
    BY <2>1, LoopStepKeeps
<1>4. ASSUME NEW t \in Threads,
             \/ log_(t) \/ flush(t) \/ trace(t) \/ dump_backtrace_(t) \/ foreach_pop(t)
             \/ pop_front(t)
      PROVE  Inv'
  BY <1>4, Log_Keeps, FlushCallKeeps, TraceKeeps, DumpKeeps, ForeachPopKeeps, PopFrontKeeps
<1>5. CASE enable_backtrace
  BY <1>5, EnableKeeps
<1>6. enabled \in BOOLEAN /\ clock \in Nat
  BY DEF Inv, TypeOK
<1>7. CASE disable_backtrace
  BY <1>6, <1>7, QuietKeeps DEF disable_backtrace, Change
<1>8. ASSUME NEW l \in Levels, set_level(l) PROVE Inv'
  BY <1>6, <1>8, QuietKeeps DEF set_level, Change
<1>9. ASSUME NEW sinks, ChangeSubSinks(sinks) PROVE Inv'
  BY <1>6, <1>9, QuietKeeps DEF ChangeSubSinks, Change
<1>10. CASE Tick
  <2>1. clock' \in Nat
    BY <1>6, <1>10, SMT DEF Tick
  <2>2. QED
    BY <1>6, <1>10, <2>1, QuietKeeps DEF Tick, tracer_vars
<1>11. CASE UNCHANGED vars
  BY <1>6, <1>11, QuietKeeps DEF vars, config_vars, tracer_vars
<1>12. QED
  BY <1>1, <1>2, <1>3, <1>4, <1>5, <1>7, <1>8, <1>9, <1>10, <1>11 DEF Next

LEMMA InitInv == Init => Inv
<1> SUFFICES ASSUME Init PROVE Inv
  OBVIOUS
<1> USE DEF Init
<1>1. /\ messages.items = <<>> /\ <<>> \in Seq(Message) /\ Len(messages.items) = 0
      /\ messages \in TracerFifo
  BY EmptySeq, SMT DEF DisabledFifo, TracerFifo
<1>2. \A i \in 1 .. Len(messages.items) : FALSE
  BY <1>1, SMT
<1>3. Ids(messages.items) = {}
  BY <1>1, <1>2, IdsPlaces
<1>4. TypeOK
  <2>1. call \in [Threads -> CallRecord]
    BY CallTypes
  <2>2. enabled \in BOOLEAN
    OBVIOUS
  <2>3. QED
    BY <1>1, <2>1, <2>2 DEF TypeOK
<1>5. CallsOK
  <2>1. \A t \in Threads : call[t] = Idle /\ ~Traceable(call[t])
    BY CallTypes DEF Traceable
  <2>2. \A t \in Threads : LocalOK(call[t])
    BY <2>1, CallTypes DEF LocalOK
  <2>3. QED
    BY <2>1, <2>2, CallTypes, LoggerAssumption DEF CallsOK
<1>6. ItemsOK /\ BacktraceKept
  BY <1>2, <1>3 DEF ItemsOK, BacktraceKept
<1>7. QED
  BY <1>4, <1>5, <1>6 DEF Inv, Kept

(* No traced message is lost on the way to a dump, and none is shown       *)
(* twice: for any number of threads, backtrace size and exceptions, and    *)
(* any interleaving of dumps with logging and reconfiguration.             *)
THEOREM BacktraceIsKept == Spec => []BacktraceKept
<1>1. Inv /\ [Next]_vars => Inv'
  BY NextKeepsInv
<1>2. Inv => BacktraceKept
  BY DEF Inv, Kept
<1>3. QED
  BY <1>1, <1>2, InitInv, PTL DEF Spec

-----------------------------------------------------------------------------
(* The duplicate filter, called with messages of any text.  It remembers   *)
(* the last message that was shown, and no other.                          *)
Remembered == shown = [time |-> dup.time, payload |-> dup.payload]
DupInv == DupOK /\ SkippedAccounted /\ Remembered

(* What is to be kept back is what filter_ does not let through.           *)
LEMMA FilterKeepsDuplicates ==
    ASSUME DupInv, NEW msg \in Message
    PROVE  Duplicate(msg) <=> ~filter(msg)
<1>1. /\ shown.time = dup.time /\ shown.payload = dup.payload
      /\ dup.time \in Nat /\ msg.time \in Nat /\ MaxSkip \in Nat
  BY DupFilterAssumption DEF DupInv, Remembered, DupOK, Message
<1>2. msg.time <= dup.time + MaxSkip <=> ~(msg.time - dup.time > MaxSkip)
  BY <1>1, SMT
<1>3. QED
  BY <1>1, <1>2 DEF Duplicate, filter

LEMMA DupSinkItKeeps ==
    ASSUME DupInv, NEW msg \in Message, NEW outcome, dup_sink_it(msg, outcome)
    PROVE  DupInv'
<1>1. /\ dup \in [time : Nat, payload : Texts, skip : Nat, level : 0 .. 6]
      /\ dup.skip \in Nat /\ duplicates \in Nat /\ reported \in Nat /\ sub_threw \in Nat
      /\ msg.time \in Nat /\ msg.payload \in Texts /\ msg.level \in 0 .. 6
      /\ shown = [time |-> dup.time, payload |-> dup.payload]
      /\ reported + dup.skip >= duplicates
      /\ sub_threw = 0 => reported + dup.skip = duplicates
  BY DEF DupInv, DupOK, SkippedAccounted, Remembered, Message
<1>2. CASE /\ dup' = [dup EXCEPT !.skip = @ + 1, !.level = msg.level]
           /\ duplicates' = duplicates + 1
           /\ UNCHANGED <<shown, reported, sub_threw>>
  <2>1. /\ dup'.skip = dup.skip + 1 /\ dup.skip + 1 \in Nat /\ duplicates' \in Nat
        /\ dup'.time = dup.time /\ dup'.payload = dup.payload
    BY <1>1, <1>2, SMT
  <2>2. dup' \in [time : Nat, payload : Texts, skip : Nat, level : 0 .. 6]
    BY <1>1, <1>2, <2>1
  <2>3. SkippedAccounted'
    BY <1>1, <1>2, <2>1, SMT DEF SkippedAccounted
  <2>4. QED
    BY <1>1, <1>2, <2>1, <2>2, <2>3 DEF DupInv, DupOK, Remembered
<1>3. CASE /\ dup' = [dup EXCEPT !.time = msg.time, !.payload = msg.payload, !.skip = 0]
           /\ shown' = [time |-> msg.time, payload |-> msg.payload]
           /\ reported' = reported + dup.skip
           /\ UNCHANGED <<duplicates, sub_threw>>
  <2>1. /\ dup'.skip = 0 /\ reported' \in Nat
        /\ dup'.time = msg.time /\ dup'.payload = msg.payload
    BY <1>1, <1>3, SMT
  <2>2. dup' \in [time : Nat, payload : Texts, skip : Nat, level : 0 .. 6]
    BY <1>1, <1>3
  <2>3. SkippedAccounted'
    BY <1>1, <1>3, <2>1, SMT DEF SkippedAccounted
  <2>4. QED
    BY <1>1, <1>3, <2>1, <2>2, <2>3 DEF DupInv, DupOK, Remembered
<1>4. CASE /\ UNCHANGED <<dup, shown, duplicates>> /\ sub_threw' = sub_threw + 1
           /\ reported' = reported + dup.skip \/ reported' = reported
  <2>1. reported' \in Nat /\ sub_threw' \in Nat
    BY <1>1, <1>4, SMT
  <2>2. SkippedAccounted'
    BY <1>1, <1>4, SMT DEF SkippedAccounted
  <2>3. QED
    BY <1>1, <1>4, <2>1, <2>2 DEF DupInv, DupOK, Remembered
<1>5. /\ ~filter(msg) => duplicates' = duplicates + 1
      /\ filter(msg) => duplicates' = duplicates
  BY FilterKeepsDuplicates DEF dup_sink_it
<1>6. QED
  BY <1>2, <1>3, <1>4, <1>5 DEF dup_sink_it, AfterThrow

(* The filter keeps back the duplicates and nothing else, and loses no     *)
(* count of them: each was reported or is still to be reported, whatever   *)
(* its sub-sinks throw and however they are changed in between.            *)
THEOREM SkippedIsAccounted == Spec => []SkippedAccounted
<1>1. Init => DupInv
  BY SMT DEF Init, DupInit, DupInv, DupOK, SkippedAccounted, Remembered, Texts
<1>2. ASSUME Inv, DupInv, [Next]_vars PROVE DupInv'
  <2>1. ASSUME UNCHANGED <<dup, shown, duplicates, reported, sub_threw>> PROVE DupInv'
    BY <1>2, <2>1 DEF DupInv, DupOK, SkippedAccounted, Remembered
  <2>2. ASSUME NEW t \in Threads, sink_it_(t) PROVE DupInv'
    <3>1. call[t].msg \in Message
      BY <1>2 DEF Inv, TypeOK, CallRecord
    <3>2. (\E outcome : dup_sink_it(call[t].msg, outcome))
             \/ UNCHANGED <<dup, shown, duplicates, reported, sub_threw>>
      BY <2>2 DEF sink_it_, dup_vars
    <3>3. QED
      BY <1>2, <2>1, <3>1, <3>2, DupSinkItKeeps
  <2>3. ASSUME NEW t \in Threads, NEW p \in Payloads, NEW l \in Levels, log(t, p, l) PROVE DupInv'
    BY <2>1, <2>3 DEF log, dup_vars
  <2>4. ASSUME NEW t \in Threads,
               \/ log_(t) \/ flush_(t) \/ flush(t) \/ trace(t) \/ dump_backtrace_(t)
               \/ foreach_pop(t) \/ pop_front(t)
        PROVE  DupInv'
    BY <2>1, <2>4 DEF log_, flush_, flush, trace, dump_backtrace_, foreach_pop, pop_front, dup_vars
  <2>5. CASE \/ enable_backtrace \/ disable_backtrace \/ Tick \/ UNCHANGED vars
             \/ \E l \in Levels : set_level(l)
    BY <2>1, <2>5 DEF enable_backtrace, disable_backtrace, Tick, set_level, vars, dup_vars
  <2>6. ASSUME NEW sinks, ChangeSubSinks(sinks) PROVE DupInv'
    BY <2>1, <2>6 DEF ChangeSubSinks, set_sinks
  <2>7. QED
    BY <1>2, <2>2, <2>3, <2>4, <2>5, <2>6 DEF Next
<1>3. Inv /\ [Next]_vars => Inv'
  BY NextKeepsInv
<1>4. DupInv => SkippedAccounted
  BY DEF DupInv
<1>5. QED
  BY <1>1, <1>2, <1>3, <1>4, InitInv, PTL DEF Spec

-----------------------------------------------------------------------------
TcpInv == TcpOK /\ StreamsWhole

LEMMA TcpSinkItKeeps ==
    ASSUME TcpInv, NEW msg, NEW outcome, tcp_sink_it(msg, outcome)
    PROVE  TcpInv'
<1>1. CASE UNCHANGED tcp_vars
  BY <1>1 DEF TcpInv, TcpOK, StreamsWhole, tcp_vars
<1>2. ASSUME NEW n \in 0 .. MsgSize, NEW ending \in Endings, n = MsgSize <=> ending = "all",
             socket' = AfterSend(ending),
             torn' = IF socket' = Closed THEN Whole
                     ELSE IF n \in 1 .. MsgSize - 1 THEN ending ELSE torn
      PROVE  TcpInv'
  <2>1. CASE ending = "error"
    BY <1>2, <2>1 DEF AfterSend, TcpInv, TcpOK, StreamsWhole
  <2>2. CASE ending = "zero"
    BY <1>2, <2>2 DEF AfterSend, TcpInv, TcpOK, StreamsWhole
  <2>3. CASE ending = "all"
    <3>1. n = MsgSize /\ n \notin 1 .. MsgSize - 1
      BY <1>2, <2>3, TcpAssumption, SMT
    <3>2. socket' = Open /\ Open # Closed
      BY <1>2, <2>3 DEF AfterSend, Open, Closed
    <3>3. torn' = torn
      BY <1>2, <3>1, <3>2
    <3>4. QED
      BY <3>2, <3>3 DEF TcpInv, TcpOK, StreamsWhole
  <2>4. QED
    BY <2>1, <2>2, <2>3 DEF Endings
<1>3. QED
  BY <1>1, <1>2 DEF tcp_sink_it

(* Wherever an error cuts a message of however many units, nothing follows *)
(* it on its connection; only a ::send that returned 0 leaves a message    *)
(* unfinished on a connection that stays in use.                           *)
THEOREM StreamsAreWhole == Spec => []StreamsWhole
<1>1. Init => TcpInv
  BY SMT DEF Init, TcpInit, TcpInv, TcpOK, StreamsWhole
<1>2. ASSUME TcpInv, [Next]_vars PROVE TcpInv'
  <2>1. ASSUME UNCHANGED tcp_vars PROVE TcpInv'
    BY <1>2, <2>1 DEF TcpInv, TcpOK, StreamsWhole, tcp_vars
  <2>2. ASSUME NEW t \in Threads, sink_it_(t) PROVE TcpInv'
    <3>1. (\E outcome : tcp_sink_it(call[t].msg, outcome)) \/ UNCHANGED tcp_vars
      BY <2>2 DEF sink_it_
    <3>2. QED
      BY <1>2, <2>1, <3>1, TcpSinkItKeeps
  <2>3. ASSUME NEW t \in Threads, NEW p \in Payloads, NEW l \in Levels, log(t, p, l) PROVE TcpInv'
    BY <2>1, <2>3 DEF log
  <2>4. ASSUME NEW t \in Threads,
               \/ log_(t) \/ flush_(t) \/ flush(t) \/ trace(t) \/ dump_backtrace_(t)
               \/ foreach_pop(t) \/ pop_front(t)
        PROVE  TcpInv'
    BY <2>1, <2>4 DEF log_, flush_, flush, trace, dump_backtrace_, foreach_pop, pop_front
  <2>5. CASE \/ enable_backtrace \/ disable_backtrace \/ Tick \/ UNCHANGED vars
             \/ \E l \in Levels : set_level(l)
    BY <2>1, <2>5 DEF enable_backtrace, disable_backtrace, Tick, set_level, vars, Change
  <2>6. ASSUME NEW sinks, ChangeSubSinks(sinks) PROVE TcpInv'
    BY <2>1, <2>6 DEF ChangeSubSinks, Change
  <2>7. QED
    BY <1>2, <2>2, <2>3, <2>4, <2>5, <2>6 DEF Next
<1>3. TcpInv => StreamsWhole
  BY DEF TcpInv
<1>4. QED
  BY <1>1, <1>2, <1>3, PTL DEF Spec
=============================================================================
