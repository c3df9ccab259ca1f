------------------------------- MODULE Logger -------------------------------
(***************************************************************************)
(* logger, backtracer and the sinks a call goes through, in the thread     *)
(* that logs: a duplicate filter and a tcp sink.                           *)
(*                                                                         *)
(* level_ and tracer_.enabled_ are atomics read one after the other; each  *)
(* sink is called under its own mutex; the tracer's mutex is held for a    *)
(* push and for the whole of foreach_pop, sinks included.  A std exception *)
(* of a sink goes to err_handler_ and the loop goes on; an unknown one is  *)
(* rethrown and ends the call.                                             *)
(***************************************************************************)
EXTENDS DupFilterSink, TcpSink, FiniteSets

CONSTANTS Threads,      \* threads that use the logger
          Payloads,     \* texts
          Levels,       \* levels of messages
          FlushLevel,   \* flush_level_
          TraceSize,    \* n_messages of enable_backtrace
          MaxMsgs,      \* bound: messages made, the first marker of a dump included
          MaxTime,      \* bound: ticks of the clock, in seconds
          MaxErrors,    \* bound: exceptions start only below this count of errors
          MaxChanges    \* bound: changes of the configuration

Nobody == "nobody"      \* tracer_.mutex_ is free

ASSUME LoggerAssumption ==
    /\ Nobody \notin Threads
    /\ Levels \cup {FlushLevel} \subseteq 0 .. 5
    /\ {TraceSize, MaxMsgs, MaxTime, MaxErrors, MaxChanges} \subseteq Nat

VARIABLES
    level,              \* level_
    enabled, messages,  \* tracer_.enabled_, messages_
    tracer_mutex,       \* who holds tracer_.mutex_
    clock,
    errors,             \* err_handler_: err_counter and last_report_time
    call,               \* the call each thread is in: its locals and where it is
    \* history
    made, changes,
    dumped,             \* messages a dump has taken through the loop over the sinks
    erased,             \* traced messages overrun, or cleared by enable_backtrace
    traced              \* messages pushed to the tracer

tracer_vars == <<enabled, messages, tracer_mutex, erased, traced>>
config_vars == <<level, clock, changes>>
vars == <<config_vars, tracer_vars, errors, call, made, dumped, dup_vars, tcp_vars>>

Info == 2
Sinks == <<"dup_filter", "tcp">>
NoMsg == [id |-> 0, payload |-> NoPayload, level |-> 0, time |-> 0]
Idle == [pc |-> "idle", msg |-> NoMsg, in |-> "log", sink |-> 1, log_enabled |-> FALSE,
         traceback_enabled |-> FALSE]

Ids(items) == {m.id : m \in Range(items)}

Init == /\ level = Info
        /\ enabled = FALSE /\ messages = DisabledFifo /\ tracer_mutex = Nobody
        /\ clock = 0
        /\ errors = [counter |-> 0, last_report |-> -1]
        /\ call = [t \in Threads |-> Idle]
        /\ made = 0 /\ changes = 0
        /\ dumped = {} /\ erased = {} /\ traced = {}
        /\ DupInit /\ TcpInit

NewMsg(payload, lvl) == [id |-> made + 1, payload |-> payload, level |-> lvl, time |-> clock]

At(t, pc) == call[t].pc = pc
Become(t, c) == call' = [call EXCEPT ![t] = c]
Goto(t, pc) == Become(t, IF pc = "idle" THEN Idle ELSE [call[t] EXCEPT !.pc = pc, !.sink = 1])

-----------------------------------------------------------------------------
(* log_: should_log(lvl), the first of the two reads.                      *)
log(t, payload, lvl) ==
    /\ At(t, "idle") /\ made < MaxMsgs
    /\ Become(t, [Idle EXCEPT !.pc = "log_", !.msg = NewMsg(payload, lvl),
                              !.log_enabled = lvl >= level])
    /\ made' = made + 1
    /\ UNCHANGED <<config_vars, tracer_vars, errors, dumped, dup_vars, tcp_vars>>

(* log_: tracer_.enabled(), and the early return.                          *)
log_(t) ==
    /\ At(t, "log_")
    /\ Become(t, IF call[t].log_enabled \/ enabled
                 THEN [call[t] EXCEPT !.traceback_enabled = enabled,
                                      !.pc = IF call[t].log_enabled THEN "sink" ELSE "trace"]
                 ELSE Idle)
    /\ UNCHANGED <<config_vars, tracer_vars, errors, made, dumped, dup_vars, tcp_vars>>

(* err_handler_, n times in a row: every error is counted, one a second is *)
(* printed.                                                                *)
err_handler_(n) == errors' = [counter     |-> errors.counter + n,
                              last_report |-> IF n = 0 \/ clock - errors.last_report < 1
                                              THEN errors.last_report ELSE clock]

(* log_it_ goes from sink_it_ to the tracer; a dump goes from one sink_it_ *)
(* to its next step.                                                       *)
AfterSinkIt(c) == CASE c.in = "log"       -> IF c.traceback_enabled THEN "trace" ELSE "idle"
                    [] c.in = "dump_start" -> "foreach_pop"
                    [] c.in = "dump_msg"   -> "pop_front"
                    [] c.in = "dump_end"   -> "idle"
                    [] c.in = "flush"      -> "idle"

should_flush_(m) == m.level >= FlushLevel

(* The end of a loop over the sinks: sink_it_ goes on to flush_.           *)
AfterLoop(c) == IF c.pc = "sink" /\ should_flush_(c.msg) THEN "flush" ELSE AfterSinkIt(c)

(* The lines after sink->log or sink->flush.  An unknown exception leaves  *)
(* the loop, foreach_pop and the call; log_ reports it a second time.      *)
LoopStep(t, outcome) ==
    LET c == call[t]
        twice == outcome = "unknown" /\ c.in = "log"
    IN  /\ outcome # "ok" => errors.counter < MaxErrors
        /\ err_handler_(IF outcome = "ok" THEN 0 ELSE IF twice THEN 2 ELSE 1)
        /\ tracer_mutex' = IF outcome = "unknown" /\ tracer_mutex = t THEN Nobody ELSE tracer_mutex
        /\ IF outcome = "unknown"
           THEN Become(t, Idle) /\ UNCHANGED dumped
           ELSE IF c.sink < Len(Sinks)
                THEN Become(t, [c EXCEPT !.sink = @ + 1]) /\ UNCHANGED dumped
                ELSE /\ Goto(t, AfterLoop(c))
                     /\ dumped' = IF AfterLoop(c) = "pop_front" THEN dumped \cup {c.msg.id} ELSE dumped
        /\ UNCHANGED <<config_vars, enabled, messages, erased, traced, made>>

(* One turn of sink_it_'s loop, with what the sink does.                   *)
sink_it_(t) ==
    /\ At(t, "sink")
    /\ \E outcome \in {"ok", "std", "unknown"} :
          /\ LoopStep(t, outcome)
          /\ IF Sinks[call[t].sink] = "dup_filter"
             THEN dup_sink_it(call[t].msg, outcome) /\ UNCHANGED tcp_vars
             ELSE tcp_sink_it(call[t].msg, outcome) /\ UNCHANGED dup_vars

(* One turn of flush_'s loop: only a sub-sink of the filter can throw.     *)
flush_(t) ==
    /\ At(t, "flush")
    /\ \E outcome \in {"ok", "std", "unknown"} :
          /\ LoopStep(t, outcome)
          /\ outcome # "ok" => Sinks[call[t].sink] = "dup_filter" /\ "callback" \in Range(subsinks)
    /\ UNCHANGED <<dup_vars, tcp_vars>>

flush(t) ==
    /\ At(t, "idle") /\ changes < MaxChanges
    /\ Become(t, [Idle EXCEPT !.pc = "flush", !.in = "flush"])
    /\ changes' = changes + 1
    /\ UNCHANGED <<level, clock, tracer_vars, errors, made, dumped, dup_vars, tcp_vars>>

(* tracer_.push_back.                                                      *)
trace(t) ==
    /\ At(t, "trace")
    /\ tracer_mutex = Nobody
    /\ messages' = Pushed(messages, call[t].msg)
    /\ traced' = traced \cup {call[t].msg.id}
    /\ erased' = erased \cup (({call[t].msg.id} \cup Ids(messages.items)) \ Ids(messages'.items))
    /\ Goto(t, "idle")
    /\ UNCHANGED <<config_vars, enabled, tracer_mutex, errors, made, dumped, dup_vars, tcp_vars>>

-----------------------------------------------------------------------------
(* dump_backtrace_: enabled() and empty(), and the first marker.           *)
dump_backtrace_(t) ==
    /\ At(t, "idle") /\ made < MaxMsgs
    /\ tracer_mutex = Nobody
    /\ enabled /\ messages.items # <<>>
    /\ Become(t, [Idle EXCEPT !.pc = "sink", !.in = "dump_start", !.msg = NewMsg("start", Info)])
    /\ made' = made + 1
    /\ UNCHANGED <<config_vars, tracer_vars, errors, dumped, dup_vars, tcp_vars>>

(* foreach_pop that takes the message out before it was shown.             *)
foreach_pop_early(t) ==
    /\ At(t, "foreach_pop")
    /\ tracer_mutex \in {Nobody, t}
    /\ IF messages.items = <<>>
       THEN /\ tracer_mutex' = Nobody
            /\ Become(t, [Idle EXCEPT !.pc = "sink", !.in = "dump_end", !.msg = NewMsg("end", Info)])
            /\ UNCHANGED messages
       ELSE /\ tracer_mutex' = t
            /\ Become(t, [Idle EXCEPT !.pc = "sink", !.in = "dump_msg", !.msg = Head(messages.items)])
            /\ messages' = [messages EXCEPT !.items = Tail(@)]
    /\ UNCHANGED <<config_vars, enabled, erased, traced, errors, made, dumped, dup_vars, tcp_vars>>

(* foreach_pop: the next message, with the mutex held from the first one   *)
(* to the last; after it the second marker.                                *)
foreach_pop(t) ==
    /\ At(t, "foreach_pop")
    /\ tracer_mutex \in {Nobody, t}
    /\ IF messages.items = <<>>
       THEN /\ tracer_mutex' = Nobody
            /\ Become(t, [Idle EXCEPT !.pc = "sink", !.in = "dump_end", !.msg = NewMsg("end", Info)])
       ELSE /\ tracer_mutex' = t
            /\ Become(t, [Idle EXCEPT !.pc = "sink", !.in = "dump_msg", !.msg = Head(messages.items)])
    /\ UNCHANGED <<config_vars, enabled, messages, erased, traced, errors, made, dumped, dup_vars, tcp_vars>>

pop_front(t) ==
    /\ At(t, "pop_front")
    /\ messages' = [messages EXCEPT !.items = Tail(@)]
    /\ Goto(t, "foreach_pop")
    /\ UNCHANGED <<config_vars, enabled, tracer_mutex, erased, traced, errors, made, dumped, dup_vars, tcp_vars>>

(* A change of the configuration by some other thread, in one locked or    *)
(* atomic step.                                                            *)
Change == /\ changes < MaxChanges
          /\ changes' = changes + 1
          /\ UNCHANGED <<clock, tracer_mutex, traced, errors, call, made, dumped, tcp_vars>>

(* enable_backtrace starts with an empty queue; disable_backtrace only     *)
(* clears the flag, the messages stay.                                     *)
enable_backtrace ==
    /\ tracer_mutex = Nobody
    /\ enabled' = TRUE
    /\ messages' = NewFifo(TraceSize)
    /\ erased' = erased \cup Ids(messages.items)
    /\ Change /\ UNCHANGED <<level, dup_vars>>

disable_backtrace ==
    /\ tracer_mutex = Nobody
    /\ enabled' = FALSE
    /\ Change /\ UNCHANGED <<level, messages, erased, dup_vars>>

set_level(v) ==
    /\ level' = v
    /\ Change /\ UNCHANGED <<enabled, messages, erased, dup_vars>>

ChangeSubSinks(sinks) ==
    /\ set_sinks(sinks)
    /\ Change /\ UNCHANGED <<level, enabled, messages, erased>>

Tick == /\ clock < MaxTime
        /\ clock' = clock + 1
        /\ UNCHANGED <<level, changes, tracer_vars, errors, call, made, dumped, dup_vars, tcp_vars>>

Next == \/ \E t \in Threads : \/ \E p \in Payloads, l \in Levels : log(t, p, l)
                              \/ log_(t) \/ sink_it_(t) \/ flush_(t) \/ flush(t) \/ trace(t)
                              \/ dump_backtrace_(t) \/ foreach_pop(t) \/ pop_front(t)
        \/ enable_backtrace \/ disable_backtrace
        \/ \E l \in Levels : set_level(l)
        \/ \E s \in {<<"ring">>, <<"callback", "ring">>} : ChangeSubSinks(s)
        \/ Tick

Spec == Init /\ [][Next]_vars

-----------------------------------------------------------------------------
Held == {call[t].msg.id : t \in {u \in Threads : At(u, "pop_front")}}

(* A traced message is never lost on the way: until a dump has shown it    *)
(* it stays in the tracer, unless newer ones overran it or                 *)
(* enable_backtrace cleared it; an exception half-way through a dump       *)
(* leaves it for the next one.  Concurrent dumps show it once.             *)
BacktraceKept ==
    /\ traced = erased \cup dumped \cup Ids(messages.items)
    /\ Ids(messages.items) \cap dumped \subseteq Held
=============================================================================
