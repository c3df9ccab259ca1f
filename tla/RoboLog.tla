------------------------------- MODULE RoboLog -------------------------------
(***************************************************************************)
(* RoboLog, the learning plan's static facade: two unguarded statics,      *)
(* logger_ and initialized_, that every thread reads and that init and     *)
(* shutdown write.  A call tests logger_ and then uses it; nothing keeps   *)
(* the logger alive in between except the shared_ptrs of logger_ itself    *)
(* and of the registry (loggers_ and default_logger_).                     *)
(***************************************************************************)
EXTENDS Integers, FiniteSets

CONSTANTS Threads,      \* threads that use the facade
          MaxInits,     \* bound: loggers created
          MaxCalls      \* bound: calls made in a behaviour

Null == 0
Loggers == 1 .. MaxInits

Trace == 0
Debug == 1
Info == 2
Warn == 3
Err == 4
LogLevels == {Info, Err}

VARIABLES
    logger_, initialized_,
    in_registry,        \* loggers the registry keeps alive
    level, sinks,       \* of each logger: sinks maps a sink to its level
    tp,                 \* a global thread pool exists
    pc, arg,            \* of each thread; arg is the call's level or configuration
    using,              \* the object a thread is inside of
    made, calls,        \* history
    written             \* <<sink, level>> of the messages written

vars == <<logger_, initialized_, in_registry, level, sinks, tp, pc, arg, using, made, calls, written>>

(* RoboLogConfig and its defaults.                                         *)
DefaultConfig == [level |-> Info, console |-> TRUE, file |-> TRUE, error |-> TRUE,
                  async |-> TRUE, daily |-> FALSE]

(* The presets of robo_log_config.h.                                       *)
Presets ==
    [debug_config |-> [DefaultConfig EXCEPT !.level = Debug, !.async = FALSE],
     production_config |-> [DefaultConfig EXCEPT !.console = FALSE],
     high_performance_config |-> [DefaultConfig EXCEPT !.level = Trace, !.console = FALSE],
     daily_config |-> [DefaultConfig EXCEPT !.level = Debug, !.file = FALSE, !.daily = TRUE,
                                           !.async = FALSE]]

(* The sinks init builds from a configuration, with their levels.          *)
SinksOf(c) == (IF c.console THEN {<<"console", Warn>>} ELSE {})
              \cup (IF c.daily THEN {<<"daily_rotating", Trace>>}
                    ELSE IF c.file THEN {<<"rotating", Trace>>} ELSE {})
              \cup (IF c.error THEN {<<"error_file", Err>>} ELSE {})

Alive(o) == o # Null /\ (logger_ = o \/ o \in in_registry)

Init == /\ logger_ = Null /\ initialized_ = FALSE
        /\ in_registry = {}
        /\ level = [o \in Loggers |-> Info] /\ sinks = [o \in Loggers |-> {}]
        /\ tp = FALSE
        /\ pc = [t \in Threads |-> "idle"] /\ arg = [t \in Threads |-> Null]
        /\ using = [t \in Threads |-> Null]
        /\ made = 0 /\ calls = 0 /\ written = {}

Goto(t, where) == pc' = [pc EXCEPT ![t] = where]

Call(t) == pc[t] = "idle" /\ calls < MaxCalls /\ calls' = calls + 1

(* init: the guard, and the sinks built from the configuration.            *)
init(t, config) ==
    /\ Call(t)
    /\ IF initialized_ \/ made = MaxInits
       THEN UNCHANGED <<pc, arg>>
       ELSE Goto(t, "init") /\ arg' = [arg EXCEPT ![t] = config]
    /\ UNCHANGED <<logger_, initialized_, in_registry, level, sinks, tp, using, made, written>>

(* init: the logger, a plain one also when async_enabled made a pool, its  *)
(* level, set_default_logger (the previous default keeps its place in the  *)
(* map only under another name), initialized_.                             *)
init_logger(t) ==
    /\ pc[t] = "init" /\ made < MaxInits
    /\ made' = made + 1
    /\ logger_' = made + 1
    /\ tp' = (tp \/ arg[t].async)
    /\ level' = [level EXCEPT ![made + 1] = arg[t].level]
    /\ sinks' = [sinks EXCEPT ![made + 1] = SinksOf(arg[t])]
    /\ in_registry' = {made + 1}
    /\ initialized_' = TRUE
    /\ Goto(t, "idle") /\ arg' = [arg EXCEPT ![t] = Null]
    /\ UNCHANGED <<using, calls, written>>

(* shutdown: "if (logger_) logger_->flush()", then spdlog::shutdown(), then *)
(* logger_.reset() and initialized_.                                       *)
shutdown(t) ==
    /\ Call(t)
    /\ Goto(t, IF logger_ = Null THEN "drop" ELSE "shutdown")
    /\ UNCHANGED <<logger_, initialized_, in_registry, tp, level, sinks, arg, using, made, written>>

shutdown_drop(t) ==
    /\ pc[t] = "drop"
    /\ in_registry' = {} /\ tp' = FALSE
    /\ Goto(t, "reset")
    /\ UNCHANGED <<logger_, initialized_, level, sinks, arg, using, made, calls, written>>

shutdown_reset(t) ==
    /\ pc[t] = "reset"
    /\ logger_' = Null
    /\ initialized_' = FALSE
    /\ Goto(t, "idle")
    /\ UNCHANGED <<in_registry, level, sinks, tp, arg, using, made, calls, written>>

(* trace ... critical, set_level, flush: "if (logger_)".                   *)
check_logger(t, op, v) ==
    /\ Call(t)
    /\ IF logger_ = Null THEN UNCHANGED <<pc, arg>>
                         ELSE Goto(t, op) /\ arg' = [arg EXCEPT ![t] = v]
    /\ UNCHANGED <<logger_, initialized_, in_registry, level, sinks, tp, using, made, written>>

(* "logger_->": logger_ is read again, and the object entered.             *)
enter_logger(t) ==
    /\ pc[t] \in {"log", "set_level", "flush", "shutdown"} /\ using[t] = Null
    /\ using' = [using EXCEPT ![t] = logger_]
    /\ Goto(t, IF logger_ = Null THEN "crashed" ELSE pc[t])
    /\ UNCHANGED <<logger_, initialized_, in_registry, level, sinks, tp, arg, made, calls, written>>

leave_logger(t) ==
    /\ using[t] # Null
    /\ level' = IF pc[t] = "set_level" THEN [level EXCEPT ![using[t]] = arg[t]] ELSE level
    /\ written' = IF pc[t] = "log" /\ arg[t] >= level[using[t]]
                  THEN written \cup {<<s[1], arg[t]>> : s \in {x \in sinks[using[t]] : arg[t] >= x[2]}}
                  ELSE written
    /\ using' = [using EXCEPT ![t] = Null]
    /\ Goto(t, IF pc[t] = "shutdown" THEN "drop" ELSE "idle")
    /\ arg' = [arg EXCEPT ![t] = Null]
    /\ UNCHANGED <<logger_, initialized_, in_registry, sinks, tp, made, calls>>

Next == \E t \in Threads :
    \/ \E p \in DOMAIN Presets : init(t, Presets[p])
    \/ init_logger(t) \/ shutdown(t) \/ shutdown_drop(t) \/ shutdown_reset(t)
    \/ \E v \in LogLevels : check_logger(t, "log", v) \/ check_logger(t, "set_level", v)
    \/ check_logger(t, "flush", Null)
    \/ enter_logger(t) \/ leave_logger(t)

Spec == Init /\ [][Next]_vars

(* The use the facade is made for: it is initialised before the threads    *)
(* call it, and one thread shuts it down.                                  *)
ShuttingDown == {t \in Threads : pc[t] \in {"shutdown", "drop", "reset"}}

OrdinaryUse == /\ calls > 1 => made > 0
               /\ Cardinality(ShuttingDown) <= 1

-----------------------------------------------------------------------------
(* "All public methods are thread-safe static methods" (robo_log.h): a     *)
(* thread that is inside a logger is inside one that exists, and none      *)
(* dereferences the null pointer a concurrent shutdown left behind.        *)
MethodsThreadSafe ==
    \A t \in Threads : /\ pc[t] # "crashed"
                       /\ using[t] # Null => Alive(using[t])
=============================================================================
