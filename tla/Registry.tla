------------------------------ MODULE Registry ------------------------------
(***************************************************************************)
(* details/registry, the factories that fill it, the periodic flusher and  *)
(* spdlog-inl.h, which only forwards to it.                                *)
(*                                                                         *)
(* An operation that is one critical section of logger_map_mutex_ is one   *)
(* step, enabled while nobody holds the mutex.  The operations that nest   *)
(* locks, wait for a thread or call into a queue are split where they do:  *)
(*    async create   tp_mutex_, and logger_map_mutex_ within it            *)
(*    flush_every    flusher_mutex_; within it the new worker is started   *)
(*                   before the old one is stopped and joined              *)
(*    shutdown       flusher, loggers and pool, each under its own lock    *)
(*    flush_all      logger_map_mutex_ while each logger flushes; an       *)
(*                   async logger waits for room in the pool's queue       *)
(***************************************************************************)
EXTENDS Cfg

CONSTANTS Threads,      \* threads that call the API
          Names,        \* logger names other than the default one
          Attrs,        \* global settings copied to every logger
          Levels,       \* level values
          LevelSpecs,   \* values of SPDLOG_LEVEL
          MaxCalls,     \* bound: API calls made in a behaviour
          MaxFlushers   \* bound: flush_every calls

ASSUME RegistryAssumption == /\ IsFiniteSet(Threads) /\ Threads \cap Nat = {}
                             /\ Levels \subseteq 1 .. Off /\ Info \in Levels
                             /\ MaxCalls \in Nat /\ MaxFlushers \in Nat

DefaultName == "default"        \* the empty name
AllNames == Names \cup {DefaultName}
Null == 0
Objects == 1 .. MaxCalls + 1    \* logger objects in order of creation
Flushers == 1 .. MaxFlushers

VARIABLES
    loggers,            \* loggers_: name -> object, Null when absent
    default_logger,     \* default_logger_
    made, obj,          \* number of logger objects and the members of each
    global,             \* formatter_, err_handler_, flush_level_, backtrace_n_messages_
    global_level,       \* global_log_level_
    log_levels,         \* log_levels_: name -> level, Null when absent
    automatic,          \* automatic_registration_
    map_mutex,          \* who holds logger_map_mutex_, Null when free
    flusher_mutex,      \* who holds flusher_mutex_
    tp_mutex,           \* who holds tp_mutex_
    tp,                 \* tp_: number of the pool, Null when there is none
    queued,             \* messages in the pool's queue, which has one place
    flusher,            \* periodic_flusher_
    worker,             \* each periodic_worker: its thread and active_
    pc, arg,            \* of each thread
    \* history
    calls,              \* API calls made
    pools,              \* pools created so far
    replaced,           \* pools a shutdown or init_thread_pool let go
    settled             \* the last change of levels was a set_levels with a global level

map_vars == <<loggers, default_logger, made, obj, global, global_level, log_levels, settled,
              automatic>>
pool_vars == <<tp, queued, pools, replaced>>
flush_vars == <<flusher, worker>>
locks == <<map_mutex, flusher_mutex, tp_mutex>>
vars == <<map_vars, pool_vars, flush_vars, locks, pc, arg, calls>>

Goto(t, where) == pc' = [pc EXCEPT ![t] = where]

(* A logger as its constructor leaves it.  configured marks the ones that  *)
(* initialize_logger set up and registered.                                *)
NewLogger(name, pool) ==
    [name |-> name, level |-> Info, attrs |-> [a \in Attrs |-> 0], pool |-> pool,
     configured |-> FALSE]

(* What a call keeps between its steps: the worker it stops and joins, or  *)
(* the name and the pool of the logger it makes.                           *)
NoArg == [worker |-> Null, name |-> DefaultName, pool |-> Null]

Fresh == made + 1

Registered == {loggers[n] : n \in AllNames} \ {Null}

(* registry::registry: the default logger is registered under its name.    *)
Init == /\ loggers = [n \in AllNames |-> IF n = DefaultName THEN 1 ELSE Null]
        /\ default_logger = 1
        /\ made = 1
        /\ obj = [o \in Objects |-> NewLogger(DefaultName, Null)]
        /\ global = [a \in Attrs |-> 0]
        /\ global_level = Info
        /\ log_levels = [n \in AllNames |-> Null]
        /\ settled = TRUE
        /\ automatic = TRUE
        /\ map_mutex = Null /\ flusher_mutex = Null /\ tp_mutex = Null
        /\ tp = Null /\ queued = 0 /\ pools = 0 /\ replaced = 0
        /\ flusher = Null
        /\ worker = [f \in Flushers |-> [thread |-> "unused", active |-> FALSE]]
        /\ pc = [t \in Threads |-> "idle"]
        /\ arg = [t \in Threads |-> NoArg]
        /\ calls = 0

Call(t) == pc[t] = "idle" /\ calls < MaxCalls /\ calls' = calls + 1

-----------------------------------------------------------------------------
(* What initialize_logger gives a new logger.                              *)
LevelFor(name) == IF log_levels[name] # Null THEN log_levels[name] ELSE global_level

(* initialize_logger that leaves the settings to the next setter.          *)
initialize_logger_level_only(l) ==
    /\ map_mutex = Null
    /\ made' = Fresh
    /\ LET registers == automatic /\ loggers[l.name] = Null
       IN  /\ obj' = [obj EXCEPT ![Fresh] = [l EXCEPT !.level = LevelFor(l.name),
                                                      !.configured = registers]]
           /\ loggers' = IF registers THEN [loggers EXCEPT ![l.name] = Fresh] ELSE loggers
    /\ UNCHANGED <<default_logger, global, global_level, log_levels, settled, automatic>>

(* initialize_logger(l), with logger_map_mutex_ free.  When the   *)
(* name is taken register_logger_ throws, after l was configured.          *)
initialize_logger(l) ==
    /\ map_mutex = Null
    /\ made' = Fresh
    /\ LET registers == automatic /\ loggers[l.name] = Null
       IN  /\ obj' = [obj EXCEPT ![Fresh] = [l EXCEPT !.level = LevelFor(l.name), !.attrs = global,
                                                  !.configured = registers]]
           /\ loggers' = IF registers THEN [loggers EXCEPT ![l.name] = Fresh] ELSE loggers
    /\ UNCHANGED <<default_logger, global, global_level, log_levels, settled, automatic>>

(* synchronous_factory::create.                                            *)
create(t, name) ==
    /\ Call(t)
    /\ initialize_logger(NewLogger(name, Null))
    /\ UNCHANGED <<pool_vars, flush_vars, locks, pc, arg>>

(* Steps that only touch the map: one critical section each.               *)
MapCall(t) == /\ Call(t)
              /\ map_mutex = Null
              /\ UNCHANGED <<pool_vars, flush_vars, locks, pc, arg>>

MakeAndRegister(name) == /\ made' = Fresh
                         /\ obj' = [obj EXCEPT ![Fresh] = NewLogger(name, Null)]
                         /\ loggers' = [loggers EXCEPT ![name] = Fresh]

(* register_logger and register_or_replace of a logger made by hand.       *)
register_logger(t, name, replace) ==
    /\ MapCall(t)
    /\ IF replace \/ loggers[name] = Null
       THEN MakeAndRegister(name)
       ELSE UNCHANGED <<made, obj, loggers>>
    /\ UNCHANGED <<default_logger, global, global_level, log_levels, settled, automatic>>

(* set_default_logger: the old default stays in the map.  Null: none.      *)
set_default_logger(t, name) ==
    /\ MapCall(t)
    /\ \/ /\ default_logger' = Null
          /\ UNCHANGED <<made, obj, loggers>>
       \/ /\ MakeAndRegister(name)
          /\ default_logger' = Fresh
    /\ UNCHANGED <<global, global_level, log_levels, settled, automatic>>

drop(t, name) ==
    /\ MapCall(t)
    /\ loggers' = [loggers EXCEPT ![name] = Null]
    /\ default_logger' = IF default_logger # Null /\ obj[default_logger].name = name
                         THEN Null ELSE default_logger
    /\ UNCHANGED <<made, obj, global, global_level, log_levels, settled, automatic>>

(* drop_all, with logger_map_mutex_ free.                                  *)
drop_all == /\ map_mutex = Null
            /\ loggers' = [n \in AllNames |-> Null]
            /\ default_logger' = Null
            /\ UNCHANGED <<made, obj, global, global_level, log_levels, settled, automatic>>

DropAll(t) == /\ Call(t)
              /\ drop_all
              /\ UNCHANGED <<pool_vars, flush_vars, locks, pc, arg>>

ForRegistered(changed) == obj' = [o \in Objects |-> (IF o \in Registered THEN changed ELSE obj)[o]]

(* set_formatter, enable_backtrace, disable_backtrace, flush_on,           *)
(* set_error_handler.                                                      *)
set_global(t, attr, v) ==
    /\ MapCall(t)
    /\ global' = [global EXCEPT ![attr] = v]
    /\ ForRegistered([o \in Objects |-> [obj[o] EXCEPT !.attrs[attr] = v]])
    /\ UNCHANGED <<loggers, default_logger, made, global_level, log_levels, settled, automatic>>

set_level(t, v) ==
    /\ MapCall(t)
    /\ global_level' = v
    /\ settled' = FALSE
    /\ ForRegistered([o \in Objects |-> [obj[o] EXCEPT !.level = v]])
    /\ UNCHANGED <<loggers, default_logger, made, global, log_levels, automatic>>

(* set_levels(levels, global): the names' levels are replaced as a whole.  *)
set_levels(t, levels, requested) ==
    /\ MapCall(t)
    /\ log_levels' = levels
    /\ settled' = (requested # Null)
    /\ global_level' = IF requested # Null THEN requested ELSE global_level
    /\ obj' = [o \in Objects |->
                  IF o \notin Registered THEN obj[o]
                  ELSE LET entry == levels[obj[o].name]
                       IN  IF entry # Null THEN [obj[o] EXCEPT !.level = entry]
                           ELSE IF requested # Null THEN [obj[o] EXCEPT !.level = requested]
                           ELSE obj[o]]
    /\ UNCHANGED <<loggers, default_logger, made, global, automatic>>

(* load_env_levels, and load_argv_levels for each of its arguments: a      *)
(* default logger has the empty name, which means the global level.        *)
load_levels(t, text) ==
    /\ Usable(text)
    /\ set_levels(t, [n \in AllNames |-> IF n = DefaultName THEN Null ELSE NamedLevel(text, n)],
                  GlobalLevel(text))

(* apply_logger_env_levels on a registered logger.                         *)
apply_logger_env_levels(t, o) ==
    /\ MapCall(t)
    /\ o \in Registered
    /\ obj' = [obj EXCEPT ![o].level = LevelFor(obj[o].name)]
    /\ UNCHANGED <<loggers, default_logger, made, global, global_level, log_levels, settled, automatic>>

set_automatic_registration(t, v) ==
    /\ MapCall(t)
    /\ automatic' = v
    /\ UNCHANGED <<loggers, default_logger, made, obj, global, global_level, log_levels, settled>>

-----------------------------------------------------------------------------
(* The lock taken only for the lookup: two creations may each find no pool.*)
create_async_unlocked(t, name) ==
    /\ Call(t)
    /\ tp_mutex = Null
    /\ IF tp = Null THEN tp' = pools + 1 /\ pools' = pools + 1
                    ELSE \/ UNCHANGED <<tp, pools>>
                         \/ tp' = pools + 1 /\ pools' = pools + 1
    /\ arg' = [arg EXCEPT ![t] = [NoArg EXCEPT !.name = name, !.pool = tp']]
    /\ Goto(t, "initialize")
    /\ UNCHANGED <<map_vars, queued, replaced, flush_vars, locks>>

(* async_factory_impl::create, first half: the pool is looked up and, if   *)
(* there is none, created, with tp_mutex_ held from here on.               *)
create_async(t, name) ==
    /\ Call(t)
    /\ tp_mutex = Null
    /\ tp_mutex' = t
    /\ IF tp = Null THEN tp' = pools + 1 /\ pools' = pools + 1 ELSE UNCHANGED <<tp, pools>>
    /\ arg' = [arg EXCEPT ![t] = [NoArg EXCEPT !.name = name, !.pool = tp']]
    /\ Goto(t, "initialize")
    /\ UNCHANGED <<map_vars, queued, replaced, flush_vars, map_mutex, flusher_mutex>>

(* async_factory_impl::create, second half.                                *)
initialize_async(t) ==
    /\ pc[t] = "initialize"
    /\ initialize_logger(NewLogger(arg[t].name, arg[t].pool))
    /\ tp_mutex' = Null
    /\ Goto(t, "idle")
    /\ arg' = [arg EXCEPT ![t] = NoArg]
    /\ UNCHANGED <<pool_vars, flush_vars, map_mutex, flusher_mutex, calls>>

(* The pool tp_ refers to is let go; ~thread_pool waits for its queue.     *)
ReleasePool == queued = 0 /\ replaced' = pools

(* init_thread_pool: a new pool replaces the old one under tp_mutex_.      *)
init_thread_pool(t) ==
    /\ Call(t)
    /\ tp_mutex = Null
    /\ ReleasePool
    /\ tp' = pools + 1
    /\ pools' = pools + 1
    /\ UNCHANGED <<map_vars, queued, flush_vars, locks, pc, arg>>

(* A worker of the pool processes a message.                               *)
PoolWorker == /\ queued > 0
              /\ queued' = queued - 1
              /\ UNCHANGED <<map_vars, tp, pools, replaced, flush_vars, locks, pc, arg, calls>>

-----------------------------------------------------------------------------
(* flush_all, shared by its callers and by the flusher's callback.  a is a *)
(* thread or a flusher.                                                    *)
flush_all_lock(a) == map_mutex = Null /\ map_mutex' = a

(* l.second->flush() for every logger: the async ones post to their pool,  *)
(* which must have room as long as it lives.                               *)
AsyncRegistered == {o \in Registered : obj[o].pool # Null /\ obj[o].pool = tp}

flush_all_run(a) ==
    /\ map_mutex = a
    /\ IF AsyncRegistered = {} THEN UNCHANGED queued
                               ELSE queued < 1 /\ queued' = queued + 1
    /\ map_mutex' = Null

flush_all(t) ==
    /\ Call(t)
    /\ flush_all_lock(t)
    /\ Goto(t, "flush_all")
    /\ UNCHANGED <<map_vars, pool_vars, flush_vars, flusher_mutex, tp_mutex, arg>>

flush_all_end(t) ==
    /\ pc[t] = "flush_all"
    /\ flush_all_run(t)
    /\ Goto(t, "idle")
    /\ UNCHANGED <<map_vars, tp, pools, replaced, flush_vars, flusher_mutex, tp_mutex, arg, calls>>

(* The thread of a periodic_worker.  wait_for returns, with mutex_ held:   *)
(* active_ decides.  mutex_ is held through the callback.                  *)
worker_wakes(f) ==
    /\ worker[f].thread = "wait"
    /\ worker' = [worker EXCEPT ![f].thread = IF worker[f].active THEN "callback" ELSE "exited"]
    /\ UNCHANGED <<map_vars, pool_vars, flusher, locks, pc, arg, calls>>

worker_callback(f) ==
    \/ /\ worker[f].thread = "callback"
       /\ flush_all_lock(f)
       /\ worker' = [worker EXCEPT ![f].thread = "flush_all"]
       /\ UNCHANGED <<map_vars, pool_vars, flusher, flusher_mutex, tp_mutex, pc, arg, calls>>
    \/ /\ worker[f].thread = "flush_all"
       /\ flush_all_run(f)
       /\ worker' = [worker EXCEPT ![f].thread = "wait"]
       /\ UNCHANGED <<map_vars, tp, pools, replaced, flusher, flusher_mutex, tp_mutex, pc, arg, calls>>

MutexHeld(f) == worker[f].thread \in {"callback", "flush_all"}

(* flush_every, shutdown: take flusher_mutex_.  flush_every makes the new  *)
(* worker first; an interval of zero starts no thread.                     *)
flush_every(t) ==
    /\ Call(t)
    /\ flusher_mutex = Null
    /\ flusher_mutex' = t
    /\ \E f \in Flushers : \E positive \in BOOLEAN :
          /\ worker[f].thread = "unused" /\ \A g \in 1 .. f - 1 : worker[g].thread # "unused"
          /\ worker' = [worker EXCEPT ![f] = [thread |-> IF positive THEN "wait" ELSE "none",
                                              active |-> positive]]
          /\ flusher' = f
    /\ arg' = [arg EXCEPT ![t].worker = flusher]        \* the old worker
    /\ Goto(t, "stop")
    /\ UNCHANGED <<map_vars, pool_vars, map_mutex, tp_mutex>>

shutdown(t) ==
    /\ Call(t)
    /\ flusher_mutex = Null
    /\ flusher_mutex' = t
    /\ flusher' = Null
    /\ arg' = [arg EXCEPT ![t].worker = flusher]
    /\ Goto(t, "shutdown_stop")
    /\ UNCHANGED <<map_vars, pool_vars, worker, map_mutex, tp_mutex>>

(* ~periodic_worker that only notifies.                                    *)
worker_stop_notifies(t) ==
    /\ pc[t] \in {"stop", "shutdown_stop"}
    /\ Goto(t, IF pc[t] = "stop" THEN "join" ELSE "shutdown_join")
    /\ UNCHANGED <<map_vars, pool_vars, flusher, worker, locks, arg, calls>>

(* ~periodic_worker: active_ = false under mutex_, and notify.             *)
worker_stop(t) ==
    /\ pc[t] \in {"stop", "shutdown_stop"}
    /\ IF arg[t].worker # Null /\ worker[arg[t].worker].thread # "none"
       THEN ~MutexHeld(arg[t].worker) /\ worker' = [worker EXCEPT ![arg[t].worker].active = FALSE]
       ELSE UNCHANGED worker
    /\ Goto(t, IF pc[t] = "stop" THEN "join" ELSE "shutdown_join")
    /\ UNCHANGED <<map_vars, pool_vars, flusher, locks, arg, calls>>

(* ~periodic_worker that does not wait for its thread.                     *)
worker_join_detach(t) ==
    /\ pc[t] \in {"join", "shutdown_join"}
    /\ flusher_mutex' = Null
    /\ Goto(t, IF pc[t] = "join" THEN "idle" ELSE "shutdown_drop")
    /\ arg' = [arg EXCEPT ![t] = NoArg]
    /\ UNCHANGED <<map_vars, pool_vars, flush_vars, map_mutex, tp_mutex, calls>>

(* worker_thread_.join(), and the end of the critical section.             *)
worker_join(t) ==
    /\ pc[t] \in {"join", "shutdown_join"}
    /\ arg[t].worker # Null => worker[arg[t].worker].thread \in {"none", "exited"}
    /\ flusher_mutex' = Null
    /\ Goto(t, IF pc[t] = "join" THEN "idle" ELSE "shutdown_drop")
    /\ arg' = [arg EXCEPT ![t] = NoArg]
    /\ UNCHANGED <<map_vars, pool_vars, flush_vars, map_mutex, tp_mutex, calls>>

shutdown_drop(t) == /\ pc[t] = "shutdown_drop"
                    /\ drop_all
                    /\ Goto(t, "shutdown_tp")
                    /\ UNCHANGED <<pool_vars, flush_vars, locks, arg, calls>>

shutdown_tp(t) == /\ pc[t] = "shutdown_tp"
                  /\ tp_mutex = Null
                  /\ ReleasePool
                  /\ tp' = Null
                  /\ Goto(t, "idle")
                  /\ UNCHANGED <<map_vars, queued, pools, flush_vars, locks, arg, calls>>

-----------------------------------------------------------------------------
Continue(t) == \/ initialize_async(t) \/ flush_all_end(t)
               \/ worker_stop(t) \/ worker_join(t) \/ shutdown_drop(t) \/ shutdown_tp(t)

FlusherStep(f) == worker_wakes(f) \/ worker_callback(f)

ApiCall(t) ==
    \/ \E n \in AllNames : \/ create(t, n) \/ create_async(t, n) \/ drop(t, n)
                           \/ set_default_logger(t, n)
                           \/ \E r \in BOOLEAN : register_logger(t, n, r)
    \/ \E a \in Attrs : set_global(t, a, 1)
    \/ \E v \in Levels : set_level(t, v)
    \/ \E text \in LevelSpecs : load_levels(t, text)
    \/ \E o \in Objects : apply_logger_env_levels(t, o)
    \/ \E v \in BOOLEAN : set_automatic_registration(t, v)
    \/ DropAll(t) \/ init_thread_pool(t) \/ flush_all(t) \/ flush_every(t) \/ shutdown(t)

Finished == calls = MaxCalls /\ (\A t \in Threads : pc[t] = "idle") /\ UNCHANGED vars

Next == \/ \E t \in Threads : ApiCall(t) \/ Continue(t)
        \/ \E f \in Flushers : FlusherStep(f)
        \/ PoolWorker
        \/ Finished

Spec == Init /\ [][Next]_vars

(* The scheduler runs every thread.  Whoever waits for a mutex gets it if  *)
(* it is free again and again: the flusher releases its mutex_ for the     *)
(* whole of its interval, and nobody is forced to call the API.            *)
Fairness == /\ \A t \in Threads : SF_vars(Continue(t))
            /\ \A f \in Flushers : SF_vars(FlusherStep(f))
            /\ WF_vars(PoolWorker)

FairSpec == Spec /\ Fairness

-----------------------------------------------------------------------------
(* Every call returns: flush_every and shutdown join the flusher although  *)
(* its callback needs logger_map_mutex_, and flush_all holds that mutex    *)
(* while it waits for room in the pool's queue.                            *)
CallsReturn == \A t \in Threads : []<>(pc[t] = "idle")

(* A logger the registry configured and registered has the settings of the *)
(* registry whatever order and whichever threads the setters were called   *)
(* in: no setter falls between a logger's configuration and its            *)
(* registration.  After a set_levels with a global level (SPDLOG_LEVEL)    *)
(* it makes no difference whether a logger was created before or after.    *)
RegisteredFollowGlobals ==
    \A o \in Registered : obj[o].configured =>
        /\ obj[o].attrs = global
        /\ settled => obj[o].level = LevelFor(obj[o].name)

(* Without a shutdown or an init_thread_pool all async loggers share one   *)
(* pool: two creations never make two.                                     *)
OnePool == \A o \in Registered : obj[o].pool # Null => obj[o].pool \in {tp} \cup 1 .. replaced

(* No flusher is left behind: outside flush_every and shutdown the only    *)
(* thread that may run is that of periodic_flusher_.                       *)
NoStrayFlusher ==
    flusher_mutex = Null =>
        \A f \in Flushers : worker[f].thread \notin {"unused", "none", "exited"} => f = flusher
=============================================================================
